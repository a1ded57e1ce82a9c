\* Two handles and two apps (side by side, or one after the other on one
\* handle), one voice, a ring of two slots whose counters wrap at four.
CONSTANTS
  Task = {a, b}
  NoTask = NoTask
  Voice = {v}
  MaxApps = 2
  Valid = {TRUE}
  Kinds = {"note_on", "note_off", "arp"}
  LEN = 2
  Mod = 4
  MinDrains = 0
  NoCmd = NoCmd
SPECIFICATION Spec
INVARIANTS TypeOK RingConsistent HeldVoiceHasOwner OrphanOnlyIfDropped MaskFresh
PROPERTIES NoOverwrite ServiceSpec ReleaseSparesSuccessor ReleaseTakesEffect
CHECK_DEADLOCK FALSE
