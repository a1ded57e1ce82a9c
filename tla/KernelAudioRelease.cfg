CONSTANTS
  Task = {a, b}
  NoTask = NoTask
  Voice = {v}
  MaxApps = 2
  Valid = {TRUE, FALSE}
  Kinds = {"note_on", "note_off", "arp", "configure"}
  LEN = 2
  Mod = 4
  MinDrains = 1
  NoCmd = NoCmd
SPECIFICATION Spec
INVARIANT ReleaseDelivered
CHECK_DEADLOCK FALSE
