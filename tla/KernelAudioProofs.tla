------------------------- MODULE KernelAudioProofs -------------------------
(***************************************************************************)
(* Proofs about the audio command ring, for every ring length, counter     *)
(* width, set of tasks and number of voices.                               *)
(***************************************************************************)
EXTENDS KernelAudio, TLAPS

(***************************************************************************)
(* The counters.                                                           *)
(***************************************************************************)

\* A positive multiple of LEN is at least LEN.
LEMMA MultipleOfLen ==
  ASSUME NEW k \in Int, 0 < LEN * k
  PROVE  LEN * k >= LEN
<1>1. LEN \in Nat /\ LEN > 0
  BY RingAssumption
<1>2. k >= 1
  <2>1. CASE k <= 0
    <3>1. LEN * k <= 0
      BY <1>1, <2>1
    <3>2. QED  BY <3>1, <1>1
  <2>2. QED  BY <2>1, <1>1
<1>3. LEN * k = LEN + LEN * (k - 1)
  BY <1>1
<1>4. LEN * (k - 1) >= 0
  BY <1>1, <1>2
<1>5. QED  BY <1>3, <1>4, <1>1

\* Two counters less than a ring's length apart use different slots: the
\* mask of try_enqueue never folds an unread command and a new one.
LEMMA SlotsDistinct ==
  ASSUME NEW a \in Counter, NEW b \in Counter,
         0 < Distance(a, b), Distance(a, b) < LEN
  PROVE  Slot(a) # Slot(b)
<1> SUFFICES ASSUME Slot(a) = Slot(b) PROVE FALSE
  OBVIOUS
<1>1. LEN \in Nat /\ LEN > 0 /\ Mod \in Nat /\ Mod > LEN /\ Mod % LEN = 0
  BY RingAssumption
<1>2. a \in Nat /\ b \in Nat /\ a < Mod /\ b < Mod
  BY <1>1 DEF Counter
<1>3. PICK i \in Int : a = LEN * i + (a % LEN)
  BY <1>1, <1>2, a = LEN * (a \div LEN) + (a % LEN), a \div LEN \in Int
<1>4. PICK j \in Int : b = LEN * j + (b % LEN)
  BY <1>1, <1>2, b = LEN * (b \div LEN) + (b % LEN), b \div LEN \in Int
<1>5. PICK m \in Int : Mod = LEN * m
  BY <1>1, Mod = LEN * (Mod \div LEN), Mod \div LEN \in Int
<1>6. CASE b <= a
  <2>1. Distance(a, b) = LEN * i - LEN * j
    BY <1>1, <1>2, <1>3, <1>4, <1>6 DEF Distance, Slot
  <2>2. LEN * i - LEN * j = LEN * (i - j)
    BY <1>1, <1>3, <1>4
  <2>3. QED  BY <2>1, <2>2, <1>1, <1>3, <1>4, MultipleOfLen
<1>7. CASE ~(b <= a)
  <2>1. Distance(a, b) = LEN * i - LEN * j + LEN * m
    BY <1>1, <1>2, <1>3, <1>4, <1>5, <1>7 DEF Distance, Slot
  <2>2. LEN * i - LEN * j + LEN * m = LEN * (i - j + m)
    BY <1>1
  <2>3. QED  BY <2>1, <2>2, <1>1, <1>3, <1>4, <1>5, MultipleOfLen
<1>8. QED  BY <1>6, <1>7

\* A counter's distance from another is itself a counter's value.
LEMMA DistanceType ==
  ASSUME NEW a \in Counter, NEW b \in Counter
  PROVE  Distance(a, b) \in Counter /\ Distance(a, b) \in Nat
BY RingAssumption DEF Counter, Distance

\* Advancing a counter makes it one further from any other, unless it was
\* already as far as the wrap allows.
LEMMA SuccDistance ==
  ASSUME NEW a \in Counter, NEW b \in Counter
  PROVE  /\ Succ(a) \in Counter
         /\ Distance(a, b) < Mod - 1 => Distance(Succ(a), b) = Distance(a, b) + 1
BY RingAssumption DEF Counter, Distance, Succ

\* Two counters equally far from a third are the same counter.
LEMMA DistanceInjective ==
  ASSUME NEW a \in Counter, NEW b \in Counter, NEW h \in Counter,
         Distance(a, h) = Distance(b, h)
  PROVE  a = b
BY RingAssumption DEF Counter, Distance

\* Of two counters ahead of a third, the one not behind is ahead of the
\* other by the difference.
LEMMA DistanceSubtract ==
  ASSUME NEW a \in Counter, NEW b \in Counter, NEW h \in Counter,
         Distance(b, h) <= Distance(a, h)
  PROVE  Distance(a, b) = Distance(a, h) - Distance(b, h)
BY RingAssumption DEF Counter, Distance

\* A slot index is in the ring.
LEMMA SlotType ==
  ASSUME NEW a \in Counter
  PROVE  Slot(a) \in Slots
BY RingAssumption DEF Counter, Slot, Slots

----------------------------------------------------------------------------
(***************************************************************************)
(* Commands and voices.                                                    *)
(***************************************************************************)

\* What apply() may rely on in a command, by its type.
LEMMA CommandFields ==
  ASSUME NEW c \in Command
  PROVE  /\ c.type \in {"note_on", "note_off", "arp", "configure", "release"}
         /\ c.type = "note_on" => /\ c.task \in Task /\ c.app \in App
                                  /\ c.voice \in Voice /\ c.ok \in BOOLEAN
         /\ c.type = "note_off" => c.voice \in Voice
         /\ c.type = "arp" => c.voice \in Voice /\ c.ok \in BOOLEAN
         /\ c.type = "release" => c.task \in Task /\ c.app \in App
<1>1. CASE \E t \in Task, n \in App : c = ReleaseOwner(t, n)
  BY <1>1 DEF ReleaseOwner
<1>2. CASE \E t \in Task, n \in App : c \in AppCommand(t, n)
  <2>1. PICK t \in Task, n \in App : c \in AppCommand(t, n)
    BY <1>2
  <2>2. CASE \E v \in Voice, b \in Valid : c = NoteOn(t, n, v, b)
    BY <2>2, VoiceAssumption DEF NoteOn
  <2>3. CASE \E v \in Voice : c = NoteOff(v)
    BY <2>3 DEF NoteOff
  <2>4. CASE \E v \in Voice, b \in Valid : c = TriggerArp(v, b)
    BY <2>4, VoiceAssumption DEF TriggerArp
  <2>5. CASE c = Configure
    BY <2>5 DEF Configure
  <2>6. QED  BY <2>1, <2>2, <2>3, <2>4, <2>5 DEF AppCommand
<1>3. QED  BY <1>1, <1>2 DEF Command

\* What an app sends, and its release, are commands.
LEMMA AppCommands ==
  ASSUME NEW t \in Task, NEW n \in App
  PROVE  AppCommand(t, n) \subseteq Command /\ ReleaseOwner(t, n) \in Command
BY DEF Command

\* Gating a voice keeps it well typed, and so does each field apply() sets.
LEMMA GateType ==
  ASSUME NEW vs \in VoiceState
  PROVE  GateOn(vs) \in VoiceState /\ GateOff(vs) \in VoiceState
BY DEF GateOn, GateOff, VoiceState

\* A voice given another owner is well typed: NOTE_ON's, NOTE_OFF's and
\* RELEASE_OWNER's last assignments.
LEMMA OwnedType ==
  ASSUME NEW vs \in VoiceState, NEW t \in Task \cup {NoTask}, NEW n \in 0 .. MaxApps
  PROVE  /\ [vs EXCEPT !.owner = t, !.app = n] \in VoiceState
         /\ [vs EXCEPT !.arp = FALSE, !.owner = t, !.app = n] \in VoiceState
BY DEF VoiceState

\* apply()'s NOTE_ON keeps a voice well typed ...
LEMMA NoteOnType ==
  ASSUME NEW vs \in VoiceState, NEW c, c.task \in Task, c.app \in App
  PROVE  AfterNoteOn(vs, c) \in VoiceState
<1> DEFINE w == [vs EXCEPT !.pitch = IF c.ok THEN "ona" ELSE @]
<1>1. w \in VoiceState
  BY DEF VoiceState
<1>2. GateOn(w) \in VoiceState
  BY <1>1, GateType
<1>3. c.app \in 0 .. MaxApps
  BY VoiceAssumption DEF App
<1> HIDE DEF w
<1>4. [GateOn(w) EXCEPT !.owner = c.task, !.app = c.app] \in VoiceState
  BY <1>2, <1>3, OwnedType
<1>5. QED  BY <1>4 DEF AfterNoteOn, w

\* ... so does its NOTE_OFF ...
LEMMA NoteOffType ==
  ASSUME NEW vs \in VoiceState
  PROVE  AfterNoteOff(vs) \in VoiceState
<1>1. GateOff(vs) \in VoiceState
  BY GateType
<1>2. 0 \in 0 .. MaxApps
  BY VoiceAssumption
<1>3. QED  BY <1>1, <1>2, OwnedType DEF AfterNoteOff

\* ... and so does its RELEASE_OWNER, on each voice.
LEMMA ReleaseType ==
  ASSUME NEW vs \in VoiceState, NEW c
  PROVE  AfterRelease(vs, c) \in VoiceState
<1>1. GateOff(vs) \in VoiceState
  BY GateType
<1>2. 0 \in 0 .. MaxApps
  BY VoiceAssumption
<1>3. QED  BY <1>1, <1>2, OwnedType DEF AfterRelease

\* apply() maps a well-typed voice table to a well-typed one.
LEMMA AppliedType ==
  ASSUME NEW vt \in [Voice -> VoiceState], NEW c \in Command
  PROVE  Applied(vt, c) \in [Voice -> VoiceState]
<1>1. CASE c.type = "note_on"
  <2>1. AfterNoteOn(vt[c.voice], c) \in VoiceState
    BY <1>1, CommandFields, NoteOnType
  <2>2. QED  BY <1>1, <2>1, CommandFields DEF Applied
<1>2. CASE c.type = "note_off"
  <2>1. AfterNoteOff(vt[c.voice]) \in VoiceState
    BY <1>2, CommandFields, NoteOffType
  <2>2. QED  BY <1>2, <2>1, CommandFields DEF Applied
<1>3. CASE c.type = "arp"
  <2>1. [vt[c.voice] EXCEPT !.arp = @ \/ c.ok] \in VoiceState
    BY <1>3, CommandFields DEF VoiceState
  <2>2. QED  BY <1>3, <2>1, CommandFields DEF Applied
<1>4. CASE c.type = "release"
  BY <1>4, ReleaseType DEF Applied
<1>5. CASE c.type = "configure"
  BY <1>5 DEF Applied
<1>6. QED  BY <1>1, <1>2, <1>3, <1>4, <1>5, CommandFields

\* synth_render_half keeps the voice table well typed.
LEMMA RenderedType ==
  ASSUME NEW vt \in [Voice -> VoiceState], NEW f, NEW s
  PROVE  Rendered(vt, f, s) \in [Voice -> VoiceState]
BY ZenonT(40) DEF Rendered, VoiceState

----------------------------------------------------------------------------
(***************************************************************************)
(* The inductive invariant: the types, the ring, and that a handle in use  *)
(* has an app (so that the commands it sends are commands).                *)
(***************************************************************************)
HandlesHaveApps == \A t \in Task : phase[t] # "none" => app[t] \in App

RingInv == TypeOK /\ RingConsistent /\ HandlesHaveApps

\* kernel_audio_init's empty ring satisfies the invariant.
LEMMA RingInit == Init => RingInv
<1> SUFFICES ASSUME Init PROVE RingInv
  OBVIOUS
<1> USE RingAssumption, VoiceAssumption
<1>1. TypeOK
  BY DEF Init, TypeOK, CritState, NoCrit, Counter, VoiceState, Silent
<1>2. RingConsistent
  BY DEF Init, RingConsistent, Distance, Unread, NoCrit, Counter
<1>3. HandlesHaveApps
  BY DEF Init, HandlesHaveApps
<1>4. QED  BY <1>1, <1>2, <1>3 DEF RingInv

\* A slot other than the new command's is not disturbed by writing it: the
\* fact behind NoOverwrite.
LEMMA UnreadElsewhere ==
  ASSUME TypeOK, RingConsistent, crit # NoCrit, NEW c \in Unread
  PROVE  Slot(c) # Slot(tail) /\ c # tail
<1>1. c \in Counter /\ Distance(c, head) < Distance(tail, head)
  BY DEF Unread
<1>2. tail \in Counter /\ head \in Counter
  BY DEF TypeOK
<1>3. Distance(tail, head) < LEN
  BY DEF RingConsistent
<1>4. Distance(tail, c) = Distance(tail, head) - Distance(c, head)
  BY <1>1, <1>2, DistanceSubtract, DistanceType DEF Counter
<1>5. Distance(c, head) \in Nat /\ Distance(tail, head) \in Nat
  BY <1>1, <1>2, DistanceType, RingAssumption DEF Counter
<1>6. 0 < Distance(tail, c) /\ Distance(tail, c) < LEN
  BY <1>1, <1>3, <1>4, <1>5, RingAssumption
<1>7. QED  BY <1>1, <1>2, <1>6, SlotsDistinct

\* Entering the critical section: the slot at tail is claimed, and it is free.
LEMMA EnterStep ==
  ASSUME RingInv, NEW t \in Task, NEW c \in Command, Enter(t, c),
         UNCHANGED <<appVars, audioVars>>
  PROVE  RingInv'
<1> USE DEF RingInv
<1>1. TypeOK'
  BY DEF TypeOK, Enter, CritState, NoCrit, appVars, audioVars
<1>2. Distance(tail, head) < LEN
  BY DEF Enter, Full
<1>3. RingConsistent'
  BY <1>2 DEF RingConsistent, Enter, Unread, audioVars, NoCrit
<1>4. HandlesHaveApps'
  BY DEF HandlesHaveApps, appVars
<1>5. QED  BY <1>1, <1>3, <1>4

\* Writing the claimed slot disturbs no unread command.
LEMMA WriteSlotStep == RingInv /\ WriteSlot => RingInv'
<1> SUFFICES ASSUME RingInv, WriteSlot PROVE RingInv'
  OBVIOUS
<1> USE DEF RingInv
<1>1. crit # NoCrit /\ crit.pc = "write" /\ crit.task \in Task
      /\ crit.cmd \in Command /\ crit.at = tail /\ tail \in Counter
  BY DEF WriteSlot, TypeOK, CritState, NoCrit, RingConsistent
<1>2. TypeOK'
  <2>1. buf' \in [Slots -> Command \cup {NoCmd}]
    BY <1>1, SlotType DEF TypeOK, WriteSlot
  <2>2. crit' \in CritState
    BY <1>1 DEF TypeOK, WriteSlot, CritState, NoCrit
  <2>3. QED
    BY <2>1, <2>2 DEF TypeOK, WriteSlot, appVars, audioVars
<1>3. RingConsistent'
  <2>1. buf'[Slot(tail)] = crit.cmd /\ crit'.cmd = crit.cmd /\ crit'.at = tail
    BY <1>1, SlotType DEF TypeOK, WriteSlot, CritState, NoCrit
  <2>2. ASSUME NEW c \in Unread
        PROVE  buf'[Slot(c)] \in Command
    <3>1. Slot(c) # Slot(tail) /\ c \in Counter
      BY <1>1, UnreadElsewhere DEF Unread
    <3>2. QED  BY <1>1, <3>1, SlotType DEF WriteSlot, RingConsistent, TypeOK
  <2>3. Unread' = Unread
    BY DEF Unread, WriteSlot
  <2>4. QED
    BY <1>1, <2>1, <2>2, <2>3 DEF RingConsistent, WriteSlot, audioVars
<1>4. HandlesHaveApps'
  BY DEF HandlesHaveApps, WriteSlot, appVars
<1>5. QED  BY <1>2, <1>3, <1>4

\* The store of tail adds exactly the claimed slot, written, to the unread.
LEMMA PublishTailStep == RingInv /\ PublishTail => RingInv'
<1> SUFFICES ASSUME RingInv, PublishTail PROVE RingInv'
  OBVIOUS
<1> USE DEF RingInv
<1>1. crit # NoCrit /\ crit.pc = "publish" /\ crit.task \in Task
      /\ crit.cmd \in Command /\ crit.at = tail
  BY DEF PublishTail, TypeOK, CritState, NoCrit, RingConsistent
<1>2. tail \in Counter /\ head \in Counter /\ rd \in Counter /\ stop \in Counter
  BY DEF TypeOK
<1>3. Distance(tail, head) < LEN
  BY <1>1 DEF RingConsistent
<1>4. tail' \in Counter /\ Distance(tail', head) = Distance(tail, head) + 1
  BY <1>1, <1>2, <1>3, SuccDistance, DistanceType, RingAssumption
     DEF PublishTail, Counter
<1>5. TypeOK'
  BY <1>1, <1>4 DEF TypeOK, PublishTail, CritState, audioVars
<1>6. RingConsistent'
  <2>1. Distance(tail, head) \in Nat /\ Distance(stop, head) \in Nat
        /\ Distance(rd, head) \in Nat
    BY <1>2, DistanceType
  <2>2. ASSUME NEW c \in Unread'
        PROVE  buf[Slot(c)] \in Command
    <3>1. c \in Counter /\ Distance(c, head) < Distance(tail, head) + 1
      BY <1>4 DEF Unread, PublishTail
    <3>2. CASE Distance(c, head) = Distance(tail, head)
      <4>1. c = tail
        BY <3>1, <3>2, <1>2, DistanceInjective
      <4>2. QED  BY <4>1, <1>1 DEF RingConsistent
    <3>3. CASE Distance(c, head) < Distance(tail, head)
      BY <3>1, <3>3 DEF RingConsistent, Unread
    <3>4. Distance(c, head) \in Nat
      BY <3>1, <1>2, DistanceType, RingAssumption DEF Counter
    <3>5. QED  BY <3>1, <3>2, <3>3, <3>4, <2>1
  <2>3. QED
    BY <1>2, <1>3, <1>4, <2>1, <2>2, RingAssumption
       DEF RingConsistent, PublishTail, audioVars, NoCrit
<1>7. HandlesHaveApps'
  BY <1>1 DEF HandlesHaveApps, PublishTail, TypeOK
<1>8. QED  BY <1>5, <1>6, <1>7

\* The callback starts between head and tail.
LEMMA SnapshotStep == RingInv /\ Snapshot => RingInv'
<1> SUFFICES ASSUME RingInv, Snapshot PROVE RingInv'
  OBVIOUS
<1> USE DEF RingInv
<1>1. TypeOK'
  BY DEF TypeOK, Snapshot, ringVars, appVars
<1>2. Distance(head, head) = 0 /\ Distance(tail, head) \in Nat
  BY DistanceType, RingAssumption DEF TypeOK, Distance, Counter
<1>3. RingConsistent'
  BY <1>2 DEF RingConsistent, Snapshot, ringVars, Unread
<1>4. HandlesHaveApps'
  BY DEF HandlesHaveApps, Snapshot, appVars
<1>5. QED  BY <1>1, <1>3, <1>4

\* While the callback drains, the command it is about to apply is unread.
LEMMA NextIsUnread ==
  ASSUME RingInv, apc = "drain", rd # stop
  PROVE  /\ Distance(rd, head) < Distance(stop, head)
         /\ rd \in Unread /\ buf[Slot(rd)] \in Command
<1>1. rd \in Counter /\ stop \in Counter /\ head \in Counter /\ tail \in Counter
  BY DEF RingInv, TypeOK
<1>2. Distance(rd, head) \in Nat /\ Distance(stop, head) \in Nat
      /\ Distance(tail, head) \in Nat
  BY <1>1, DistanceType
<1>3. Distance(rd, head) # Distance(stop, head)
  BY <1>1, DistanceInjective
<1>4. Distance(rd, head) <= Distance(stop, head)
      /\ Distance(stop, head) <= Distance(tail, head)
  BY DEF RingInv, RingConsistent
<1>5. rd \in Unread
  BY <1>1, <1>2, <1>3, <1>4 DEF Unread
<1>6. QED  BY <1>2, <1>3, <1>4, <1>5 DEF RingInv, RingConsistent

\* Applying a command moves the reader one slot nearer to its snapshot.
LEMMA ApplyNextStep == RingInv /\ ApplyNext => RingInv'
<1> SUFFICES ASSUME RingInv, ApplyNext PROVE RingInv'
  OBVIOUS
<1> USE DEF RingInv
<1>1. Distance(rd, head) < Distance(stop, head) /\ buf[Slot(rd)] \in Command
  BY NextIsUnread DEF ApplyNext
<1>2. rd \in Counter /\ stop \in Counter /\ head \in Counter
  BY DEF TypeOK
<1>3. Distance(rd, head) \in Nat /\ Distance(stop, head) \in Counter
  BY <1>2, DistanceType
<1>4. rd' \in Counter /\ Distance(rd', head) = Distance(rd, head) + 1
  BY <1>1, <1>2, <1>3, SuccDistance, RingAssumption DEF ApplyNext, Counter
<1>5. voices' \in [Voice -> VoiceState]
  BY <1>1, AppliedType DEF ApplyNext, TypeOK
<1>6. TypeOK'
  BY <1>4, <1>5 DEF TypeOK, ApplyNext, ringVars, appVars
<1>7. RingConsistent'
  BY <1>1, <1>3, <1>4, RingAssumption
     DEF RingConsistent, ApplyNext, ringVars, Unread, Counter
<1>8. HandlesHaveApps'
  BY DEF HandlesHaveApps, ApplyNext, appVars
<1>9. QED  BY <1>6, <1>7, <1>8

\* The store of head only removes commands from the unread.
LEMMA PublishHeadStep == RingInv /\ PublishHead => RingInv'
<1> SUFFICES ASSUME RingInv, PublishHead PROVE RingInv'
  OBVIOUS
<1> USE DEF RingInv
<1>1. rd \in Counter /\ stop \in Counter /\ head \in Counter /\ tail \in Counter
  BY DEF TypeOK
<1>2. Distance(rd, head) \in Nat /\ Distance(tail, head) \in Nat
      /\ Distance(tail, rd) \in Nat
  BY <1>1, DistanceType
<1>3. Distance(rd, head) <= Distance(tail, head)
  BY DEF RingConsistent, PublishHead
<1>4. Distance(tail, rd) = Distance(tail, head) - Distance(rd, head)
  BY <1>1, <1>3, DistanceSubtract
<1>5. TypeOK'
  <2>1. drained' \in [Task -> 0 .. MinDrains]
    BY RingAssumption DEF TypeOK, PublishHead
  <2>2. QED  BY <2>1 DEF TypeOK, PublishHead
<1>6. RingConsistent'
  <2>1. Distance(tail, rd) <= Distance(tail, head)
    BY <1>2, <1>4
  <2>2. ASSUME NEW c \in Unread'
        PROVE  c \in Unread
    <3>1. c \in Counter /\ Distance(c, rd) < Distance(tail, rd)
      BY DEF Unread, PublishHead
    <3>2. Distance(c, head) < Distance(tail, head)
      BY <3>1, <1>1, <1>3, RingAssumption DEF Distance, Counter
    <3>3. QED  BY <3>1, <3>2 DEF Unread
  <2>3. QED
    BY <1>2, <2>1, <2>2, RingAssumption DEF RingConsistent, PublishHead, Counter
<1>7. HandlesHaveApps'
  BY DEF HandlesHaveApps, PublishHead
<1>8. QED  BY <1>5, <1>6, <1>7

\* Rendering a buffer does not touch the ring.
LEMMA RenderStep == RingInv /\ Render => RingInv'
<1> SUFFICES ASSUME RingInv, Render PROVE RingInv'
  OBVIOUS
<1> USE DEF RingInv
<1>1. voices' \in [Voice -> VoiceState]
  BY RenderedType DEF Render, TypeOK
<1>2. mask' \subseteq Voice
  BY DEF Render, Sounding
<1>3. TypeOK'
  BY <1>1, <1>2 DEF TypeOK, Render, ringVars, appVars
<1>4. RingConsistent'
  BY DEF RingConsistent, Render, ringVars, Unread
<1>5. HandlesHaveApps'
  BY DEF HandlesHaveApps, Render, appVars
<1>6. QED  BY <1>3, <1>4, <1>5

\* The steps of the apps' tasks.
LEMMA AppStepStep ==
  ASSUME RingInv, NEW t \in Task, AppStep(t)
  PROVE  RingInv'
<1> USE DEF RingInv
<1>1. CASE Send(t)
  <2>1. app[t] \in App
    BY <1>1 DEF Send, HandlesHaveApps, TypeOK
  <2>2. PICK c \in AppCommand(t, app[t]) : Enter(t, c)
    BY <1>1 DEF Send
  <2>3. c \in Command
    BY <2>1, <2>2, AppCommands
  <2>4. QED  BY <1>1, <2>2, <2>3, EnterStep DEF Send
<1>2. CASE Spawn(t)
  <2>1. started' \in 0 .. MaxApps /\ started' \in App
    BY <1>2, VoiceAssumption DEF Spawn, TypeOK, App
  <2>2. TypeOK'
    BY <1>2, <2>1 DEF Spawn, TypeOK, ringVars, audioVars
  <2>3. RingConsistent'
    BY <1>2 DEF RingConsistent, Spawn, ringVars, audioVars, Unread
  <2>4. HandlesHaveApps'
    BY <1>2, <2>1 DEF HandlesHaveApps, Spawn, TypeOK
  <2>5. QED  BY <2>2, <2>3, <2>4
<1>3. CASE BeginExit(t)
  <2>1. TypeOK'
    BY <1>3, RingAssumption DEF BeginExit, TypeOK, ringVars, audioVars
  <2>2. RingConsistent'
    BY <1>3 DEF RingConsistent, BeginExit, ringVars, audioVars, Unread
  <2>3. HandlesHaveApps'
    BY <1>3 DEF HandlesHaveApps, BeginExit, TypeOK
  <2>4. QED  BY <2>1, <2>2, <2>3
<1>4. CASE Release(t)
  <2>1. app[t] \in App
    BY <1>4 DEF Release, HandlesHaveApps, TypeOK
  <2>2. ReleaseOwner(t, app[t]) \in Command
    BY <2>1, AppCommands
  <2>3. QED  BY <1>4, <2>2, EnterStep DEF Release
<1>5. CASE GiveUp(t)
  <2>1. app[t] \in App
    BY <1>5 DEF GiveUp, HandlesHaveApps, TypeOK
  <2>2. TypeOK'
    BY <1>5, <2>1 DEF GiveUp, TypeOK, ringVars, audioVars
  <2>3. RingConsistent'
    BY <1>5 DEF RingConsistent, GiveUp, ringVars, audioVars, Unread
  <2>4. HandlesHaveApps'
    BY <1>5 DEF HandlesHaveApps, GiveUp, TypeOK
  <2>5. QED  BY <2>2, <2>3, <2>4
<1>6. QED  BY <1>1, <1>2, <1>3, <1>4, <1>5 DEF AppStep

\* Every step keeps the invariant: one case per actor.
LEMMA RingNext == RingInv /\ [Next]_vars => RingInv'
<1> SUFFICES ASSUME RingInv, [Next]_vars PROVE RingInv'
  OBVIOUS
<1>1. CASE \E t \in Task : AppStep(t)
  BY <1>1, AppStepStep
<1>2. CASE Producer
  BY <1>2, WriteSlotStep, PublishTailStep DEF Producer
<1>3. CASE Audio
  BY <1>3, SnapshotStep, ApplyNextStep, PublishHeadStep, RenderStep DEF Audio
<1>4. CASE UNCHANGED vars
  BY <1>4 DEF RingInv, TypeOK, RingConsistent, HandlesHaveApps, Unread, vars,
              ringVars, appVars, audioVars
<1>5. QED  BY <1>1, <1>2, <1>3, <1>4 DEF Next

----------------------------------------------------------------------------
\* The invariant holds in every reachable state.
LEMMA RingInvariant == Spec => []RingInv
BY RingInit, RingNext, PTL DEF Spec

\* Type correctness of the audio ring.
THEOREM TypeCorrect == Spec => []TypeOK
BY RingInvariant, PTL DEF RingInv

\* try_enqueue and drain_and_render keep the ring consistent for every
\* length, counter width and number of producers.
THEOREM RingIsConsistent == Spec => []RingConsistent
BY RingInvariant, PTL DEF RingInv

\* A step of any kind leaves the slots of the unread commands as they are.
LEMMA UnreadKept ==
  ASSUME RingInv, [Next]_vars, NEW c \in Unread
  PROVE  buf'[Slot(c)] = buf[Slot(c)]
<1>1. CASE WriteSlot
  <2>1. crit # NoCrit /\ crit.at = tail /\ tail \in Counter /\ c \in Counter
    BY <1>1 DEF WriteSlot, NoCrit, RingInv, RingConsistent, TypeOK, Unread
  <2>2. Slot(c) # Slot(tail)
    BY <2>1, UnreadElsewhere DEF RingInv
  <2>3. QED  BY <1>1, <2>1, <2>2, SlotType DEF WriteSlot, RingInv, TypeOK
<1>2. CASE UNCHANGED buf
  BY <1>2
<1>3. [Next]_vars => WriteSlot \/ UNCHANGED buf
  BY DEF Next, AppStep, Producer, Audio, Send, Enter, Spawn, BeginExit, Release,
         GiveUp, PublishTail, Snapshot, ApplyNext, PublishHead, Render,
         vars, ringVars
<1>4. QED  BY <1>1, <1>2, <1>3

\* No producer overwrites a command the audio thread has still to read.
THEOREM UnreadNotOverwritten == Spec => NoOverwrite
<1>1. RingInv /\ [Next]_vars => [\A c \in Unread : buf'[Slot(c)] = buf[Slot(c)]]_vars
  BY UnreadKept
<1>2. QED  BY <1>1, RingInvariant, PTL DEF Spec, NoOverwrite

----------------------------------------------------------------------------
(***************************************************************************)
(* A sounding voice has an owner: what apply() and the renderer preserve.  *)
(***************************************************************************)
LEMMA AppliedOwner ==
  ASSUME NEW vt \in [Voice -> VoiceState], NEW c \in Command, NEW v \in Voice,
         vt[v].stage = "on" => vt[v].owner # NoTask,
         Applied(vt, c)[v].stage = "on"
  PROVE  Applied(vt, c)[v].owner # NoTask
<1>1. CASE c.type = "note_on"
  <2>1. CASE v = c.voice
    <3>1. Applied(vt, c)[v] = AfterNoteOn(vt[v], c)
      BY <1>1, <2>1, CommandFields DEF Applied
    <3>2. GateOn([vt[v] EXCEPT !.pitch = IF c.ok THEN "ona" ELSE @]) \in VoiceState
      <4>1. [vt[v] EXCEPT !.pitch = IF c.ok THEN "ona" ELSE @] \in VoiceState
        BY DEF VoiceState
      <4>2. QED  BY <4>1, GateType
    <3>3. AfterNoteOn(vt[v], c).owner = c.task
      BY <3>2 DEF AfterNoteOn, VoiceState
    <3>4. QED  BY <1>1, <3>1, <3>3, CommandFields, VoiceAssumption
  <2>2. CASE v # c.voice
    <3>1. Applied(vt, c)[v] = vt[v]
      BY <1>1, <2>2, CommandFields DEF Applied
    <3>2. QED  BY <3>1
  <2>3. QED  BY <2>1, <2>2
<1>2. CASE c.type = "note_off"
  <2>1. CASE v = c.voice
    <3>1. Applied(vt, c)[v] = AfterNoteOff(vt[v])
      BY <1>2, <2>1, CommandFields DEF Applied
    <3>2. AfterNoteOff(vt[v]).stage # "on"
      BY DEF AfterNoteOff, GateOff, VoiceState
    <3>3. QED  BY <3>1, <3>2
  <2>2. CASE v # c.voice
    <3>1. Applied(vt, c)[v] = vt[v]
      BY <1>2, <2>2, CommandFields DEF Applied
    <3>2. QED  BY <3>1
  <2>3. QED  BY <2>1, <2>2
<1>3. CASE c.type = "arp"
  <2>1. Applied(vt, c)[v].stage = vt[v].stage /\ Applied(vt, c)[v].owner = vt[v].owner
    BY <1>3, CommandFields DEF Applied, VoiceState
  <2>2. QED  BY <2>1
<1>4. CASE c.type = "release"
  <2>1. Applied(vt, c)[v] = AfterRelease(vt[v], c)
    BY <1>4 DEF Applied
  <2>2. CASE vt[v].owner = c.task
    <3>1. AfterRelease(vt[v], c).stage # "on"
      BY <2>2 DEF AfterRelease, GateOff, VoiceState
    <3>2. QED  BY <2>1, <3>1
  <2>3. CASE vt[v].owner # c.task
    BY <2>1, <2>3 DEF AfterRelease
  <2>4. QED  BY <2>2, <2>3
<1>5. CASE c.type = "configure"
  BY <1>5 DEF Applied
<1>6. QED  BY <1>1, <1>2, <1>3, <1>4, <1>5, CommandFields

\* No voice is ever held down with nobody to release it.
THEOREM HeldVoicesAreOwned == Spec => []HeldVoiceHasOwner
<1>1. Init => HeldVoiceHasOwner
  BY DEF Init, HeldVoiceHasOwner, Silent
<1>2. RingInv /\ HeldVoiceHasOwner /\ [Next]_vars => HeldVoiceHasOwner'
  <2> SUFFICES ASSUME RingInv, HeldVoiceHasOwner, [Next]_vars,
                      NEW v \in Voice, voices'[v].stage = "on"
               PROVE  voices'[v].owner # NoTask
    BY DEF HeldVoiceHasOwner
  <2>1. CASE ApplyNext
    <3>1. voices \in [Voice -> VoiceState] /\ buf[Slot(rd)] \in Command
      BY <2>1, NextIsUnread DEF ApplyNext, RingInv, TypeOK
    <3>2. voices' = Applied(voices, buf[Slot(rd)])
      BY <2>1 DEF ApplyNext
    <3>3. QED  BY <3>1, <3>2, AppliedOwner DEF HeldVoiceHasOwner
  <2>2. CASE Render
    <3>1. voices \in [Voice -> VoiceState]
      BY DEF RingInv, TypeOK
    <3>2. PICK f \in SUBSET Releasing(voices), s \in SUBSET Arpeggiating(voices) :
            voices' = Rendered(voices, f, s)
      BY <2>2 DEF Render
    <3>3. voices'[v].owner = voices[v].owner
          /\ (voices'[v].stage = "on" => voices[v].stage = "on")
      BY <3>1, <3>2 DEF Rendered, VoiceState
    <3>4. QED  BY <3>3 DEF HeldVoiceHasOwner
  <2>3. CASE UNCHANGED voices
    BY <2>3 DEF HeldVoiceHasOwner
  <2>4. ApplyNext \/ Render \/ UNCHANGED voices
    BY DEF Next, AppStep, Producer, Audio, Send, Spawn, BeginExit, Release,
           GiveUp, WriteSlot, PublishTail, Snapshot, PublishHead, vars, audioVars
  <2>5. QED  BY <2>1, <2>2, <2>3, <2>4
<1>3. QED  BY <1>1, <1>2, RingInvariant, PTL DEF Spec

----------------------------------------------------------------------------
(***************************************************************************)
(* The ring implements AudioService: its refinement mapping, Pending, is   *)
(* what each access to the counters makes of it.  With that, whose voices  *)
(* are whose, over every app that comes and goes on a handle.              *)
(***************************************************************************)

(* Counters k places further on.                                           *)

\* The remainder by the modulus, of less than two turns.
LEMMA OneWrap ==
  ASSUME NEW x \in Nat, x < 2 * Mod
  PROVE  x % Mod = IF x < Mod THEN x ELSE x - Mod
<1>1. Mod \in Nat /\ Mod > 0
  BY RingAssumption
<1>2. /\ x = Mod * (x \div Mod) + (x % Mod) /\ x \div Mod \in Int
      /\ x % Mod \in Nat /\ x % Mod < Mod
  BY <1>1
<1> DEFINE q == x \div Mod
<1>3. CASE q <= -1
  <2>1. Mod * q <= -Mod
    BY <1>1, <1>2, <1>3
  <2> QED  BY <1>1, <1>2, <2>1
<1>4. CASE q = 0
  <2>1. Mod * q = 0
    BY <1>1, <1>4
  <2> QED  BY <1>1, <1>2, <2>1
<1>5. CASE q = 1
  <2>1. Mod * q = Mod
    BY <1>1, <1>5
  <2> QED  BY <1>1, <1>2, <2>1
<1>6. CASE q >= 2
  <2>1. Mod * q >= 2 * Mod
    BY <1>1, <1>2, <1>6
  <2> QED  BY <1>1, <1>2, <2>1
<1> QED  BY <1>2, <1>3, <1>4, <1>5, <1>6

\* The counter k places after a.
On(a, k) == (a + k) % Mod

\* It is k away, and the one after it is k + 1 away; from the next counter it
\* is one less.
LEMMA OnIs ==
  ASSUME NEW a \in Counter, NEW k \in Counter
  PROVE  /\ On(a, k) \in Counter /\ Distance(On(a, k), a) = k
         /\ k + 1 < Mod => On(Succ(a), k) = On(a, k + 1)
<1>1. Mod \in Nat /\ a \in Nat /\ a < Mod /\ k \in Nat /\ k < Mod
  BY RingAssumption DEF Counter
<1>2. On(a, k) = IF a + k < Mod THEN a + k ELSE a + k - Mod
  BY <1>1, OneWrap DEF On
<1>3. On(a, k) \in Counter /\ Distance(On(a, k), a) = k
  BY <1>1, <1>2 DEF Counter, Distance
<1>4. ASSUME k + 1 < Mod
      PROVE  On(Succ(a), k) = On(a, k + 1)
  <2>1. On(a, k + 1) = IF a + (k + 1) < Mod THEN a + (k + 1) ELSE a + (k + 1) - Mod
    BY <1>1, <1>4, OneWrap DEF On
  <2>2. Succ(a) \in Nat /\ Succ(a) < Mod
    BY <1>1 DEF Succ
  <2>3. On(Succ(a), k) = IF Succ(a) + k < Mod THEN Succ(a) + k ELSE Succ(a) + k - Mod
    BY <1>1, <2>2, OneWrap DEF On
  <2> QED  BY <1>1, <1>4, <2>1, <2>3 DEF Succ
<1> QED  BY <1>3, <1>4

----------------------------------------------------------------------------
(* The commands accepted and not yet applied.                              *)

\* The reader is between head and tail.
LEMMA ReaderIs ==
  ASSUME RingInv
  PROVE  /\ ReadFrom \in Counter /\ head \in Counter /\ tail \in Counter
         /\ Distance(ReadFrom, head) \in Nat /\ Distance(tail, head) \in Nat
         /\ Distance(ReadFrom, head) <= Distance(tail, head)
         /\ Waiting = Distance(tail, head) - Distance(ReadFrom, head)
         /\ Waiting \in Nat /\ Waiting <= LEN /\ Waiting < Mod
<1>1. ReadFrom \in Counter /\ head \in Counter /\ tail \in Counter /\ stop \in Counter
  BY DEF RingInv, TypeOK, ReadFrom
<1>2. /\ Distance(ReadFrom, head) \in Nat /\ Distance(tail, head) \in Nat
      /\ Distance(stop, head) \in Nat
  BY <1>1, DistanceType
<1>3. Distance(ReadFrom, head) <= Distance(tail, head) /\ Distance(tail, head) <= LEN
  <2>1. Distance(head, head) = 0
    BY <1>1, RingAssumption DEF Distance, Counter
  <2> QED  BY <1>2, <2>1 DEF RingInv, RingConsistent, ReadFrom
<1>4. Waiting = Distance(tail, head) - Distance(ReadFrom, head)
  BY <1>1, <1>3, DistanceSubtract DEF Waiting
<1> QED  BY <1>1, <1>2, <1>3, <1>4, RingAssumption

\* Each command in line is in a slot no producer has claimed.
LEMMA InLine ==
  ASSUME RingInv, NEW i \in 1 .. Waiting
  PROVE  /\ i - 1 \in Counter /\ On(ReadFrom, i - 1) \in Unread
         /\ Pending[i] = buf[Slot(On(ReadFrom, i - 1))] /\ Pending[i] \in Command
<1>1. /\ ReadFrom \in Counter /\ head \in Counter /\ tail \in Counter
      /\ Distance(ReadFrom, head) \in Nat /\ Distance(tail, head) \in Nat
      /\ Distance(ReadFrom, head) <= Distance(tail, head)
      /\ Waiting = Distance(tail, head) - Distance(ReadFrom, head)
      /\ Waiting \in Nat /\ Waiting < Mod
  BY ReaderIs
<1>2. i \in Nat /\ i >= 1 /\ i <= Waiting
  BY <1>1
<1>3. i - 1 \in Counter
  BY <1>1, <1>2, RingAssumption DEF Counter
<1> DEFINE c == On(ReadFrom, i - 1)
<1>4. c \in Counter /\ Distance(c, ReadFrom) = i - 1
  BY <1>1, <1>3, OnIs
<1>5. c \in Unread
  <2> HIDE DEF c
  <2>1. Distance(c, head) < Distance(tail, head)
    BY <1>1, <1>2, <1>4, RingAssumption DEF Distance, Counter
  <2> QED  BY <1>4, <2>1 DEF Unread
<1>6. Pending[i] = buf[Slot(c)]
  <2>1. ReadFrom + i - 1 = ReadFrom + (i - 1)
    BY <1>1, <1>2, RingAssumption DEF Counter
  <2> QED  BY <2>1 DEF Pending, On
<1> QED  BY <1>3, <1>5, <1>6 DEF RingInv, RingConsistent

\* The line as a sequence.
LEMMA LineIs ==
  ASSUME RingInv
  PROVE  Pending \in Seq(Command) /\ Len(Pending) = Waiting /\ Waiting \in Nat
<1>1. Waiting \in Nat
  BY ReaderIs
<1>2. Pending = [i \in 1 .. Waiting |-> Pending[i]]
  BY DEF Pending
<1>3. \A i \in 1 .. Waiting : Pending[i] \in Command
  BY InLine
<1> HIDE DEF Pending
<1> QED  BY <1>1, <1>2, <1>3

\* A step that leaves the reader and tail alone, and writes to the claimed slot
\* at most, leaves the line as it is.
LEMMA LineKept ==
  ASSUME RingInv, ReadFrom' = ReadFrom, tail' = tail,
         \A c \in Unread : buf'[Slot(c)] = buf[Slot(c)]
  PROVE  Waiting' = Waiting /\ Pending' = Pending
<1>1. Waiting' = Waiting
  BY DEF Waiting
<1>2. Pending' = [i \in 1 .. Waiting |-> buf'[Slot((ReadFrom + i - 1) % Mod)]]
  BY <1>1 DEF Pending
<1>3. ASSUME NEW i \in 1 .. Waiting
      PROVE  buf'[Slot((ReadFrom + i - 1) % Mod)] = buf[Slot((ReadFrom + i - 1) % Mod)]
  <2>1. On(ReadFrom, i - 1) \in Unread
    BY InLine
  <2>2. (ReadFrom + i - 1) % Mod = On(ReadFrom, i - 1)
    <3>1. ReadFrom + i - 1 = ReadFrom + (i - 1)
      BY ReaderIs, RingAssumption DEF Counter
    <3> QED  BY <3>1 DEF On
  <2> QED  BY <2>1, <2>2
<1>4. Pending' = [i \in 1 .. Waiting |-> buf[Slot((ReadFrom + i - 1) % Mod)]]
  BY <1>2, <1>3
<1> QED  BY <1>1, <1>4 DEF Pending

\* The store of tail puts the producer's command at the end of the line.
LEMMA LineGrows ==
  ASSUME RingInv, PublishTail
  PROVE  /\ Waiting < LEN /\ crit.cmd \in Command
         /\ Pending' = Append(Pending, crit.cmd)
<1>1. RingInv'
  BY PublishTailStep
<1>2. crit # NoCrit /\ crit.pc = "publish" /\ crit.at = tail /\ crit.cmd \in Command
      /\ buf[Slot(tail)] = crit.cmd /\ Distance(tail, head) < LEN
  BY DEF PublishTail, NoCrit, RingInv, RingConsistent, TypeOK, CritState
<1>3. buf' = buf /\ head' = head /\ tail' = Succ(tail) /\ ReadFrom' = ReadFrom
  BY <1>2 DEF PublishTail, audioVars, ReadFrom
<1>4. /\ ReadFrom \in Counter /\ head \in Counter /\ tail \in Counter
      /\ Distance(ReadFrom, head) \in Nat /\ Distance(tail, head) \in Nat
      /\ Distance(ReadFrom, head) <= Distance(tail, head)
      /\ Waiting = Distance(tail, head) - Distance(ReadFrom, head)
      /\ Waiting \in Nat /\ Waiting < Mod
  BY ReaderIs
<1>5. Waiting < LEN
  BY <1>2, <1>4, RingAssumption
<1>6. Waiting' = Waiting + 1
  <2>1. Distance(tail', ReadFrom) = Distance(tail, ReadFrom) + 1
    BY <1>3, <1>4, <1>5, SuccDistance, RingAssumption DEF Waiting
  <2> QED  BY <1>3, <2>1 DEF Waiting
<1>7. On(ReadFrom, Waiting) = tail
  <2>1. Waiting \in Counter
    BY <1>4, RingAssumption DEF Counter
  <2>2. On(ReadFrom, Waiting) \in Counter /\ Distance(On(ReadFrom, Waiting), ReadFrom) = Waiting
    BY <1>4, <2>1, OnIs
  <2>3. Distance(tail, ReadFrom) = Waiting
    BY DEF Waiting
  <2> QED  BY <1>4, <2>2, <2>3, DistanceInjective
<1>8. ASSUME NEW i \in 1 .. Waiting + 1
      PROVE  Pending'[i] = IF i <= Waiting THEN Pending[i] ELSE crit.cmd
  <2>1. Pending'[i] = buf[Slot((ReadFrom + i - 1) % Mod)]
    BY <1>3, <1>6 DEF Pending
  <2>2. CASE i <= Waiting
    BY <1>4, <2>1, <2>2 DEF Pending
  <2>3. CASE ~(i <= Waiting)
    <3>1. i = Waiting + 1 /\ ReadFrom + i - 1 = ReadFrom + Waiting
      BY <1>4, <2>3, RingAssumption DEF Counter
    <3> QED  BY <1>2, <1>7, <2>1, <2>3, <3>1 DEF On
  <2> QED  BY <2>2, <2>3
<1>9. Pending \in Seq(Command) /\ Len(Pending) = Waiting
      /\ Pending' \in Seq(Command) /\ Len(Pending') = Waiting + 1
  <2>1. (Pending \in Seq(Command))' /\ (Len(Pending) = Waiting)'
    BY <1>1, LineIs, PTL
  <2> QED  BY <1>6, <2>1, LineIs
<1> HIDE DEF Pending
<1>10. Pending' = Append(Pending, crit.cmd)
  BY <1>2, <1>4, <1>8, <1>9
<1> QED  BY <1>2, <1>5, <1>10

\* Applying a command takes the first of the line.
LEMMA LineShrinks ==
  ASSUME RingInv, ApplyNext
  PROVE  /\ Pending # << >> /\ Head(Pending) = buf[Slot(rd)]
         /\ Pending' = Tail(Pending)
<1>1. RingInv'
  BY ApplyNextStep
<1>2. apc = "drain" /\ rd # stop /\ rd' = Succ(rd) /\ buf' = buf /\ tail' = tail
      /\ ReadFrom = rd /\ ReadFrom' = rd'
  BY DEF ApplyNext, ringVars, ReadFrom
<1>3. /\ ReadFrom \in Counter /\ head \in Counter /\ tail \in Counter
      /\ Distance(ReadFrom, head) \in Nat /\ Distance(tail, head) \in Nat
      /\ Distance(ReadFrom, head) <= Distance(tail, head)
      /\ Waiting = Distance(tail, head) - Distance(ReadFrom, head)
      /\ Waiting \in Nat /\ Waiting < Mod
  BY ReaderIs
<1>4. Waiting >= 1
  <2>1. rd \in Unread
    BY <1>2, NextIsUnread
  <2> QED  BY <1>2, <1>3, <2>1 DEF Unread
<1>5. Waiting' = Waiting - 1
  <2>1. Waiting = Distance(tail, rd) /\ Waiting' = Distance(tail, Succ(rd))
    BY <1>2 DEF Waiting
  <2> QED  BY <1>2, <1>3, <1>4, <2>1, RingAssumption DEF Distance, Succ, Counter
<1>6. ASSUME NEW i \in 1 .. Waiting - 1
      PROVE  Pending'[i] = Pending[i + 1]
  <2>1. i \in Nat /\ i >= 1 /\ i < Waiting /\ i - 1 \in Counter /\ (i - 1) + 1 < Mod
    BY <1>3, RingAssumption DEF Counter
  <2>2. Pending'[i] = buf[Slot((Succ(rd) + i - 1) % Mod)]
    BY <1>2, <1>5 DEF Pending
  <2>3. Pending[i + 1] = buf[Slot((rd + (i + 1) - 1) % Mod)]
    BY <1>2, <1>3, <2>1 DEF Pending
  <2>4. On(Succ(rd), i - 1) = On(rd, (i - 1) + 1)
    BY <1>2, <1>3, <2>1, OnIs
  <2>5. Succ(rd) \in Counter
    BY <1>2, <1>3, SuccDistance
  <2>6. Succ(rd) + i - 1 = Succ(rd) + (i - 1) /\ rd + (i + 1) - 1 = rd + ((i - 1) + 1)
    BY <1>2, <1>3, <2>1, <2>5, RingAssumption DEF Counter
  <2> QED  BY <2>2, <2>3, <2>4, <2>6 DEF On
<1>7. Pending[1] = buf[Slot(rd)]
  <2>1. (rd + 1 - 1) % Mod = rd
    <3>1. rd + 1 - 1 = rd /\ rd \in Nat /\ rd < Mod /\ rd < 2 * Mod
      BY <1>2, <1>3, RingAssumption DEF Counter
    <3> QED  BY <3>1, OneWrap
  <2> QED  BY <1>2, <1>3, <1>4, <2>1 DEF Pending
<1>8. Pending \in Seq(Command) /\ Len(Pending) = Waiting
      /\ Pending' \in Seq(Command) /\ Len(Pending') = Waiting - 1
  <2>1. (Pending \in Seq(Command))' /\ (Len(Pending) = Waiting)'
    BY <1>1, LineIs, PTL
  <2> QED  BY <1>5, <2>1, LineIs
<1> HIDE DEF Pending
<1>9. Pending # << >> /\ Head(Pending) = Pending[1]
  BY <1>3, <1>4, <1>8
<1>10. Pending' = Tail(Pending)
  <2>1. Tail(Pending) \in Seq(Command) /\ Len(Tail(Pending)) = Waiting - 1
        /\ \A i \in 1 .. Waiting - 1 : Tail(Pending)[i] = Pending[i + 1]
    BY <1>3, <1>4, <1>8, <1>9
  <2> QED  BY <1>3, <1>6, <1>8, <2>1
<1> QED  BY <1>7, <1>9, <1>10

----------------------------------------------------------------------------
(* The ring implements the service.                                        *)

\* The service speaks of the same commands and the same voices.
LEMMA SameVoices ==
  /\ Service!Command = Command /\ Service!Silent = Silent
  /\ \A vt, c : Service!Applied(vt, c) = Applied(vt, c)
  /\ \A vt, f, s : Service!Rendered(vt, f, s) = Rendered(vt, f, s)
  /\ \A vt : Service!Releasing(vt) = Releasing(vt)
             /\ Service!Arpeggiating(vt) = Arpeggiating(vt)
<1>1. Service!Command = Command
  BY DEF Service!Command, Command, Service!AppCommand, AppCommand, Service!App, App,
         Service!NoteOn, NoteOn, Service!NoteOff, NoteOff, Service!TriggerArp, TriggerArp,
         Service!Configure, Configure, Service!ReleaseOwner, ReleaseOwner
<1>2. \A vt, c : Service!Applied(vt, c) = Applied(vt, c)
  BY DEF Service!Applied, Applied, Service!AfterNoteOn, AfterNoteOn, Service!GateOn, GateOn,
         Service!AfterNoteOff, AfterNoteOff, Service!GateOff, GateOff,
         Service!AfterRelease, AfterRelease
<1> QED
  BY <1>1, <1>2 DEF Service!Silent, Silent, Service!Rendered, Rendered,
         Service!Releasing, Releasing, Service!Arpeggiating, Arpeggiating

\* kernel_audio_init is the service's beginning.
LEMMA ServiceInit == Init => Service!Init
<1> SUFFICES ASSUME Init PROVE Service!Init
  OBVIOUS
<1>1. RingInv
  BY RingInit
<1>2. Waiting = 0
  BY RingAssumption DEF Init, Waiting, ReadFrom, Distance
<1>3. Pending = << >>
  BY <1>1, <1>2, LineIs
<1> QED  BY <1>3, SameVoices DEF Init, Service!Init

\* What each access is to the service: a command is accepted by the store of
\* tail and applied by the callback; every other access is nothing to it.
LEMMA ServiceStep ==
  ASSUME RingInv, [Next]_vars
  PROVE  \/ PublishTail /\ Service!Accept
         \/ ApplyNext /\ Service!Apply
         \/ Render /\ Service!Render
         \/ UNCHANGED <<Pending, voices>>
<1>1. CASE PublishTail
  <2>1. Len(Pending) < LEN /\ crit.cmd \in Command /\ Pending' = Append(Pending, crit.cmd)
    BY <1>1, LineGrows, LineIs
  <2>2. voices' = voices
    BY <1>1 DEF PublishTail, audioVars
  <2> QED  BY <1>1, <2>1, <2>2, SameVoices DEF Service!Accept
<1>2. CASE ApplyNext
  <2>1. voices' = Applied(voices, buf[Slot(rd)])
    BY <1>2 DEF ApplyNext
  <2>2. Pending # << >> /\ Head(Pending) = buf[Slot(rd)] /\ Pending' = Tail(Pending)
    BY <1>2, LineShrinks
  <2> QED  BY <1>2, <2>1, <2>2, SameVoices DEF Service!Apply
<1>3. ASSUME ReadFrom' = ReadFrom, tail' = tail
      PROVE  Pending' = Pending
  <2>1. \A c \in Unread : buf'[Slot(c)] = buf[Slot(c)]
    BY UnreadKept
  <2> QED  BY <1>3, <2>1, LineKept
<1>4. CASE Render
  <2>1. ReadFrom' = ReadFrom /\ tail' = tail
    BY <1>4 DEF Render, ringVars, ReadFrom
  <2>2. \E f \in SUBSET Releasing(voices), s \in SUBSET Arpeggiating(voices) :
          voices' = Rendered(voices, f, s)
    BY <1>4 DEF Render
  <2> QED  BY <1>3, <1>4, <2>1, <2>2, SameVoices DEF Service!Render
<1>5. CASE Snapshot
  <2>1. ReadFrom' = ReadFrom /\ tail' = tail /\ voices' = voices
    BY <1>5 DEF Snapshot, ringVars, ReadFrom
  <2> QED  BY <1>3, <2>1
<1>6. CASE PublishHead
  <2>1. ReadFrom' = ReadFrom /\ tail' = tail /\ voices' = voices
    BY <1>6 DEF PublishHead, ReadFrom
  <2> QED  BY <1>3, <2>1
<1>7. CASE WriteSlot
  <2>1. ReadFrom' = ReadFrom /\ tail' = tail /\ voices' = voices
    BY <1>7 DEF WriteSlot, audioVars, ReadFrom
  <2> QED  BY <1>3, <2>1
<1>8. CASE (\E t \in Task : AppStep(t)) \/ UNCHANGED vars
  <2>1. head' = head /\ tail' = tail /\ rd' = rd /\ apc' = apc /\ voices' = voices
    BY <1>8 DEF AppStep, Send, Enter, Spawn, BeginExit, Release, GiveUp, vars, ringVars, audioVars
  <2>2. ReadFrom' = ReadFrom
    BY <2>1 DEF ReadFrom
  <2> QED  BY <1>3, <2>1, <2>2
<1> QED  BY <1>1, <1>2, <1>4, <1>5, <1>6, <1>7, <1>8 DEF Next, Producer, Audio

\* Accepted commands are applied exactly once and in order of acceptance, and
\* nothing else but the renderer touches a voice: the ring, with its wrapping
\* counters and unlocked callback, implements what kernel_audio.h promises.
THEOREM RingImplementsService == Spec => ServiceSpec
<1>1. RingInv /\ [Next]_vars => [Service!Next]_<<Pending, voices>>
  BY ServiceStep DEF Service!Next
<1> QED  BY <1>1, ServiceInit, RingInvariant, PTL DEF Spec, ServiceSpec, Service!Spec

----------------------------------------------------------------------------
(* The mask the apps read.                                                 *)

\* Between two callbacks acid_active_voices reports exactly the voices that
\* sound: the mask is taken after the buffer is rendered, never before.
THEOREM MaskIsFresh == Spec => []MaskFresh
<1>1. Init => MaskFresh
  BY DEF Init, MaskFresh, Sounding, Silent
<1>2. MaskFresh /\ [Next]_vars => MaskFresh'
  <2> SUFFICES ASSUME MaskFresh, [Next]_vars, apc' = "idle"
               PROVE  mask' = Sounding(voices')
    BY DEF MaskFresh, Sounding
  <2>1. CASE Render
    BY <2>1 DEF Render
  <2>2. CASE apc = "idle" /\ UNCHANGED <<voices, mask>>
    BY <2>2 DEF MaskFresh
  <2>3. Render \/ (apc = "idle" /\ UNCHANGED <<voices, mask>>)
    BY DEF Next, AppStep, Producer, Audio, Send, Spawn, BeginExit, Release,
           GiveUp, WriteSlot, PublishTail, Snapshot, ApplyNext, PublishHead, vars, audioVars
  <2> QED  BY <2>1, <2>2, <2>3
<1> QED  BY <1>1, <1>2, PTL DEF Spec

----------------------------------------------------------------------------
(* Whose voices are whose.                                                 *)

\* The task in the critical section is there, and speaks for its own app.
SendersKnown ==
  crit # NoCrit =>
    /\ phase[crit.task] # "none"
    /\ crit.cmd.type \in {"note_on", "release"} =>
         crit.cmd.task = crit.task /\ crit.cmd.app = app[crit.task]

\* OrphanOnlyIfDropped, with the voice's task and app named.
OwnersKnown ==
  \A v \in Voice, t \in Task, n \in Nat :
    voices[v].owner = t /\ voices[v].app = n =>
      Current(t, n) \/ ReleasePending(t, n) \/ n \in dropped

\* A note in line is of an app that is alive, or whose release is further back
\* in the line, or was given up.
NotesOwned ==
  \A i \in 1 .. Waiting, t \in Task, n \in Nat :
    Pending[i].type = "note_on" /\ Pending[i].task = t /\ Pending[i].app = n =>
      \/ Current(t, n)
      \/ \E j \in i + 1 .. Waiting : Pending[j] = ReleaseOwner(t, n)
      \/ n \in dropped

\* Nothing is of a later app than the handle's present one ...
AppsPast ==
  /\ \A t \in Task : app[t] <= started
  /\ \A v \in Voice : voices[v].owner # NoTask => voices[v].app <= app[voices[v].owner]
  /\ \A i \in 1 .. Waiting : Pending[i].type = "note_on" => Pending[i].app <= app[Pending[i].task]

\* ... and nothing before a release in the line is of a later app than its.
ReleasesLast ==
  \A i \in 1 .. Waiting : Pending[i].type = "release" =>
    /\ \A v \in Voice : voices[v].owner = Pending[i].task => voices[v].app <= Pending[i].app
    /\ \A j \in 1 .. i - 1 :
         Pending[j].type = "note_on" /\ Pending[j].task = Pending[i].task
           => Pending[j].app <= Pending[i].app

VoiceInv == OwnersKnown /\ SendersKnown /\ NotesOwned /\ AppsPast /\ ReleasesLast

\* What a command does to who owns a voice: a note takes it for its sender, a
\* release frees those of its task, and nothing else gives it to anybody.
LEMMA AppliedOwners ==
  ASSUME NEW vt \in [Voice -> VoiceState], NEW c \in Command, NEW v \in Voice
  PROVE  LET w == Applied(vt, c)[v] IN
           \/ w.owner = NoTask
           \/ c.type = "note_on" /\ w.owner = c.task /\ w.app = c.app
           \/ /\ w.owner = vt[v].owner /\ w.app = vt[v].app
              /\ c.type = "release" => vt[v].owner # c.task
<1>1. CASE c.type = "note_on"
  <2>1. CASE v = c.voice
    <3> DEFINE g == GateOn([vt[v] EXCEPT !.pitch = IF c.ok THEN "ona" ELSE @])
    <3>1. [vt[v] EXCEPT !.pitch = IF c.ok THEN "ona" ELSE @] \in VoiceState
      BY DEF VoiceState
    <3>2. g \in VoiceState
      BY <3>1, GateType
    <3>3. Applied(vt, c)[v] = [g EXCEPT !.owner = c.task, !.app = c.app]
      BY <1>1, <2>1, CommandFields DEF Applied, AfterNoteOn
    <3> HIDE DEF g
    <3> QED  BY <1>1, <3>2, <3>3 DEF VoiceState
  <2>2. CASE v # c.voice
    BY <1>1, <2>2, CommandFields DEF Applied
  <2> QED  BY <2>1, <2>2
<1>2. CASE c.type = "note_off"
  <2>1. CASE v = c.voice
    <3>1. Applied(vt, c)[v] = AfterNoteOff(vt[v]) /\ GateOff(vt[v]) \in VoiceState
      BY <1>2, <2>1, CommandFields, GateType DEF Applied
    <3> QED  BY <3>1 DEF AfterNoteOff, VoiceState
  <2>2. CASE v # c.voice
    BY <1>2, <2>2, CommandFields DEF Applied
  <2> QED  BY <2>1, <2>2
<1>3. CASE c.type = "arp"
  BY <1>3, CommandFields DEF Applied, VoiceState
<1>4. CASE c.type = "release"
  <2>1. Applied(vt, c)[v] = AfterRelease(vt[v], c) /\ GateOff(vt[v]) \in VoiceState
    BY <1>4, GateType DEF Applied
  <2> QED  BY <1>4, <2>1 DEF AfterRelease, VoiceState
<1>5. CASE c.type = "configure"
  BY <1>5 DEF Applied
<1> QED  BY <1>1, <1>2, <1>3, <1>4, <1>5, CommandFields

\* Steps that leave the line and the voices' owners alone.
LEMMA LineStays ==
  ASSUME VoiceInv, Pending' = Pending, Waiting' = Waiting,
         \A v \in Voice : voices'[v].owner = voices[v].owner /\ voices'[v].app = voices[v].app,
         SendersKnown', dropped \subseteq dropped',
         \A t, n : Current(t, n) => Current(t, n)' \/ n \in dropped',
         \A t \in Task : app[t] <= app'[t] /\ app'[t] <= started',
         \A v \in Voice : voices[v].owner \in Task \cup {NoTask} /\ voices[v].app \in Nat,
         \A t \in Task : app[t] \in Nat /\ app'[t] \in Nat,
         \A i \in 1 .. Waiting : Pending[i] \in Command
  PROVE  VoiceInv'
<1> USE DEF VoiceInv
<1>1. \A t, n : ReleasePending(t, n)' = ReleasePending(t, n)
  BY DEF ReleasePending
<1>2. OwnersKnown'
  BY <1>1 DEF OwnersKnown
<1>3. NotesOwned'
  BY DEF NotesOwned
<1>4. AppsPast'
  <2>1. \A t \in Task : app'[t] <= started'
    OBVIOUS
  <2>2. \A v \in Voice : voices'[v].owner # NoTask => voices'[v].app <= app'[voices'[v].owner]
    BY DEF AppsPast
  <2>3. ASSUME NEW i \in 1 .. Waiting, Pending[i].type = "note_on"
        PROVE  Pending[i].app <= app'[Pending[i].task]
    <3>1. Pending[i].task \in Task /\ Pending[i].app \in App
      BY <2>3, CommandFields
    <3>2. Pending[i].app \in Nat
      BY <3>1 DEF App
    <3>3. Pending[i].app <= app[Pending[i].task]
      BY <2>3 DEF AppsPast
    <3> QED  BY <3>1, <3>2, <3>3
  <2> QED  BY <2>1, <2>2, <2>3 DEF AppsPast
<1>5. ReleasesLast'
  BY DEF ReleasesLast
<1> QED  BY <1>2, <1>3, <1>4, <1>5

\* What the proofs need of the types.
LEMMA VoiceFields ==
  ASSUME RingInv
  PROVE  /\ \A v \in Voice : voices[v].owner \in Task \cup {NoTask} /\ voices[v].app \in Nat
         /\ \A t \in Task : app[t] \in Nat
         /\ \A i \in 1 .. Waiting : Pending[i] \in Command
         /\ started \in Nat
<1>1. \A v \in Voice : voices[v] \in VoiceState
  BY DEF RingInv, TypeOK
<1>2. \A v \in Voice : voices[v].owner \in Task \cup {NoTask} /\ voices[v].app \in Nat
  BY <1>1 DEF VoiceState
<1>3. (\A t \in Task : app[t] \in Nat) /\ started \in Nat
  BY DEF RingInv, TypeOK
<1>4. \A i \in 1 .. Waiting : Pending[i] \in Command
  BY InLine
<1> QED  BY <1>2, <1>3, <1>4

\* At the start nobody owns a voice and the line is empty.
LEMMA VoiceInit == Init => VoiceInv
<1> SUFFICES ASSUME Init PROVE VoiceInv
  OBVIOUS
<1>1. Waiting = 0
  BY RingAssumption DEF Init, Waiting, ReadFrom, Distance
<1>2. \A v \in Voice : voices[v].owner = NoTask
  BY DEF Init, Silent
<1>3. OwnersKnown
  BY <1>2, VoiceAssumption DEF OwnersKnown
<1>4. SendersKnown /\ (\A t \in Task : app[t] <= started)
  BY DEF Init, SendersKnown
<1>5. NotesOwned /\ AppsPast /\ ReleasesLast
  BY <1>1, <1>2, <1>4 DEF NotesOwned, AppsPast, ReleasesLast
<1> QED  BY <1>3, <1>4, <1>5 DEF VoiceInv

\* A command accepted: a note of an app that is there, or the release that
\* lets its app go.
LEMMA AcceptStep ==
  ASSUME RingInv, VoiceInv, PublishTail
  PROVE  VoiceInv'
<1> USE DEF VoiceInv
<1> DEFINE k == Waiting  c == crit.cmd  u == crit.task
<1>1. k \in Nat /\ Pending \in Seq(Command) /\ Len(Pending) = k
  BY LineIs
<1>2. Pending' = Append(Pending, c) /\ c \in Command
  BY LineGrows
<1>3. Waiting' = k + 1
  <2>1. RingInv'
    BY PublishTailStep
  <2>2. (Len(Pending) = Waiting)'
    BY <2>1, LineIs, PTL
  <2> QED  BY <1>1, <1>2, <2>2
<1>4. /\ \A i \in 1 .. k : Pending'[i] = Pending[i] /\ Pending[i] \in Command
      /\ Pending'[k + 1] = c
  BY <1>1, <1>2
<1>5. /\ u \in Task /\ phase[u] # "none"
      /\ c.type \in {"note_on", "release"} => c.task = u /\ c.app = app[u]
      /\ crit # NoCrit
  BY DEF PublishTail, NoCrit, SendersKnown, RingInv, TypeOK, CritState
<1>6. /\ voices' = voices /\ app' = app /\ started' = started /\ dropped' = dropped
      /\ crit' = NoCrit
      /\ phase' = [phase EXCEPT ![u] = IF c.type = "release" THEN "none" ELSE @]
  BY DEF PublishTail, audioVars
<1>7. /\ \A v \in Voice : voices[v].owner \in Task \cup {NoTask} /\ voices[v].app \in Nat
      /\ \A t \in Task : app[t] \in Nat
      /\ phase \in [Task -> {"none", "run", "exit"}]
  BY VoiceFields DEF RingInv, TypeOK
<1>8. c.type \in {"note_on", "release"} => c.task \in Task /\ c.app \in App /\ c.app \in Nat
  BY <1>2, CommandFields DEF App
<1> HIDE DEF k, c, u
<1>9. ASSUME NEW t \in Task, NEW n \in Nat, Current(t, n)
      PROVE  Current(t, n)' \/ c = ReleaseOwner(t, n)
  <2>1. CASE c.type = "release" /\ t = u
    <3>1. c.task = t /\ c.app = n
      BY <1>5, <1>9, <2>1 DEF Current
    <3>2. \E t1 \in Task, n1 \in App : c = ReleaseOwner(t1, n1)
      <4>1. \A t1 \in Task, n1 \in App : c \notin AppCommand(t1, n1)
        BY <2>1 DEF AppCommand, NoteOn, NoteOff, TriggerArp, Configure
      <4> QED  BY <1>2, <4>1 DEF Command
    <3> QED  BY <3>1, <3>2 DEF ReleaseOwner
  <2>2. CASE ~(c.type = "release" /\ t = u)
    BY <1>6, <1>7, <1>9, <2>2 DEF Current
  <2> QED  BY <2>1, <2>2
<1>10. ASSUME NEW t \in Task, NEW n \in Nat
       PROVE  /\ ReleasePending(t, n) => ReleasePending(t, n)'
              /\ c = ReleaseOwner(t, n) => ReleasePending(t, n)'
  <2>1. ReleasePending(t, n)' <=> \E i \in 1 .. k + 1 : Pending'[i] = ReleaseOwner(t, n)
    BY <1>3 DEF ReleasePending
  <2>2. ReleasePending(t, n) <=> \E i \in 1 .. k : Pending[i] = ReleaseOwner(t, n)
    BY DEF ReleasePending, k
  <2>3. k + 1 \in 1 .. k + 1 /\ \A i \in 1 .. k : i \in 1 .. k + 1
    BY <1>1
  <2> QED  BY <1>4, <2>1, <2>2, <2>3
<1>11. OwnersKnown'
  BY <1>6, <1>9, <1>10 DEF OwnersKnown
<1>12. SendersKnown'
  BY <1>6 DEF SendersKnown
<1>13. NotesOwned'
  <2> SUFFICES ASSUME NEW i \in 1 .. k + 1, NEW t \in Task, NEW n \in Nat,
                      Pending'[i].type = "note_on", Pending'[i].task = t, Pending'[i].app = n
               PROVE  \/ Current(t, n)'
                      \/ \E j \in i + 1 .. k + 1 : Pending'[j] = ReleaseOwner(t, n)
                      \/ n \in dropped'
    BY <1>3 DEF NotesOwned
  <2>1. CASE i = k + 1
    <3>1. c.type = "note_on" /\ c.task = t /\ c.app = n
      BY <1>4, <2>1
    <3>2. Current(t, n)
      BY <1>5, <3>1 DEF Current
    <3>3. c # ReleaseOwner(t, n)
      BY <3>1 DEF ReleaseOwner
    <3> QED  BY <1>9, <3>2, <3>3
  <2>2. CASE i # k + 1
    <3>1. i \in 1 .. k
      BY <1>1, <2>2
    <3>2. \/ Current(t, n)
          \/ \E j \in i + 1 .. k : Pending[j] = ReleaseOwner(t, n)
          \/ n \in dropped
      BY <1>4, <3>1 DEF NotesOwned, k
    <3>3. (\E j \in i + 1 .. k : Pending[j] = ReleaseOwner(t, n))
            => \E j \in i + 1 .. k + 1 : Pending'[j] = ReleaseOwner(t, n)
      BY <1>1, <1>4, <3>1
    <3>4. c = ReleaseOwner(t, n) => \E j \in i + 1 .. k + 1 : Pending'[j] = ReleaseOwner(t, n)
      BY <1>1, <1>4, <3>1
    <3> QED  BY <1>6, <1>9, <3>2, <3>3, <3>4
  <2> QED  BY <2>1, <2>2
<1>14. AppsPast'
  <2>1. /\ \A t \in Task : app'[t] <= started'
        /\ \A v \in Voice : voices'[v].owner # NoTask => voices'[v].app <= app'[voices'[v].owner]
    BY <1>6 DEF AppsPast
  <2>2. ASSUME NEW i \in 1 .. k + 1, Pending'[i].type = "note_on"
        PROVE  Pending'[i].app <= app'[Pending'[i].task]
    <3>1. CASE i = k + 1
      BY <1>4, <1>5, <1>6, <1>7, <2>2, <3>1
    <3>2. CASE i # k + 1
      <4>1. i \in 1 .. k
        BY <1>1, <3>2
      <4> QED  BY <1>4, <1>6, <2>2, <4>1 DEF AppsPast, k
    <3> QED  BY <3>1, <3>2
  <2> QED  BY <1>3, <2>1, <2>2 DEF AppsPast
<1>15. ReleasesLast'
  <2> SUFFICES ASSUME NEW i \in 1 .. k + 1, Pending'[i].type = "release"
               PROVE  /\ \A v \in Voice : voices[v].owner = Pending'[i].task
                                            => voices[v].app <= Pending'[i].app
                      /\ \A j \in 1 .. i - 1 :
                           Pending'[j].type = "note_on" /\ Pending'[j].task = Pending'[i].task
                             => Pending'[j].app <= Pending'[i].app
    BY <1>3, <1>6 DEF ReleasesLast
  <2>1. CASE i = k + 1
    <3>1. Pending'[i].task = u /\ Pending'[i].app = app[u] /\ u # NoTask
      BY <1>4, <1>5, <2>1, VoiceAssumption
    <3>2. \A j \in 1 .. i - 1 : j \in 1 .. k
      BY <1>1, <2>1
    <3> QED  BY <1>4, <3>1, <3>2 DEF AppsPast, k
  <2>2. CASE i # k + 1
    <3>1. i \in 1 .. k /\ \A j \in 1 .. i - 1 : j \in 1 .. k
      BY <1>1, <2>2
    <3> QED  BY <1>4, <3>1 DEF ReleasesLast, k
  <2> QED  BY <2>1, <2>2
<1> QED  BY <1>11, <1>12, <1>13, <1>14, <1>15

\* A command applied: a note makes its app an owner, a release takes the voices
\* of its task.
LEMMA ApplyStep ==
  ASSUME RingInv, VoiceInv, ApplyNext
  PROVE  VoiceInv'
<1> USE DEF VoiceInv
<1> DEFINE k == Waiting  c == Head(Pending)
<1>1. k \in Nat /\ Pending \in Seq(Command) /\ Len(Pending) = k
  BY LineIs
<1>2. Pending # << >> /\ Pending' = Tail(Pending) /\ buf[Slot(rd)] = c
  BY LineShrinks
<1>3. Waiting' = k - 1
  <2>1. RingInv'
    BY ApplyNextStep
  <2>2. (Len(Pending) = Waiting)'
    BY <2>1, LineIs, PTL
  <2> QED  BY <1>1, <1>2, <2>2
<1>4. /\ k >= 1 /\ c = Pending[1] /\ c \in Command
      /\ \A i \in 1 .. k - 1 : Pending'[i] = Pending[i + 1] /\ i + 1 \in 1 .. k
      /\ \A i \in 2 .. k : Pending'[i - 1] = Pending[i] /\ i - 1 \in 1 .. k - 1
  BY <1>1, <1>2
<1>5. voices \in [Voice -> VoiceState] /\ voices' = Applied(voices, c)
  BY <1>2 DEF ApplyNext, RingInv, TypeOK
<1>6. app' = app /\ phase' = phase /\ dropped' = dropped /\ started' = started /\ crit' = crit
  BY DEF ApplyNext, appVars, ringVars
<1>7. ASSUME NEW v \in Voice
      PROVE  \/ voices'[v].owner = NoTask
             \/ c.type = "note_on" /\ voices'[v].owner = c.task /\ voices'[v].app = c.app
             \/ /\ voices'[v].owner = voices[v].owner /\ voices'[v].app = voices[v].app
                /\ c.type = "release" => voices[v].owner # c.task
  BY <1>4, <1>5, AppliedOwners
<1>8. /\ c.type = "note_on" => c.task \in Task /\ c.app \in App /\ c.app \in Nat
      /\ 1 \in 1 .. k /\ Pending[1] = c
  BY <1>1, <1>4, CommandFields DEF App
<1> HIDE DEF k, c
<1>9. \A t, n : Current(t, n)' = Current(t, n)
  BY <1>6 DEF Current
<1>10. OwnersKnown'
  <2> SUFFICES ASSUME NEW v \in Voice, NEW t \in Task, NEW n \in Nat,
                      voices'[v].owner = t, voices'[v].app = n
               PROVE  Current(t, n)' \/ ReleasePending(t, n)' \/ n \in dropped'
    BY DEF OwnersKnown
  <2>1. t # NoTask
    BY VoiceAssumption
  <2>2. ASSUME NEW j \in 2 .. k, Pending[j] = ReleaseOwner(t, n)
        PROVE  ReleasePending(t, n)'
    BY <1>3, <1>4, <2>2 DEF ReleasePending
  <2>3. CASE c.type = "note_on" /\ c.task = t /\ c.app = n
    <3>1. Current(t, n) \/ (\E j \in 1 + 1 .. k : Pending[j] = ReleaseOwner(t, n)) \/ n \in dropped
      BY <1>8, <2>3 DEF NotesOwned, k
    <3> QED  BY <1>6, <1>9, <2>2, <3>1
  <2>4. CASE voices[v].owner = t /\ voices[v].app = n /\ (c.type = "release" => t # c.task)
    <3>1. Current(t, n) \/ ReleasePending(t, n) \/ n \in dropped
      BY <2>4 DEF OwnersKnown
    <3>2. ASSUME ReleasePending(t, n)
          PROVE  \E j \in 2 .. k : Pending[j] = ReleaseOwner(t, n)
      <4>1. PICK j \in 1 .. k : Pending[j] = ReleaseOwner(t, n)
        BY <3>2 DEF ReleasePending, k
      <4>2. j # 1
        BY <1>8, <2>4, <4>1 DEF ReleaseOwner
      <4> QED  BY <1>1, <4>1, <4>2
    <3> QED  BY <1>6, <1>9, <2>2, <3>1, <3>2
  <2> QED  BY <1>7, <2>1, <2>3, <2>4
<1>11. SendersKnown'
  BY <1>6 DEF SendersKnown
<1>12. NotesOwned'
  <2> SUFFICES ASSUME NEW i \in 1 .. k - 1, NEW t \in Task, NEW n \in Nat,
                      Pending'[i].type = "note_on", Pending'[i].task = t, Pending'[i].app = n
               PROVE  \/ Current(t, n)'
                      \/ \E j \in i + 1 .. k - 1 : Pending'[j] = ReleaseOwner(t, n)
                      \/ n \in dropped'
    BY <1>3 DEF NotesOwned
  <2>1. \/ Current(t, n)
        \/ \E j \in (i + 1) + 1 .. k : Pending[j] = ReleaseOwner(t, n)
        \/ n \in dropped
    BY <1>4 DEF NotesOwned, k
  <2>2. ASSUME NEW j \in (i + 1) + 1 .. k, Pending[j] = ReleaseOwner(t, n)
        PROVE  \E m \in i + 1 .. k - 1 : Pending'[m] = ReleaseOwner(t, n)
    <3>1. j \in 2 .. k /\ j - 1 \in i + 1 .. k - 1
      BY <1>1
    <3> QED  BY <1>4, <2>2, <3>1
  <2> QED  BY <1>6, <1>9, <2>1, <2>2
<1>13. AppsPast'
  <2>1. \A t \in Task : app'[t] <= started'
    BY <1>6 DEF AppsPast
  <2>2. ASSUME NEW v \in Voice, voices'[v].owner # NoTask
        PROVE  voices'[v].app <= app'[voices'[v].owner]
    BY <1>6, <1>7, <1>8, <2>2 DEF AppsPast, k
  <2>3. \A i \in 1 .. k - 1 : Pending'[i].type = "note_on" => Pending'[i].app <= app'[Pending'[i].task]
    BY <1>4, <1>6 DEF AppsPast, k
  <2> QED  BY <1>3, <2>1, <2>2, <2>3 DEF AppsPast
<1>14. ReleasesLast'
  <2> SUFFICES ASSUME NEW i \in 1 .. k - 1, Pending'[i].type = "release"
               PROVE  /\ \A v \in Voice : voices'[v].owner = Pending'[i].task
                                            => voices'[v].app <= Pending'[i].app
                      /\ \A j \in 1 .. i - 1 :
                           Pending'[j].type = "note_on" /\ Pending'[j].task = Pending'[i].task
                             => Pending'[j].app <= Pending'[i].app
    BY <1>3 DEF ReleasesLast
  <2>1. i + 1 \in 1 .. k /\ Pending'[i] = Pending[i + 1] /\ Pending[i + 1] \in Command
    BY <1>1, <1>4
  <2>2. /\ \A v \in Voice : voices[v].owner = Pending[i + 1].task
                              => voices[v].app <= Pending[i + 1].app
        /\ \A j \in 1 .. (i + 1) - 1 :
             Pending[j].type = "note_on" /\ Pending[j].task = Pending[i + 1].task
               => Pending[j].app <= Pending[i + 1].app
    BY <2>1 DEF ReleasesLast, k
  <2>3. Pending[i + 1].task \in Task /\ Pending[i + 1].task # NoTask /\ 1 \in 1 .. (i + 1) - 1
    BY <1>1, <2>1, CommandFields, VoiceAssumption
  <2>4. ASSUME NEW v \in Voice, voices'[v].owner = Pending[i + 1].task
        PROVE  voices'[v].app <= Pending[i + 1].app
    BY <1>7, <1>8, <2>2, <2>3, <2>4
  <2>5. ASSUME NEW j \in 1 .. i - 1
        PROVE  Pending'[j] = Pending[j + 1] /\ j + 1 \in 1 .. (i + 1) - 1
    <3>1. j \in 1 .. k - 1 /\ j + 1 \in 1 .. (i + 1) - 1
      BY <1>1
    <3> QED  BY <1>4, <3>1
  <2> QED  BY <2>1, <2>2, <2>4, <2>5
<1> QED  BY <1>10, <1>11, <1>12, <1>13, <1>14

\* What an app sends says who it is.
LEMMA SenderSays ==
  ASSUME NEW t \in Task, NEW n \in App, NEW c \in AppCommand(t, n)
  PROVE  c.type # "release" /\ (c.type = "note_on" => c.task = t /\ c.app = n)
BY DEF AppCommand, NoteOn, NoteOff, TriggerArp, Configure

\* The apps' own steps: a call begun, a life begun or ended.
LEMMA AppsStep ==
  ASSUME RingInv, VoiceInv, NEW t \in Task, AppStep(t)
  PROVE  /\ SendersKnown' /\ dropped \subseteq dropped'
         /\ \A u, n : Current(u, n) => Current(u, n)' \/ n \in dropped'
         /\ \A u \in Task : app[u] <= app'[u] /\ app'[u] <= started'
<1>1. /\ \A u \in Task : app[u] <= started /\ app[u] \in Nat
      /\ started \in Nat /\ crit \in CritState /\ app \in [Task -> 0 .. MaxApps]
      /\ phase \in [Task -> {"none", "run", "exit"}]
  BY VoiceFields DEF VoiceInv, AppsPast, RingInv, TypeOK
<1>2. crit # NoCrit =>
        /\ crit.task \in Task /\ phase[crit.task] # "none"
        /\ crit.cmd.type \in {"note_on", "release"} =>
             crit.cmd.task = crit.task /\ crit.cmd.app = app[crit.task]
  BY <1>1 DEF VoiceInv, SendersKnown, CritState
<1>3. CASE Send(t) \/ Release(t)
  <2>1. phase' = phase /\ app' = app /\ started' = started /\ dropped' = dropped
    BY <1>3 DEF Send, Release, appVars
  <2>2. phase[t] \in {"run", "exit"} /\ app[t] \in App
    BY <1>3 DEF Send, Release, RingInv, HandlesHaveApps
  <2>3. \E c : /\ crit' = [pc |-> "write", task |-> t, cmd |-> c, at |-> tail]
               /\ c.type \in {"note_on", "release"} => c.task = t /\ c.app = app[t]
    <3>1. CASE Send(t)
      <4>1. PICK c \in AppCommand(t, app[t]) : Enter(t, c)
        BY <3>1 DEF Send
      <4> QED  BY <2>2, <4>1, SenderSays DEF Enter
    <3>2. CASE Release(t)
      BY <3>2 DEF Release, Enter, ReleaseOwner
    <3> QED  BY <1>3, <3>1, <3>2
  <2>4. SendersKnown'
    BY <2>1, <2>2, <2>3 DEF SendersKnown
  <2> QED  BY <1>1, <2>1, <2>4 DEF Current
<1>4. CASE Spawn(t)
  <2>1. /\ phase[t] = "none" /\ phase' = [phase EXCEPT ![t] = "run"]
        /\ started' = started + 1 /\ app' = [app EXCEPT ![t] = started']
        /\ crit' = crit /\ dropped' = dropped
    BY <1>4 DEF Spawn, ringVars
  <2>2. /\ app'[t] = started + 1 /\ \A u \in Task : u # t => app'[u] = app[u] /\ phase'[u] = phase[u]
    BY <1>1, <2>1
  <2>3. SendersKnown'
    BY <1>2, <2>1, <2>2 DEF SendersKnown
  <2>4. \A u \in Task : app[u] <= app'[u] /\ app'[u] <= started'
    BY <1>1, <2>1, <2>2
  <2>5. \A u, n : Current(u, n) => Current(u, n)'
    BY <2>1 DEF Current
  <2> QED  BY <2>1, <2>3, <2>4, <2>5
<1>5. CASE BeginExit(t)
  <2>1. /\ phase' = [phase EXCEPT ![t] = "exit"] /\ phase[t] = "run"
        /\ app' = app /\ started' = started /\ crit' = crit /\ dropped' = dropped
    BY <1>5 DEF BeginExit, ringVars
  <2>2. SendersKnown'
    BY <1>1, <1>2, <2>1 DEF SendersKnown
  <2>3. \A u, n : Current(u, n) => Current(u, n)'
    BY <2>1 DEF Current
  <2> QED  BY <1>1, <2>1, <2>2, <2>3
<1>6. CASE GiveUp(t)
  <2>1. /\ crit = NoCrit /\ crit' = crit /\ phase' = [phase EXCEPT ![t] = "none"]
        /\ app' = app /\ started' = started /\ dropped' = dropped \cup {app[t]}
    BY <1>6 DEF GiveUp, ringVars
  <2>2. \A u, n : Current(u, n) => Current(u, n)' \/ n \in dropped'
    BY <1>1, <2>1 DEF Current
  <2> QED  BY <1>1, <2>1, <2>2 DEF SendersKnown
<1> QED  BY <1>3, <1>4, <1>5, <1>6 DEF AppStep

\* The callback's other steps and the copy into the ring change nobody's life.
LEMMA OtherStep ==
  ASSUME RingInv, VoiceInv, WriteSlot \/ Snapshot \/ PublishHead \/ Render \/ UNCHANGED vars
  PROVE  /\ SendersKnown' /\ dropped \subseteq dropped'
         /\ \A u, n : Current(u, n) => Current(u, n)' \/ n \in dropped'
         /\ \A u \in Task : app[u] <= app'[u] /\ app'[u] <= started'
<1>1. phase' = phase /\ app' = app /\ started' = started /\ dropped' = dropped
  BY DEF WriteSlot, Snapshot, PublishHead, Render, vars, appVars
<1>2. /\ crit # NoCrit => crit.task \in Task
      /\ crit' = crit \/ (crit # NoCrit /\ crit'.task = crit.task /\ crit'.cmd = crit.cmd)
  BY DEF WriteSlot, Snapshot, PublishHead, Render, vars, ringVars, NoCrit, RingInv, TypeOK, CritState
<1>3. \A u \in Task : app[u] <= started /\ app[u] \in Nat
  BY VoiceFields DEF VoiceInv, AppsPast
<1> QED  BY <1>1, <1>2, <1>3 DEF VoiceInv, SendersKnown, Current

\* Every step keeps whose voices are whose.
LEMMA VoiceNext == RingInv /\ VoiceInv /\ [Next]_vars => VoiceInv'
<1> SUFFICES ASSUME RingInv, VoiceInv, [Next]_vars PROVE VoiceInv'
  OBVIOUS
<1>1. CASE PublishTail
  BY <1>1, AcceptStep
<1>2. CASE ApplyNext
  BY <1>2, ApplyStep
<1>3. CASE /\ (\E t \in Task : AppStep(t)) \/ WriteSlot \/ Snapshot \/ PublishHead \/ Render
              \/ UNCHANGED vars
           /\ ~PublishTail /\ ~ApplyNext
  <2>1. Pending' = Pending /\ (Render \/ voices' = voices)
    BY <1>3, ServiceStep DEF Service!Render
  <2>2. Waiting' = Waiting
    <3>1. RingInv'
      BY RingNext
    <3>2. (Len(Pending) = Waiting)'
      BY <3>1, LineIs, PTL
    <3> QED  BY <2>1, <3>2, LineIs
  <2>3. \A v \in Voice : voices'[v].owner = voices[v].owner /\ voices'[v].app = voices[v].app
    <3>1. CASE Render
      <4>1. voices \in [Voice -> VoiceState]
        BY DEF RingInv, TypeOK
      <4>2. PICK f \in SUBSET Releasing(voices), s \in SUBSET Arpeggiating(voices) :
              voices' = Rendered(voices, f, s)
        BY <3>1 DEF Render
      <4> QED  BY <4>1, <4>2, ZenonT(40) DEF Rendered, VoiceState
    <3> QED  BY <2>1, <3>1
  <2>4. /\ SendersKnown' /\ dropped \subseteq dropped'
        /\ \A u, n : Current(u, n) => Current(u, n)' \/ n \in dropped'
        /\ \A u \in Task : app[u] <= app'[u] /\ app'[u] <= started'
    BY <1>3, AppsStep, OtherStep
  <2>5. /\ \A v \in Voice : voices[v].owner \in Task \cup {NoTask} /\ voices[v].app \in Nat
        /\ \A t \in Task : app[t] \in Nat
        /\ \A i \in 1 .. Waiting : Pending[i] \in Command
    BY VoiceFields
  <2>6. \A t \in Task : app'[t] \in Nat
    <3>1. RingInv'
      BY RingNext
    <3> QED  BY <3>1 DEF RingInv, TypeOK
  <2> QED  BY <2>1, <2>2, <2>3, <2>4, <2>5, <2>6, LineStays
<1> QED  BY <1>1, <1>2, <1>3 DEF Next, Producer, Audio

\* It holds in every reachable state.
LEMMA VoiceInvariant == Spec => [](RingInv /\ VoiceInv)
<1>1. Init => RingInv /\ VoiceInv
  BY RingInit, VoiceInit
<1>2. RingInv /\ VoiceInv /\ [Next]_vars => (RingInv /\ VoiceInv)'
  BY RingNext, VoiceNext
<1> QED  BY <1>1, <1>2, PTL DEF Spec

\* A voice is its live app's, or will be released, or its app's release was
\* given up: none is orphaned otherwise, however notes and releases of several
\* apps on several handles cross in the ring.
THEOREM NoOtherOrphans == Spec => []OrphanOnlyIfDropped
<1>1. RingInv /\ VoiceInv => OrphanOnlyIfDropped
  <2> SUFFICES ASSUME RingInv, VoiceInv, NEW v \in Voice, voices[v].owner # NoTask
               PROVE  LET t == voices[v].owner
                          n == voices[v].app
                      IN  Current(t, n) \/ ReleasePending(t, n) \/ n \in dropped
    BY DEF OrphanOnlyIfDropped
  <2>1. voices[v].owner \in Task /\ voices[v].app \in Nat
    BY VoiceFields
  <2> QED  BY <2>1 DEF VoiceInv, OwnersKnown
<1> QED  BY <1>1, VoiceInvariant, PTL

\* A release of an app that is gone takes no voice of a later app on the same
\* handle, though the handle is all that apply() compares.
THEOREM ReleasesSpareSuccessors == Spec => ReleaseSparesSuccessor
<1>1. RingInv /\ VoiceInv /\ [Next]_vars =>
        [ apc = "drain" /\ rd' # rd /\ buf[Slot(rd)].type = "release" =>
            \A v \in Voice :
              voices[v].owner = buf[Slot(rd)].task => voices[v].app <= buf[Slot(rd)].app ]_vars
  <2> SUFFICES ASSUME RingInv, VoiceInv, [Next]_vars,
                      apc = "drain", rd' # rd, buf[Slot(rd)].type = "release",
                      NEW v \in Voice, voices[v].owner = buf[Slot(rd)].task
               PROVE  voices[v].app <= buf[Slot(rd)].app
    OBVIOUS
  <2>1. ApplyNext
    BY DEF Next, AppStep, Producer, Audio, Send, Spawn, BeginExit, Release, GiveUp,
           WriteSlot, PublishTail, Snapshot, PublishHead, Render, vars, audioVars
  <2>2. Pending # << >> /\ Head(Pending) = buf[Slot(rd)]
    BY <2>1, LineShrinks
  <2>3. Pending \in Seq(Command) /\ Len(Pending) = Waiting /\ Waiting \in Nat
    BY LineIs
  <2>4. 1 \in 1 .. Waiting /\ Pending[1] = buf[Slot(rd)]
    BY <2>2, <2>3
  <2> QED  BY <2>4 DEF VoiceInv, ReleasesLast
<1> QED  BY <1>1, VoiceInvariant, PTL DEF Spec, ReleaseSparesSuccessor
=============================================================================
