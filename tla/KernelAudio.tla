---------------------------- MODULE KernelAudio ----------------------------
(***************************************************************************)
(* v2/core/kernel/kernel_audio.c: the audio command ring.  App tasks put   *)
(* commands in, serialized among themselves by a FreeRTOS critical         *)
(* section; the audio thread, which FreeRTOS does not know, takes them out *)
(* with nothing but two atomic counters between the two sides.  An app     *)
(* that exits releases its voices (vm_host_task's cleanup) with a bounded  *)
(* number of retries.                                                      *)
(*                                                                         *)
(* A step is one access to the shared counters or the ring.  The counters  *)
(* are unsigned and wrap at Mod (2^32 in the code).                        *)
(***************************************************************************)
EXTENDS Integers, Sequences, FiniteSets, SynthVoices

CONSTANTS
  LEN,       \* KERNEL_AUDIO_QUEUE_LEN (16)
  Mod,       \* the counters' modulus (2^32)
  MinDrains, \* drains that complete, at least, while release_owner retries
  NoCmd      \* the content of a slot never written

ASSUME RingAssumption ==
  /\ LEN \in Nat \ {0} /\ Mod \in Nat /\ LEN < Mod
  /\ Mod % LEN = 0     \* the mask and the wrap agree
  /\ MinDrains \in Nat
  /\ NoCmd \notin Command

VARIABLES
  buf,     \* g_audio_cmd_buf
  head,    \* g_audio_cmd_head
  tail,    \* g_audio_cmd_tail
  crit,    \* the producer inside the critical section: [task, cmd, at, pc]
  phase,   \* each handle's app: "none" (no task), "run", "exit"
  app,     \* history: each handle's app (or its last one), in starting order
  started, \* history: how many apps were started
  drained, \* drains completed since the app began release_owner's retries
  dropped, \* history: the apps whose release was given up
  apc,     \* the audio callback: "idle", "drain", "render"
  rd,      \* its local head
  stop,    \* its local tail
  voices,  \* synth_voices and g_voice_owner
  mask     \* g_active_voice_mask

ringVars  == <<buf, head, tail, crit>>
appVars   == <<phase, app, started, drained, dropped>>
audioVars == <<apc, rd, stop, voices, mask>>
vars      == <<ringVars, appVars, audioVars>>

Counter == 0 .. Mod - 1
Slots   == 0 .. LEN - 1

NoCrit == [pc |-> "free"]
CritState == {NoCrit} \cup
  [pc : {"write", "publish"}, task : Task, cmd : Command, at : Counter]

----------------------------------------------------------------------------
\* (mutant) a counter that does not wrap
SuccNoWrap(a) == a + 1

\* Unsigned arithmetic on the counters, and the mask into the ring.
Succ(a)        == IF a = Mod - 1 THEN 0 ELSE a + 1
Distance(a, b) == IF b <= a THEN a - b ELSE a - b + Mod
Slot(a)        == a % LEN

\* (mutant) one command too many is let in
FullOffByOne == Distance(tail, head) > LEN

\* (mutant) the counters compared without their wrap
FullNoWrap == tail - head >= LEN

\* No room: try_enqueue's test failed.
Full == ~(Distance(tail, head) < LEN)

Init ==
  /\ buf = [i \in Slots |-> NoCmd]
  /\ head = 0 /\ tail = 0
  /\ crit = NoCrit
  /\ phase = [t \in Task |-> "none"]
  /\ app = [t \in Task |-> 0] /\ started = 0
  /\ drained = [t \in Task |-> 0]
  /\ dropped = {}
  /\ apc = "idle" /\ rd = 0 /\ stop = 0
  /\ voices = [v \in Voice |-> Silent]
  /\ mask = {}

----------------------------------------------------------------------------
(* Producers: try_enqueue, in three accesses.                              *)

\* taskENTER_CRITICAL and the capacity test; a full ring refuses.
Enter(t, c) ==
  /\ crit = NoCrit
  /\ ~Full
  /\ crit' = [pc |-> "write", task |-> t, cmd |-> c, at |-> tail]
  /\ UNCHANGED <<buf, head, tail>>

\* kernel_audio_enqueue_*: a command on a full ring is dropped, which
\* changes nothing.
Send(t) ==
  /\ phase[t] = "run"
  /\ \E c \in AppCommand(t, app[t]) : Enter(t, c)
  /\ UNCHANGED <<appVars, audioVars>>

\* The copy into the ring, then the release store of tail and
\* taskEXIT_CRITICAL.  An app whose release is in leaves release_owner, and
\* its task is deleted.
WriteSlot ==
  /\ crit.pc = "write"
  /\ buf' = [buf EXCEPT ![Slot(crit.at)] = crit.cmd]
  /\ crit' = [crit EXCEPT !.pc = "publish"]
  /\ UNCHANGED <<head, tail, appVars, audioVars>>

PublishTail ==
  /\ crit.pc = "publish"
  /\ tail' = Succ(crit.at)
  /\ crit' = NoCrit
  /\ phase' = [phase EXCEPT ![crit.task] =
                 IF crit.cmd.type = "release" THEN "none" ELSE @]
  /\ UNCHANGED <<buf, head, app, started, drained, dropped, audioVars>>

(* Apps: spawn, and vm_host_task's cleanup calling release_owner.          *)

\* A new app's task; it may get the handle of one that is gone.
Spawn(t) ==
  /\ phase[t] = "none" /\ started < MaxApps
  /\ phase' = [phase EXCEPT ![t] = "run"]
  /\ started' = started + 1
  /\ app' = [app EXCEPT ![t] = started']
  /\ UNCHANGED <<ringVars, drained, dropped, audioVars>>

\* (mutant) a cleanup that does not call release_owner
ExitWithoutRelease(t) ==
  /\ phase[t] = "run"
  /\ crit # NoCrit => crit.task # t
  /\ phase' = [phase EXCEPT ![t] = "none"]
  /\ UNCHANGED <<ringVars, app, started, drained, dropped, audioVars>>

\* The script has ended; its task reaches release_owner.
BeginExit(t) ==
  /\ phase[t] = "run"
  /\ crit # NoCrit => crit.task # t
  /\ phase' = [phase EXCEPT ![t] = "exit"]
  /\ drained' = [drained EXCEPT ![t] = 0]
  /\ UNCHANGED <<ringVars, app, started, dropped, audioVars>>

\* (mutant) releases that were given up are sent again, later
ReleaseLater(t) ==
  /\ crit = NoCrit
  /\ \/ phase[t] = "exit" /\ Enter(t, ReleaseOwner(t, app[t]))
     \/ \E n \in dropped : Enter(t, ReleaseOwner(t, n))
  /\ UNCHANGED <<appVars, audioVars>>

\* release_owner: an attempt that finds room.
Release(t) ==
  /\ phase[t] = "exit"
  /\ Enter(t, ReleaseOwner(t, app[t]))
  /\ UNCHANGED <<appVars, audioVars>>

\* A full ring is retried after a tick (which changes nothing here) until
\* 50 ms have passed; the audio thread completes MinDrains drains, at
\* least, in that time.
GiveUp(t) ==
  /\ phase[t] = "exit"
  /\ crit = NoCrit
  /\ Full
  /\ drained[t] >= MinDrains
  /\ phase' = [phase EXCEPT ![t] = "none"]
  /\ dropped' = dropped \cup {app[t]}
  /\ UNCHANGED <<ringVars, app, started, drained, audioVars>>

----------------------------------------------------------------------------
(* The audio thread: kernel_audio_drain_and_render.                        *)

\* The callback copies both counters; what comes later waits for the next one.
Snapshot ==
  /\ apc = "idle"
  /\ rd' = head
  /\ stop' = tail
  /\ apc' = "drain"
  /\ UNCHANGED <<ringVars, appVars, voices, mask>>

ApplyNext ==
  /\ apc = "drain" /\ rd # stop
  /\ voices' = Applied(voices, buf[Slot(rd)])
  /\ rd' = Succ(rd)
  /\ UNCHANGED <<ringVars, appVars, apc, stop, mask>>

\* (mutant) head set to the live tail, not to the snapshot
PublishHeadAtTail ==
  /\ apc = "drain" /\ rd = stop
  /\ head' = tail
  /\ apc' = "render"
  /\ UNCHANGED <<buf, tail, crit, appVars, rd, stop, voices, mask>>

\* head is stored once, after the last command of the snapshot.
PublishHead ==
  /\ apc = "drain" /\ rd = stop
  /\ head' = rd
  /\ apc' = "render"
  /\ drained' = [t \in Task |->
                   IF phase[t] = "exit" /\ drained[t] < MinDrains
                     THEN drained[t] + 1 ELSE drained[t]]
  /\ UNCHANGED <<buf, tail, crit, phase, app, started, dropped, rd, stop, voices, mask>>

\* (mutant) the mask taken before the buffer is rendered
RenderMaskFirst ==
  /\ apc = "render"
  /\ mask' = Sounding(voices)
  /\ \E f \in SUBSET Releasing(voices), s \in SUBSET Arpeggiating(voices) :
       voices' = Rendered(voices, f, s)
  /\ apc' = "idle"
  /\ UNCHANGED <<ringVars, appVars, rd, stop>>

\* synth_render_half, then the mask of the voices still sounding.
Render ==
  /\ apc = "render"
  /\ \E f \in SUBSET Releasing(voices), s \in SUBSET Arpeggiating(voices) :
       voices' = Rendered(voices, f, s)
  /\ mask' = Sounding(voices')
  /\ apc' = "idle"
  /\ UNCHANGED <<ringVars, appVars, rd, stop>>

----------------------------------------------------------------------------
AppStep(t) == Send(t) \/ Spawn(t) \/ BeginExit(t) \/ Release(t) \/ GiveUp(t)
Producer   == WriteSlot \/ PublishTail
Audio      == Snapshot \/ ApplyNext \/ PublishHead \/ Render

Next == (\E t \in Task : AppStep(t)) \/ Producer \/ Audio

\* The sound card calls the audio callback for ever.
Fairness == WF_vars(Audio)

Spec == Init /\ [][Next]_vars /\ Fairness

----------------------------------------------------------------------------
(* The commands accepted and not yet applied, and who they are for.        *)

\* Where the audio thread will read next.
ReadFrom == IF apc = "drain" THEN rd ELSE head

Waiting == Distance(tail, ReadFrom)

Pending == [i \in 1 .. Waiting |-> buf[Slot((ReadFrom + i - 1) % Mod)]]

\* The slots of the commands the audio thread has not acknowledged.
Unread == {c \in Counter : Distance(c, head) < Distance(tail, head)}

ReleasePending(t, n) == \E i \in 1 .. Waiting : Pending[i] = ReleaseOwner(t, n)
Current(t, n)        == app[t] = n /\ phase[t] # "none"

----------------------------------------------------------------------------
(* Properties.                                                             *)

TypeOK ==
  /\ buf \in [Slots -> Command \cup {NoCmd}]
  /\ head \in Counter /\ tail \in Counter
  /\ crit \in CritState
  /\ phase \in [Task -> {"none", "run", "exit"}]
  /\ app \in [Task -> 0 .. MaxApps] /\ started \in 0 .. MaxApps
  /\ drained \in [Task -> 0 .. MinDrains]
  /\ dropped \subseteq App
  /\ apc \in {"idle", "drain", "render"}
  /\ rd \in Counter /\ stop \in Counter
  /\ voices \in [Voice -> VoiceState]
  /\ mask \subseteq Voice

\* The ring never holds more than LEN commands, the audio thread stays
\* between head and tail, and every command it has still to read is one a
\* producer has written there: across the wrap of the counters, with
\* producers writing while the callback drains (try_enqueue, drain_and_render).
RingConsistent ==
  /\ Distance(tail, head) <= LEN
  /\ apc = "drain" => /\ Distance(rd, head) <= Distance(stop, head)
                      /\ Distance(stop, head) <= Distance(tail, head)
  /\ crit # NoCrit => crit.at = tail /\ Distance(tail, head) < LEN
  /\ crit.pc = "publish" => buf[Slot(tail)] = crit.cmd
  /\ \A c \in Unread : buf[Slot(c)] \in Command

\* A producer never writes the slot of a command the audio thread has not
\* acknowledged, even one it is copying at that moment.
NoOverwrite == [][\A c \in Unread : buf'[Slot(c)] = buf[Slot(c)]]_vars

\* Accepted commands are applied exactly once and in order: the ring
\* implements the service of kernel_audio.h.
Service == INSTANCE AudioService WITH pending <- Pending, Capacity <- LEN
ServiceSpec == Service!Spec

\* A voice that is held down has an owner, so that some RELEASE_OWNER will
\* gate it off: apply() never leaves a sounding note to nobody.
HeldVoiceHasOwner ==
  \A v \in Voice : voices[v].stage = "on" => voices[v].owner # NoTask

\* A voice belongs to an app that is alive, or one whose release is on its
\* way, or one whose release was given up: no other voice is orphaned
\* (release_owner's contract, with the handle reused by a later app).
OrphanOnlyIfDropped ==
  \A v \in Voice : voices[v].owner # NoTask =>
    LET t == voices[v].owner
        n == voices[v].app
    IN  Current(t, n) \/ ReleasePending(t, n) \/ n \in dropped

\* A release takes no voice of a later app that got the same task handle:
\* the handle is all that RELEASE_OWNER compares, and the order of the ring
\* keeps the two apps apart.
ReleaseSparesSuccessor ==
  [][ apc = "drain" /\ rd' # rd /\ buf[Slot(rd)].type = "release" =>
        \A v \in Voice :
          voices[v].owner = buf[Slot(rd)].task => voices[v].app <= buf[Slot(rd)].app
    ]_vars

\* Between two callbacks the mask that acid_active_voices reads is exactly
\* the set of the voices that sound.
MaskFresh == apc = "idle" => mask = Sounding(voices)

\* An accepted release takes effect: the app that is gone comes to own no
\* voice, however busy the other apps keep the ring.
ReleaseTakesEffect ==
  \A n \in App : (\E t \in Task : ReleasePending(t, n))
                     ~> ~ \E v \in Voice : voices[v].app = n

\* kernel_audio.h: "this command is delivery-guaranteed (bounded blocking
\* retry)" - no app's release is ever lost.
ReleaseDelivered == dropped = {}

\* kernel_audio_command.h of the arpeggio: "it never keeps stepping a
\* silent, gated-off voice" - gating a voice off stops its arpeggio.
GateOffStopsArp ==
  [][\A v \in Voice : voices[v].stage = "on" /\ voices'[v].stage = "release"
                        => ~voices'[v].arp]_vars
=============================================================================
