---------------------------- MODULE SynthVoices ----------------------------
(***************************************************************************)
(* The synthesizer's voice table and what one audio command does to it:    *)
(* kernel_audio.c's apply() over the setters of audio/synth.c.  Pure       *)
(* operators, shared by the ring that carries the commands (KernelAudio)   *)
(* and by the service it implements (AudioService).                        *)
(*                                                                         *)
(* A voice keeps what apply() and the envelope make of it:                 *)
(*   owner  the task recorded by the last NOTE_ON (NoTask: NULL)           *)
(*   app    which app that was (a history field: the code has only the     *)
(*          handle, and FreeRTOS may give a handle to a later app)         *)
(*   stage  the envelope: "off", "on" (attack, decay, sustain), "release"  *)
(*   pitch  where phase_increment came from: "none" is 0                   *)
(*   arp    arp_active                                                     *)
(***************************************************************************)
EXTENDS Naturals

CONSTANTS
  Task,      \* FreeRTOS task handles of apps
  NoTask,    \* the NULL handle
  Voice,     \* 0 .. SYNTH_NUM_VOICES - 1
  MaxApps,   \* bound: how many apps are ever started
  Valid,     \* bound: the outcomes of argument checks that are tried
  Kinds      \* bound: the types of command the apps send

ASSUME VoiceAssumption == NoTask \notin Task /\ MaxApps \in Nat /\ Valid \subseteq BOOLEAN

App == 1 .. MaxApps

VoiceState == [ owner : Task \cup {NoTask}, app : 0 .. MaxApps,
                stage : {"off", "on", "release"},
                pitch : {"none", "ona", "arp"}, arp : BOOLEAN ]

\* synth_init and kernel_audio_init: silent, unpitched, owned by nobody.
Silent == [ owner |-> NoTask, app |-> 0, stage |-> "off",
            pitch |-> "none", arp |-> FALSE ]

(***************************************************************************)
(* Commands.  A NOTE_ON's ona is in 1..88 or is ignored (validOna); the    *)
(* configure commands change only how a voice sounds and stand together.   *)
(***************************************************************************)
NoteOn(t, n, v, validOna) ==
  [type |-> "note_on", task |-> t, app |-> n, voice |-> v, ok |-> validOna]
NoteOff(v)         == [type |-> "note_off", voice |-> v]
\* arp_count is in 2..SYNTH_ARP_NOTES, or synth_arp_on ignores it (validCount).
TriggerArp(v, validCount) == [type |-> "arp", voice |-> v, ok |-> validCount]
ReleaseOwner(t, n) == [type |-> "release", task |-> t, app |-> n]
Configure          == [type |-> "configure"]

AppCommand(t, n) ==
  { c \in { NoteOn(t, n, v, b) : v \in Voice, b \in Valid } \cup
         { NoteOff(v) : v \in Voice } \cup
         { TriggerArp(v, b) : v \in Voice, b \in Valid } \cup { Configure } :
      c.type \in Kinds }

Command == (UNION { AppCommand(t, n) : t \in Task, n \in App }) \cup
           { ReleaseOwner(t, n) : t \in Task, n \in App }

----------------------------------------------------------------------------
\* synth_gate_on: an arpeggiating voice takes its pitch from the pattern;
\* a voice with no pitch at all stays as it is.
GateOn(vs) ==
  LET p == IF vs.arp THEN "arp" ELSE vs.pitch
  IN  [vs EXCEPT !.pitch = p, !.stage = IF p = "none" THEN @ ELSE "on"]

\* synth_gate_off
GateOff(vs) == [vs EXCEPT !.stage = IF @ = "off" THEN @ ELSE "release"]

\* (mutant) a NOTE_ON that does not record its owner
AfterNoteOnNoOwner(vs, c) == GateOn([vs EXCEPT !.pitch = IF c.ok THEN "ona" ELSE @])

\* apply(), NOTE_ON: set the pitch, gate on, then record the new owner.
AfterNoteOn(vs, c) ==
  [GateOn([vs EXCEPT !.pitch = IF c.ok THEN "ona" ELSE @])
     EXCEPT !.owner = c.task, !.app = c.app]

\* apply(), NOTE_OFF: gated off whoever asks, the arpeggio stopped.
AfterNoteOff(vs) ==
  [GateOff(vs) EXCEPT !.arp = FALSE, !.owner = NoTask, !.app = 0]

\* (mutant) a RELEASE_OWNER that gates off and keeps the owner
AfterReleaseKeepsOwner(vs, c) == IF vs.owner = c.task THEN GateOff(vs) ELSE vs

\* apply(), RELEASE_OWNER on one voice: arp_active is left as it is.
AfterRelease(vs, c) ==
  IF vs.owner = c.task
    THEN [GateOff(vs) EXCEPT !.owner = NoTask, !.app = 0]
    ELSE vs

\* apply(): the voice table after command c.
Applied(vt, c) ==
  CASE c.type = "note_on"  -> [vt EXCEPT ![c.voice] = AfterNoteOn(@, c)]
    [] c.type = "note_off" -> [vt EXCEPT ![c.voice] = AfterNoteOff(@)]
    [] c.type = "arp"      -> [vt EXCEPT ![c.voice].arp = @ \/ c.ok]
    [] c.type = "release"  -> [v \in Voice |-> AfterRelease(vt[v], c)]
    [] OTHER               -> vt

\* synth_render_half over one buffer: a releasing voice may reach silence,
\* an arpeggiating one may step to a note of its pattern.
Rendered(vt, finished, stepped) ==
  [v \in Voice |->
     [vt[v] EXCEPT !.stage = IF v \in finished THEN "off" ELSE @,
                   !.pitch = IF v \in stepped THEN "arp" ELSE @]]

Releasing(vt) == {v \in Voice : vt[v].stage = "release"}
Arpeggiating(vt) == {v \in Voice : vt[v].arp}
Sounding(vt) == {v \in Voice : vt[v].stage # "off"}
============================================================================
