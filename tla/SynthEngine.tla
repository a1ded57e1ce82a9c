----------------------------- MODULE SynthEngine -----------------------------
(***************************************************************************)
(* v1: the synthesizer (audio/synth.c), the Forth words and the system     *)
(* calls that command it, sample by sample.                                *)
(*                                                                         *)
(* Kept: every setter's range check or clamp, the envelope's arithmetic,   *)
(* the arpeggio's counters, the shared filter's fixed-point recursion and  *)
(* its silence history.  Left out: what is heard of it - waveform, duty,   *)
(* oscillator, filter mode and the output's clipping - so a sounding voice *)
(* gives the mixer some value of Inputs.  v2's synth.c is the same but for *)
(* synth_arp_off.                                                          *)
(***************************************************************************)
EXTENDS Integers, Sequences

CONSTANTS
  NumVoices, ArpNotes,       \* SYNTH_NUM_VOICES, SYNTH_ARP_NOTES
  EnvFull, EnvUnit,          \* SYNTH_ENV_FULL, its 256 sub-units (Q8)
  SampleRate, MaxMs, MaxArpMs,  \* SYNTH_SAMPLE_RATE, the clamps of durations
  NumPitches,                \* 88
  FilterShift, FilterMax,    \* 14, SYNTH_FILTER_STATE_MAX
  History,                   \* SYNTH_FILTER_SILENCE_HISTORY_LEN
  FCoeff, QCoeff,            \* synth_filter_f_coeff, synth_filter_q_coeff
  Durations, Levels,         \* bounds: milliseconds and percentages asked for
  Inputs,                    \* bound: what a sounding voice gives the filter
  MaxCommands,               \* bound: commands given
  RestSamples                \* silent samples in which the filter comes to rest

ASSUME SynthAssumption ==
  /\ {NumVoices, ArpNotes, EnvFull, EnvUnit, SampleRate, NumPitches, History} \subseteq Nat \ {0}
  /\ {FilterShift, FilterMax, MaxCommands, RestSamples, MaxMs, MaxArpMs} \subseteq Nat
  /\ Durations \cup Levels \subseteq Int   \* they are arguments of type int

VARIABLES
  voices,   \* synth_voices
  current,  \* synth_current_voice
  filter,   \* synth_filter: [lp, bp]
  cutoff, res,  \* synth_filter_cutoff_index, synth_filter_res_index
  past,     \* synth_filter_silence_hist_lp/bp, as << [lp, bp], ... >>
  seen,     \* synth_filter_silence_hist_count
  quiet,    \* silent samples since an input or a new coefficient (history)
  commands  \* commands given
synthVars == << voices, current, filter, cutoff, res, past, seen, quiet, commands >>

Voices == 0 .. NumVoices - 1
Loudest == EnvFull * EnvUnit

SynthInit ==
  /\ voices = [v \in Voices |->
       [stage |-> "off", level |-> 0, attack |-> Loudest, decay |-> Loudest,
        sustain |-> Loudest, release |-> Loudest, pitch |-> 0, partner |-> -1,
        route |-> FALSE, notes |-> [n \in 0 .. ArpNotes - 1 |-> 1], count |-> 0,
        active |-> FALSE, step |-> 0, rate |-> 1, counter |-> 0]]
  /\ current = 0 /\ cutoff = Len(FCoeff) \div 2 /\ res = 0
  /\ filter = [lp |-> 0, bp |-> 0]
  /\ past = [i \in 1 .. History |-> filter] /\ seen = 0
  /\ quiet = 0 /\ commands = 0

Clamp(n, lo, hi) == IF n < lo THEN lo ELSE IF n > hi THEN hi ELSE n
AtLeastOne(n) == IF n < 1 THEN 1 ELSE n

\* (mutant) a long stage's rate rounds down to nothing
RateNoFloor(ms) ==
  LET samples == (Clamp(ms, 0, MaxMs) * SampleRate) \div 1000
  IN  IF samples = 0 THEN Loudest ELSE Loudest \div samples

\* synth_calc_rate
Rate(ms) ==
  LET samples == (Clamp(ms, 0, MaxMs) * SampleRate) \div 1000
  IN  IF samples = 0 THEN Loudest ELSE AtLeastOne(Loudest \div samples)

\* synth_calc_arp_step_samples
StepSamples(ms) == AtLeastOne((Clamp(ms, 0, MaxArpMs) * SampleRate) \div 1000)

----------------------------------------------------------------------------
\* A setter: ignored for no voice, or for an argument that means nothing.
Command(newVoices) ==
  /\ commands < MaxCommands /\ commands' = commands + 1
  /\ voices' = newVoices
  /\ UNCHANGED << current, filter, cutoff, res, past, seen, quiet >>
Set(v, ok, new) ==
  Command(IF v \in Voices /\ ok THEN [voices EXCEPT ![v] = new] ELSE voices)

SetOna(v, ona) == Set(v, ona \in 1 .. NumPitches, [voices[v] EXCEPT !.pitch = ona])

SetAdsr(v, a, d, s, r) ==
  Set(v, TRUE, [voices[v] EXCEPT
    !.attack = Rate(a), !.decay = Rate(d), !.release = Rate(r),
    !.sustain = ((Clamp(s, 0, 100) * EnvFull) \div 100) * EnvUnit])

SetPartner(v, p) == Set(v, p \in Voices, [voices[v] EXCEPT !.partner = p])
ClearPartner(v) == Set(v, TRUE, [voices[v] EXCEPT !.partner = -1])
SetRoute(v, routed) == Set(v, TRUE, [voices[v] EXCEPT !.route = routed])

SetArpNote(v, slot, note) ==
  Set(v, slot \in 0 .. ArpNotes - 1 /\ note \in 1 .. NumPitches,
      [voices[v] EXCEPT !.notes = [voices[v].notes EXCEPT ![slot] = note]])
ArpOn(v, count) ==
  Set(v, count \in 2 .. ArpNotes, [voices[v] EXCEPT !.count = count, !.active = TRUE])
ArpOff(v) == Set(v, TRUE, [voices[v] EXCEPT !.active = FALSE])
SetArpRate(v, ms) == Set(v, TRUE, [voices[v] EXCEPT !.rate = StepSamples(ms)])

\* synth_gate_on: an arpeggio restarts and gives the pitch; a voice without
\* pitch stays silent.
Gated(vc) ==
  LET p == IF vc.active THEN [vc EXCEPT !.step = 0, !.counter = 0, !.pitch = vc.notes[0]]
                        ELSE vc
  IN  IF p.pitch = 0 THEN p ELSE [p EXCEPT !.level = 0, !.stage = "attack"]
GateOn(v) == Set(v, TRUE, Gated(voices[v]))
GateOff(v) == Set(v, voices[v].stage # "off", [voices[v] EXCEPT !.stage = "release"])

SetFilter(c, r) ==
  /\ commands < MaxCommands /\ commands' = commands + 1
  /\ cutoff' = Clamp(c, 0, Len(FCoeff) - 1) /\ res' = Clamp(r, 0, Len(QCoeff) - 1)
  /\ quiet' = 0
  /\ UNCHANGED << voices, current, filter, past, seen >>

\* VOICE, forth_hook_synth_voice
SelectVoice(v) ==
  /\ commands < MaxCommands /\ commands' = commands + 1
  /\ current' = v
  /\ UNCHANGED << voices, filter, cutoff, res, past, seen, quiet >>

\* syscall_dispatch_audio: any voice a program names.
SynthCall(v) ==
  \/ \E n \in 0 .. NumPitches + 1 : SetOna(v, n)
  \/ \E a, r \in Durations, s \in Levels : SetAdsr(v, a, a, s, r)
  \/ GateOn(v) \/ GateOff(v)

\* The forth_hook_synth_... words, on the voice VOICE selected.
SynthWord ==
  \/ SynthCall(current) \/ \E v \in Voices : SelectVoice(v) \/ SetPartner(current, v)
  \/ ClearPartner(current) \/ ArpOff(current)
  \/ \E routed \in BOOLEAN : SetRoute(current, routed)
  \/ \E slot \in 0 .. ArpNotes - 1, n \in 1 .. NumPitches : SetArpNote(current, slot, n)
  \/ \E count \in 2 .. ArpNotes : ArpOn(current, count)
  \/ \E ms \in Durations : SetArpRate(current, ms)
  \/ \E c \in 0 .. Len(FCoeff), r \in 0 .. Len(QCoeff) : SetFilter(c, r)

----------------------------------------------------------------------------
\* synth_envelope_advance_sample
Enveloped(vc) ==
  LET up == vc.level + vc.attack
      down == vc.level - vc.decay
  IN
  CASE vc.stage = "off" -> [vc EXCEPT !.level = 0]
    [] vc.stage = "attack" -> IF up >= Loudest THEN [vc EXCEPT !.level = Loudest, !.stage = "decay"]
                              ELSE [vc EXCEPT !.level = up]
    [] vc.stage = "decay" -> IF vc.level <= vc.sustain THEN [vc EXCEPT !.stage = "sustain"]
                             ELSE IF down <= vc.sustain
                               THEN [vc EXCEPT !.level = vc.sustain, !.stage = "sustain"]
                             ELSE [vc EXCEPT !.level = down]
    [] vc.stage = "sustain" -> [vc EXCEPT !.level = vc.sustain]
    [] vc.stage = "release" -> IF vc.level > vc.release THEN [vc EXCEPT !.level = @ - vc.release]
                               ELSE [vc EXCEPT !.level = 0, !.stage = "off"]

\* The arpeggio's step, at the end of a voice's share of synth_render_half.
Arpeggiated(vc) ==
  IF ~vc.active THEN vc
  ELSE IF vc.counter + 1 < vc.rate THEN [vc EXCEPT !.counter = @ + 1]
  ELSE LET next == (vc.step + 1) % vc.count
       IN  [vc EXCEPT !.counter = 0, !.step = next, !.pitch = vc.notes[next]]

\* (mutant) the recursion alone
SilencedNever(new) == new

Capped(st) == [lp |-> Clamp(st.lp, -FilterMax, FilterMax),
               bp |-> Clamp(st.bp, -FilterMax, FilterMax)]

\* A state that repeats within a silence is a cycle and is cut to rest.
Repeats(new) == \E i \in 1 .. (IF seen < History THEN seen ELSE History) : past[i] = new
Silenced(new) == IF Repeats(new) THEN [lp |-> 0, bp |-> 0] ELSE new

\* synth_filter_process_sample; \div is the code's arithmetic shift right.
Filter(input) ==
  LET scale == 2^FilterShift
      hp == input - filter.lp - (QCoeff[res + 1] * filter.bp) \div scale
      bp == filter.bp + (FCoeff[cutoff + 1] * hp) \div scale
      new == [lp |-> filter.lp + (FCoeff[cutoff + 1] * bp) \div scale, bp |-> bp]
  IN
  /\ filter' = Capped(IF input = 0 THEN Silenced(new) ELSE new)
  /\ IF input # 0 \/ Repeats(new) THEN seen' = 0 /\ UNCHANGED past
     ELSE /\ seen' = seen + 1
          /\ past' = [past EXCEPT ![(seen % History) + 1] = new]
  /\ quiet' = IF input # 0 THEN 0 ELSE IF quiet > RestSamples THEN quiet ELSE quiet + 1

\* synth_render_half, one sample.
RenderSample ==
  /\ voices' = [v \in Voices |-> Arpeggiated(Enveloped(voices[v]))]
  /\ \E input \in IF \E v \in Voices : voices'[v].route /\ voices'[v].level >= EnvUnit
                  THEN Inputs ELSE {0} : Filter(input)
  /\ UNCHANGED << current, cutoff, res, commands >>

SynthNext ==
  \/ SynthWord \/ RenderSample
  \/ \E v \in -1 .. NumVoices : SynthCall(v)

----------------------------------------------------------------------------
(***************************************************************************)
(* A voice in attack, decay or release leaves the stage or moves its level *)
(* with every sample, however long a stage was asked for and however the   *)
(* rates change under it, and a released voice never gets louder           *)
(* (synth_calc_rate: a rate that rounds down to 0 never finishes).         *)
(***************************************************************************)
EnvelopeMoves ==
  [][commands' = commands => \A v \in Voices :
       /\ voices[v].stage \in {"attack", "decay", "release"} =>
            << voices[v].stage, voices[v].level >> # << voices'[v].stage, voices'[v].level >>
       /\ voices[v].stage = "release" => voices'[v].level <= voices[v].level]_synthVars

(***************************************************************************)
(* The filter comes to rest within RestSamples of the last input: no limit *)
(* cycle of the truncated recursion hums on (FIXPOINT_LIMIT_CYCLE_FIX).    *)
(***************************************************************************)
FilterRests == quiet > RestSamples => filter = [lp |-> 0, bp |-> 0]
=============================================================================
