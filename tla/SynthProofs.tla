----------------------------- MODULE SynthProofs -----------------------------
(***************************************************************************)
(* Proofs about the v1 synthesizer's voices, for every number of voices,   *)
(* sample rate, length of arpeggio and resolution of the envelope, and for *)
(* every duration and level asked for.                                     *)
(***************************************************************************)
EXTENDS SynthEngine, TLAPS

SynthSpec == SynthInit /\ [][SynthNext]_synthVars

----------------------------------------------------------------------------
(* What a voice is.                                                        *)

Stages == { "off", "attack", "decay", "sustain", "release" }
Moving == { "attack", "decay", "release" }
Slots  == 0 .. ArpNotes - 1

\* Its level and rates, its pitch, and its arpeggio's notes and counters.
VoiceState ==
  [ stage : Stages, level : Nat, attack : Nat \ {0}, decay : Nat \ {0}, sustain : Nat,
    release : Nat \ {0}, pitch : 0 .. NumPitches, partner : Voices \cup {-1}, route : BOOLEAN,
    notes : [Slots -> 1 .. NumPitches], count : 0 .. ArpNotes, active : BOOLEAN,
    step : Slots, rate : Nat \ {0}, counter : Nat ]

\* An arpeggio that plays has at least two notes, all of them in their places.
Sound(vc) == vc \in VoiceState /\ (vc.active => vc.count >= 2)

SynthInv ==
  /\ voices \in [Voices -> VoiceState] /\ \A v \in Voices : Sound(voices[v])
  /\ current \in Voices /\ commands \in Nat

\* The parameters are numbers.
LEMMA SynthConstants ==
  /\ NumVoices \in Nat \ {0} /\ ArpNotes \in Nat \ {0} /\ NumPitches \in Nat \ {0}
  /\ EnvFull \in Nat \ {0} /\ EnvUnit \in Nat \ {0} /\ SampleRate \in Nat \ {0}
  /\ MaxMs \in Nat /\ MaxArpMs \in Nat /\ Loudest \in Nat \ {0}
  /\ \A d \in Durations \cup Levels : d \in Int
<1>1. EnvFull \in Nat \ {0} /\ EnvUnit \in Nat \ {0}
  BY SynthAssumption
<1>2. \A a, b \in Nat \ {0} : a * b \in Nat \ {0}
  OBVIOUS
<1> QED  BY <1>1, <1>2, SynthAssumption DEF Loudest

\* The rate of a stage is at least one unit a sample: no stage lasts for ever.
LEMMA RateIs ==
  ASSUME NEW ms \in Int
  PROVE  Rate(ms) \in Nat \ {0}
<1>1. PICK c \in Nat : c = Clamp(ms, 0, MaxMs)
  <2>1. Clamp(ms, 0, MaxMs) \in Nat
    BY SynthConstants DEF Clamp
  <2> QED  BY <2>1
<1>2. PICK q \in Nat : q = c * SampleRate
  BY SynthConstants
<1>3. PICK samples \in Nat : samples = q \div 1000
  OBVIOUS
<1>4. Rate(ms) = IF samples = 0 THEN Loudest ELSE AtLeastOne(Loudest \div samples)
  BY <1>1, <1>2, <1>3 DEF Rate
<1>5. samples # 0 => AtLeastOne(Loudest \div samples) \in Nat \ {0}
  <2>1. samples # 0 => Loudest \div samples \in Int
    BY SynthConstants
  <2> QED  BY <2>1 DEF AtLeastOne
<1> QED  BY <1>4, <1>5, SynthConstants

\* So is the time between the notes of an arpeggio.
LEMMA StepSamplesIs ==
  ASSUME NEW ms \in Int
  PROVE  StepSamples(ms) \in Nat \ {0}
<1>1. PICK c \in Nat : c = Clamp(ms, 0, MaxArpMs)
  <2>1. Clamp(ms, 0, MaxArpMs) \in Nat
    BY SynthConstants DEF Clamp
  <2> QED  BY <2>1
<1>2. PICK q \in Nat : q = c * SampleRate
  BY SynthConstants
<1>3. q \div 1000 \in Int
  OBVIOUS
<1> QED  BY <1>1, <1>2, <1>3 DEF StepSamples, AtLeastOne

\* The level a note is held at.
LEMMA HeldLevel ==
  ASSUME NEW s \in Int
  PROVE  ((Clamp(s, 0, 100) * EnvFull) \div 100) * EnvUnit \in Nat
<1>1. PICK c \in Nat : c = Clamp(s, 0, 100)
  <2>1. Clamp(s, 0, 100) \in Nat
    BY DEF Clamp
  <2> QED  BY <2>1
<1>2. PICK q \in Nat : q = c * EnvFull
  BY SynthConstants
<1>3. PICK r \in Nat : r = q \div 100
  OBVIOUS
<1>4. r * EnvUnit \in Nat
  BY SynthConstants
<1> QED  BY <1>1, <1>2, <1>3, <1>4

----------------------------------------------------------------------------
(* What the setters make of a voice.                                       *)

\* A new pitch.
LEMMA PitchSound ==
  ASSUME NEW vc, Sound(vc), NEW n \in 0 .. NumPitches
  PROVE  Sound([vc EXCEPT !.pitch = n])
BY DEF Sound, VoiceState

\* New rates, none of them 0.
LEMMA AdsrSound ==
  ASSUME NEW vc, Sound(vc), NEW a \in Nat \ {0}, NEW d \in Nat \ {0}, NEW s \in Nat,
         NEW r \in Nat \ {0}
  PROVE  Sound([vc EXCEPT !.attack = a, !.decay = d, !.release = r, !.sustain = s])
BY DEF Sound, VoiceState

\* A partner, or none; a route through the filter.
LEMMA WiredSound ==
  ASSUME NEW vc, Sound(vc)
  PROVE  /\ \A p \in Voices \cup {-1} : Sound([vc EXCEPT !.partner = p])
         /\ \A b \in BOOLEAN : Sound([vc EXCEPT !.route = b])
<1>1. ASSUME NEW p \in Voices \cup {-1} PROVE Sound([vc EXCEPT !.partner = p])
  BY DEF Sound, VoiceState
<1>2. ASSUME NEW b \in BOOLEAN PROVE Sound([vc EXCEPT !.route = b])
  BY DEF Sound, VoiceState
<1> QED  BY <1>1, <1>2

\* A note of the arpeggio.
LEMMA NoteSound ==
  ASSUME NEW vc, Sound(vc), NEW slot \in Slots, NEW n \in 1 .. NumPitches
  PROVE  Sound([vc EXCEPT !.notes = [vc.notes EXCEPT ![slot] = n]])
<1>1. PICK m \in [Slots -> 1 .. NumPitches] : m = [vc.notes EXCEPT ![slot] = n]
  BY DEF Sound, VoiceState
<1>2. Sound([vc EXCEPT !.notes = m])
  BY DEF Sound, VoiceState
<1> QED  BY <1>1, <1>2, Zenon

\* The arpeggio on, off, and its rate.
LEMMA ArpSound ==
  ASSUME NEW vc, Sound(vc)
  PROVE  /\ \A c \in 2 .. ArpNotes : Sound([vc EXCEPT !.count = c, !.active = TRUE])
         /\ Sound([vc EXCEPT !.active = FALSE])
         /\ \A r \in Nat \ {0} : Sound([vc EXCEPT !.rate = r])
<1>1. ASSUME NEW c \in 2 .. ArpNotes PROVE Sound([vc EXCEPT !.count = c, !.active = TRUE])
  <2>1. c \in 0 .. ArpNotes /\ c >= 2
    BY SynthConstants
  <2>2. PICK w : w = [vc EXCEPT !.count = c]
    OBVIOUS
  <2>3. w \in VoiceState /\ w.count = c
    BY <2>1, <2>2 DEF Sound, VoiceState
  <2>4. [w EXCEPT !.active = TRUE] \in VoiceState /\ [w EXCEPT !.active = TRUE].count = c
    BY <2>3 DEF VoiceState
  <2> QED  BY <2>1, <2>2, <2>4, Zenon DEF Sound
<1>2. Sound([vc EXCEPT !.active = FALSE])
  BY DEF Sound, VoiceState
<1>3. ASSUME NEW r \in Nat \ {0} PROVE Sound([vc EXCEPT !.rate = r])
  BY DEF Sound, VoiceState
<1> QED  BY <1>1, <1>2, <1>3

\* The gate on and off.
LEMMA GateSound ==
  ASSUME NEW vc, Sound(vc)
  PROVE  Sound(Gated(vc)) /\ Sound([vc EXCEPT !.stage = "release"])
<1>1. PICK p : p = IF vc.active THEN [vc EXCEPT !.step = 0, !.counter = 0, !.pitch = vc.notes[0]]
                                ELSE vc
  OBVIOUS
<1>2. 0 \in Slots
  BY SynthConstants DEF Slots
<1>3. vc.notes[0] \in 0 .. NumPitches
  <2>1. vc.notes \in [Slots -> 1 .. NumPitches]
    BY DEF Sound, VoiceState
  <2>2. vc.notes[0] \in 1 .. NumPitches
    BY <1>2, <2>1
  <2> QED  BY <2>2
<1>4. Sound([vc EXCEPT !.step = 0, !.counter = 0, !.pitch = vc.notes[0]])
  <2>1. PICK n \in 0 .. NumPitches : n = vc.notes[0]
    BY <1>3
  <2>2. Sound([vc EXCEPT !.step = 0, !.counter = 0, !.pitch = n])
    BY <1>2 DEF Sound, VoiceState
  <2> QED  BY <2>1, <2>2
<1>5. Sound(p)
  BY <1>1, <1>4
<1>6. Sound([p EXCEPT !.level = 0, !.stage = "attack"])
  BY <1>5 DEF Sound, VoiceState, Stages
<1>7. Gated(vc) = IF p.pitch = 0 THEN p ELSE [p EXCEPT !.level = 0, !.stage = "attack"]
  BY <1>1, Zenon DEF Gated
<1>8. Sound([vc EXCEPT !.stage = "release"])
  BY DEF Sound, VoiceState, Stages
<1> QED  BY <1>5, <1>6, <1>7, <1>8

----------------------------------------------------------------------------
(* What a sample makes of a voice.                                         *)

\* A voice that moves on: it leaves its stage or moves its level, and is no louder released.
MovesOn(vc, w) ==
  /\ vc.stage \in Moving => vc.stage # w.stage \/ vc.level # w.level
  /\ vc.stage = "release" => w.level <= vc.level

\* A voice w that has become one of stage s and level n.
Becomes(w, s, n) == Sound(w) /\ w.stage = s /\ w.level = n

\* The envelope.
LEMMA EnvelopedSound ==
  ASSUME NEW vc, Sound(vc)
  PROVE  Sound(Enveloped(vc)) /\ MovesOn(vc, Enveloped(vc))
<1>1. /\ vc.stage \in Stages /\ vc.level \in Nat /\ vc.attack \in Nat \ {0}
      /\ vc.decay \in Nat \ {0} /\ vc.release \in Nat \ {0} /\ vc.sustain \in Nat
  BY DEF Sound, VoiceState
<1>2. ASSUME NEW s \in Stages, NEW n \in Nat
      PROVE  Becomes([vc EXCEPT !.level = n, !.stage = s], s, n)
  BY DEF Sound, VoiceState, Becomes
<1>3. ASSUME NEW s \in Stages
      PROVE  Becomes([vc EXCEPT !.stage = s], s, vc.level)
  BY DEF Sound, VoiceState, Becomes
<1>4. ASSUME NEW n \in Nat
      PROVE  Becomes([vc EXCEPT !.level = n], vc.stage, n)
  BY DEF Sound, VoiceState, Becomes
<1>5. PICK w, s, n : w = Enveloped(vc) /\ Becomes(w, s, n)
                     /\ (vc.stage \in Moving => vc.stage # s \/ vc.level # n)
                     /\ (vc.stage = "release" => n <= vc.level)
  <2>1. CASE vc.stage = "off"
    <3>1. Enveloped(vc) = [vc EXCEPT !.level = 0]
      BY <2>1 DEF Enveloped
    <3> QED  BY <1>4, <2>1, <3>1 DEF Moving
  <2>2. CASE vc.stage = "sustain"
    <3>1. Enveloped(vc) = [vc EXCEPT !.level = vc.sustain]
      BY <2>2 DEF Enveloped
    <3> QED  BY <1>1, <1>4, <2>2, <3>1 DEF Moving
  <2>3. CASE vc.stage = "attack"
    <3>1. Enveloped(vc) = IF vc.level + vc.attack >= Loudest
                            THEN [vc EXCEPT !.level = Loudest, !.stage = "decay"]
                            ELSE [vc EXCEPT !.level = vc.level + vc.attack]
      BY <2>3 DEF Enveloped
    <3>2. PICK up \in Nat : up = vc.level + vc.attack /\ up # vc.level
      <4>1. PICK l \in Nat, a \in Nat \ {0} : l = vc.level /\ a = vc.attack
        BY <1>1, Zenon
      <4>2. l + a \in Nat /\ l + a # l
        OBVIOUS
      <4> QED  BY <4>1, <4>2, Zenon
    <3>3. CASE up >= Loudest
      <4>1. Enveloped(vc) = [vc EXCEPT !.level = Loudest, !.stage = "decay"]
        BY <3>1, <3>2, <3>3
      <4>2. Loudest \in Nat /\ "decay" \in Stages
        BY SynthConstants DEF Stages
      <4>3. Becomes(Enveloped(vc), "decay", Loudest)
        BY <1>2, <4>1, <4>2, Zenon
      <4> QED  BY <2>3, <4>3
    <3>4. CASE ~(up >= Loudest)
      <4>1. Becomes(Enveloped(vc), vc.stage, up)
        BY <1>4, <3>1, <3>2, <3>4, Zenon
      <4> QED  BY <2>3, <3>2, <4>1
    <3> QED  BY <3>3, <3>4
  <2>4. CASE vc.stage = "decay"
    <3>1. Enveloped(vc) = IF vc.level <= vc.sustain THEN [vc EXCEPT !.stage = "sustain"]
                          ELSE IF vc.level - vc.decay <= vc.sustain
                            THEN [vc EXCEPT !.level = vc.sustain, !.stage = "sustain"]
                          ELSE [vc EXCEPT !.level = vc.level - vc.decay]
      BY <2>4 DEF Enveloped
    <3>2. PICK down \in Int : down = vc.level - vc.decay /\ down # vc.level
      <4>1. PICK l \in Nat, d \in Nat \ {0} : l = vc.level /\ d = vc.decay
        BY <1>1, Zenon
      <4>2. l - d \in Int /\ l - d # l
        OBVIOUS
      <4> QED  BY <4>1, <4>2, Zenon
    <3>3. "sustain" \in Stages
      BY DEF Stages
    <3>4. CASE vc.level <= vc.sustain
      <4>1. Becomes(Enveloped(vc), "sustain", vc.level)
        BY <1>3, <3>1, <3>3, <3>4, Zenon
      <4> QED  BY <2>4, <4>1
    <3>5. CASE ~(vc.level <= vc.sustain) /\ down <= vc.sustain
      <4>1. Becomes(Enveloped(vc), "sustain", vc.sustain)
        BY <1>1, <1>2, <3>1, <3>2, <3>3, <3>5, Zenon
      <4> QED  BY <2>4, <4>1
    <3>6. CASE ~(vc.level <= vc.sustain) /\ ~(down <= vc.sustain)
      <4>1. down \in Nat
        BY <1>1, <3>6
      <4>2. Becomes(Enveloped(vc), vc.stage, down)
        BY <1>4, <3>1, <3>2, <3>6, <4>1, Zenon
      <4> QED  BY <2>4, <3>2, <4>2
    <3> QED  BY <3>4, <3>5, <3>6
  <2>5. CASE vc.stage = "release"
    <3>1. Enveloped(vc) = IF vc.level > vc.release THEN [vc EXCEPT !.level = vc.level - vc.release]
                          ELSE [vc EXCEPT !.level = 0, !.stage = "off"]
      BY <2>5 DEF Enveloped
    <3>2. CASE vc.level > vc.release
      <4>1. PICK down \in Nat : down = vc.level - vc.release /\ down < vc.level
        <5>1. PICK l \in Nat, r \in Nat \ {0} : l = vc.level /\ r = vc.release
          BY <1>1, Zenon
        <5>2. l > r => l - r \in Nat /\ l - r < l
          OBVIOUS
        <5> QED  BY <3>2, <5>1, <5>2, Zenon
      <4>2. Becomes(Enveloped(vc), vc.stage, down)
        BY <1>4, <3>1, <3>2, <4>1, Zenon
      <4> QED  BY <1>1, <4>1, <4>2
    <3>3. CASE ~(vc.level > vc.release)
      <4>1. 0 \in Nat /\ 0 <= vc.level /\ "off" \in Stages
        BY <1>1 DEF Stages
      <4>2. Becomes(Enveloped(vc), "off", 0)
        BY <1>2, <3>1, <3>3, <4>1, Zenon
      <4> QED  BY <2>5, <4>1, <4>2
    <3> QED  BY <3>2, <3>3
  <2> QED  BY <1>1, <2>1, <2>2, <2>3, <2>4, <2>5 DEF Stages
<1> QED  BY <1>5 DEF Becomes, MovesOn

\* The arpeggio: its next note is one it has.
LEMMA ArpeggiatedSound ==
  ASSUME NEW vc, Sound(vc)
  PROVE  /\ Sound(Arpeggiated(vc)) /\ Arpeggiated(vc).stage = vc.stage
         /\ Arpeggiated(vc).level = vc.level
<1>1. CASE ~vc.active
  BY <1>1 DEF Arpeggiated
<1>2. CASE vc.active /\ vc.counter + 1 < vc.rate
  <2>1. PICK n \in Nat : n = vc.counter + 1
    BY DEF Sound, VoiceState
  <2>2. Arpeggiated(vc) = [vc EXCEPT !.counter = n]
    BY <1>2, <2>1 DEF Arpeggiated
  <2> QED  BY <2>2 DEF Sound, VoiceState
<1>3. CASE vc.active /\ ~(vc.counter + 1 < vc.rate)
  <2>1. PICK c \in 2 .. ArpNotes : c = vc.count
    BY <1>3 DEF Sound, VoiceState
  <2>2. PICK s \in Nat : s = vc.step
    BY DEF Sound, VoiceState, Slots
  <2>3. PICK next \in Slots : next = (s + 1) % c
    BY SynthConstants, <2>1, <2>2 DEF Slots
  <2>4. PICK p \in 0 .. NumPitches : p = vc.notes[next]
    BY DEF Sound, VoiceState
  <2>5. Arpeggiated(vc) = [vc EXCEPT !.counter = 0, !.step = next, !.pitch = p]
    BY <1>3, <2>1, <2>2, <2>3, <2>4 DEF Arpeggiated
  <2>6. PICK w : w = [vc EXCEPT !.counter = 0]
    OBVIOUS
  <2>7. Sound(w) /\ w.stage = vc.stage /\ w.level = vc.level
    BY <2>6 DEF Sound, VoiceState
  <2>8. PICK y : y = [w EXCEPT !.step = next]
    OBVIOUS
  <2>9. Sound(y) /\ y.stage = vc.stage /\ y.level = vc.level
    BY <2>7, <2>8 DEF Sound, VoiceState
  <2>10. Becomes([y EXCEPT !.pitch = p], vc.stage, vc.level)
    BY <2>9 DEF Sound, VoiceState, Becomes
  <2> QED  BY <2>5, <2>6, <2>8, <2>10, Zenon DEF Becomes
<1> QED  BY <1>1, <1>2, <1>3

----------------------------------------------------------------------------
(* The steps.                                                              *)

\* A command counts and leaves the voices sound.
Commanded == SynthInv' /\ commands' = commands + 1
Fits(v, ok, new) == v \in Voices /\ ok => Sound(new)

\* A setter, which is ignored unless its arguments mean something.
LEMMA SetKeeps ==
  ASSUME SynthInv, NEW v, NEW ok, NEW new, Fits(v, ok, new), Set(v, ok, new)
  PROVE  Commanded
<1>1. PICK vs : vs = IF v \in Voices /\ ok THEN [voices EXCEPT ![v] = new] ELSE voices
  OBVIOUS
<1>2. voices' = vs /\ commands' = commands + 1 /\ current' = current
  BY <1>1, Zenon DEF Set, Command
<1>3. voices \in [Voices -> VoiceState] /\ (\A u \in Voices : Sound(voices[u]))
      /\ current \in Voices /\ commands \in Nat
  BY Zenon DEF SynthInv
<1>4. vs \in [Voices -> VoiceState] /\ \A u \in Voices : Sound(vs[u])
  <2>1. CASE v \in Voices /\ ok
    <3>1. Sound(new) /\ new \in VoiceState
      BY <2>1, Zenon DEF Fits, Sound
    <3>2. vs = [voices EXCEPT ![v] = new]
      BY <1>1, <2>1, Zenon
    <3>3. vs \in [Voices -> VoiceState]
      BY <1>3, <3>1, <3>2
    <3>4. ASSUME NEW u \in Voices PROVE Sound(vs[u])
      <4>1. vs[u] = new \/ vs[u] = voices[u]
        BY <1>3, <3>2
      <4> QED  BY <1>3, <3>1, <4>1, Zenon
    <3> QED  BY <3>3, <3>4, Zenon
  <2>2. CASE ~(v \in Voices /\ ok)
    BY <1>1, <1>3, <2>2, Zenon
  <2> QED  BY <2>1, <2>2, Zenon
<1>5. commands + 1 \in Nat
  BY <1>3
<1> QED  BY <1>2, <1>3, <1>4, <1>5, Zenon DEF Commanded, SynthInv

\* A pitch, an envelope or the gate.
LEMMA CallKeeps ==
  ASSUME SynthInv, NEW v, SynthCall(v)
  PROVE  Commanded
<1>1. v \in Voices => Sound(voices[v])
  BY Zenon DEF SynthInv
<1>2. ASSUME NEW n \in 0 .. NumPitches + 1, SetOna(v, n)
      PROVE  Commanded
  <2>1. n \in 1 .. NumPitches => n \in 0 .. NumPitches
    BY SynthConstants
  <2>2. Fits(v, n \in 1 .. NumPitches, [voices[v] EXCEPT !.pitch = n])
    BY <1>1, <2>1, PitchSound, Zenon DEF Fits
  <2> QED  BY <1>2, <2>2, SetKeeps, Zenon DEF SetOna
<1>3. ASSUME NEW a \in Durations, NEW r \in Durations, NEW s \in Levels, SetAdsr(v, a, a, s, r)
      PROVE  Commanded
  <2>1. a \in Int /\ r \in Int /\ s \in Int
    BY SynthConstants
  <2>2. PICK x \in Nat \ {0}, y \in Nat \ {0}, h \in Nat :
          x = Rate(a) /\ y = Rate(r) /\ h = ((Clamp(s, 0, 100) * EnvFull) \div 100) * EnvUnit
    BY <2>1, RateIs, HeldLevel, Zenon
  <2>3. PICK new : new = [voices[v] EXCEPT !.attack = x, !.decay = x, !.release = y, !.sustain = h]
    OBVIOUS
  <2>4. Fits(v, TRUE, new)
    BY <1>1, <2>3, AdsrSound, Zenon DEF Fits
  <2>5. Set(v, TRUE, new)
    BY <1>3, <2>2, <2>3, Zenon DEF SetAdsr
  <2> QED  BY <2>4, <2>5, SetKeeps, Zenon
<1>4. ASSUME GateOn(v) PROVE Commanded
  <2>1. Fits(v, TRUE, Gated(voices[v]))
    BY <1>1, GateSound, Zenon DEF Fits
  <2> QED  BY <1>4, <2>1, SetKeeps, Zenon DEF GateOn
<1>5. ASSUME GateOff(v) PROVE Commanded
  <2>1. Fits(v, voices[v].stage # "off", [voices[v] EXCEPT !.stage = "release"])
    BY <1>1, GateSound, Zenon DEF Fits
  <2> QED  BY <1>5, <2>1, SetKeeps, Zenon DEF GateOff
<1> QED  BY <1>2, <1>3, <1>4, <1>5, Zenon DEF SynthCall

\* The other words.
LEMMA WordKeeps ==
  ASSUME SynthInv, SynthWord
  PROVE  Commanded
<1>1. current \in Voices /\ Sound(voices[current])
  BY Zenon DEF SynthInv
<1>2. ASSUME NEW v \in Voices, SelectVoice(v) PROVE Commanded
  <2>1. voices' = voices /\ commands' = commands + 1 /\ current' = v
    BY <1>2, Zenon DEF SelectVoice
  <2>2. commands + 1 \in Nat
    BY DEF SynthInv
  <2> QED  BY <2>1, <2>2, Zenon DEF Commanded, SynthInv
<1>3. ASSUME NEW p \in Voices, SetPartner(current, p) PROVE Commanded
  <2>1. Fits(current, p \in Voices, [voices[current] EXCEPT !.partner = p])
    BY <1>1, WiredSound, Zenon DEF Fits
  <2> QED  BY <1>3, <2>1, SetKeeps, Zenon DEF SetPartner
<1>4. ASSUME ClearPartner(current) PROVE Commanded
  <2>1. Fits(current, TRUE, [voices[current] EXCEPT !.partner = -1])
    BY <1>1, WiredSound, Zenon DEF Fits
  <2> QED  BY <1>4, <2>1, SetKeeps, Zenon DEF ClearPartner
<1>5. ASSUME ArpOff(current) PROVE Commanded
  <2>1. Fits(current, TRUE, [voices[current] EXCEPT !.active = FALSE])
    BY <1>1, ArpSound, Zenon DEF Fits
  <2> QED  BY <1>5, <2>1, SetKeeps, Zenon DEF ArpOff
<1>6. ASSUME NEW routed \in BOOLEAN, SetRoute(current, routed) PROVE Commanded
  <2>1. Fits(current, TRUE, [voices[current] EXCEPT !.route = routed])
    BY <1>1, WiredSound, Zenon DEF Fits
  <2> QED  BY <1>6, <2>1, SetKeeps, Zenon DEF SetRoute
<1>7. ASSUME NEW slot \in 0 .. ArpNotes - 1, NEW n \in 1 .. NumPitches, SetArpNote(current, slot, n)
      PROVE  Commanded
  <2>1. PICK new : new = [voices[current] EXCEPT !.notes = [voices[current].notes EXCEPT ![slot] = n]]
    OBVIOUS
  <2>2. PICK ok : ok = (slot \in 0 .. ArpNotes - 1 /\ n \in 1 .. NumPitches)
    OBVIOUS
  <2>3. Sound(new)
    BY <1>1, <2>1, NoteSound, Zenon DEF Slots
  <2>4. Fits(current, ok, new)
    BY <2>3, Zenon DEF Fits
  <2>5. Set(current, ok, new)
    BY <1>7, <2>1, <2>2, Zenon DEF SetArpNote
  <2> QED  BY <2>4, <2>5, SetKeeps, Zenon
<1>8. ASSUME NEW count \in 2 .. ArpNotes, ArpOn(current, count) PROVE Commanded
  <2>1. Fits(current, count \in 2 .. ArpNotes,
             [voices[current] EXCEPT !.count = count, !.active = TRUE])
    BY <1>1, ArpSound, Zenon DEF Fits
  <2> QED  BY <1>8, <2>1, SetKeeps, Zenon DEF ArpOn
<1>9. ASSUME NEW ms \in Durations, SetArpRate(current, ms) PROVE Commanded
  <2>1. ms \in Int
    BY SynthConstants
  <2>2. StepSamples(ms) \in Nat \ {0}
    BY <2>1, StepSamplesIs, Zenon
  <2>3. Fits(current, TRUE, [voices[current] EXCEPT !.rate = StepSamples(ms)])
    BY <1>1, <2>2, ArpSound, Zenon DEF Fits
  <2> QED  BY <1>9, <2>3, SetKeeps, Zenon DEF SetArpRate
<1>10. ASSUME NEW c, NEW r, SetFilter(c, r) PROVE Commanded
  <2>1. voices' = voices /\ commands' = commands + 1 /\ current' = current
    BY <1>10, Zenon DEF SetFilter
  <2>2. commands + 1 \in Nat
    BY DEF SynthInv
  <2> QED  BY <2>1, <2>2, Zenon DEF Commanded, SynthInv
<1>11. SynthCall(current) => Commanded
  BY CallKeeps, Zenon
<1> QED  BY <1>2, <1>3, <1>4, <1>5, <1>6, <1>7, <1>8, <1>9, <1>10, <1>11, Zenon DEF SynthWord

\* A sample: every voice moves on.
LEMMA SampleKeeps ==
  ASSUME SynthInv, RenderSample
  PROVE  /\ SynthInv' /\ commands' = commands
         /\ \A v \in Voices : MovesOn(voices[v], voices'[v])
<1>1. /\ voices' = [v \in Voices |-> Arpeggiated(Enveloped(voices[v]))]
      /\ current' = current /\ commands' = commands
  BY Zenon DEF RenderSample
<1>2. ASSUME NEW v \in Voices
      PROVE  Sound(voices'[v]) /\ voices'[v] \in VoiceState /\ MovesOn(voices[v], voices'[v])
  <2>1. PICK vc, ec, ac : vc = voices[v] /\ ec = Enveloped(vc) /\ ac = Arpeggiated(ec)
    OBVIOUS
  <2>2. voices'[v] = ac
    BY <1>1, <2>1
  <2>3. Sound(vc)
    BY <2>1, Zenon DEF SynthInv
  <2>4. Sound(ec) /\ MovesOn(vc, ec)
    BY <2>1, <2>3, EnvelopedSound, Zenon
  <2>5. Sound(ac) /\ ac.stage = ec.stage /\ ac.level = ec.level
    BY <2>1, <2>4, ArpeggiatedSound, Zenon
  <2>6. MovesOn(vc, ac)
    BY <2>4, <2>5, Zenon DEF MovesOn
  <2> QED  BY <2>1, <2>2, <2>5, <2>6, Zenon DEF Sound
<1>3. voices' \in [Voices -> VoiceState]
  BY <1>1, <1>2
<1> QED  BY <1>1, <1>2, <1>3, Zenon DEF SynthInv

\* The voices at power up.
LEMMA SynthStarts == SynthInit => SynthInv
<1> SUFFICES ASSUME SynthInit PROVE SynthInv
  OBVIOUS
<1>1. PICK n \in [Slots -> 1 .. NumPitches] : n = [k \in 0 .. ArpNotes - 1 |-> 1]
  <2>1. 1 \in 1 .. NumPitches
    BY SynthConstants
  <2>2. [k \in 0 .. ArpNotes - 1 |-> 1] \in [0 .. ArpNotes - 1 -> 1 .. NumPitches]
    BY <2>1, Zenon
  <2> QED  BY <2>2, Zenon DEF Slots
<1>2. PICK vc : vc = [stage |-> "off", level |-> 0, attack |-> Loudest, decay |-> Loudest,
                      sustain |-> Loudest, release |-> Loudest, pitch |-> 0, partner |-> -1,
                      route |-> FALSE, notes |-> n, count |-> 0,
                      active |-> FALSE, step |-> 0, rate |-> 1, counter |-> 0]
  OBVIOUS
<1>3. vc \in VoiceState /\ ~vc.active
  <2>1. /\ "off" \in Stages /\ 0 \in Nat /\ Loudest \in Nat \ {0} /\ Loudest \in Nat
        /\ 0 \in 0 .. NumPitches /\ -1 \in Voices \cup {-1} /\ FALSE \in BOOLEAN
        /\ 0 \in 0 .. ArpNotes /\ 0 \in Slots /\ 1 \in Nat \ {0}
    BY SynthConstants DEF Stages, Slots
  <2> QED  BY <1>2, <2>1 DEF VoiceState
<1>4. voices = [v \in Voices |-> vc] /\ current = 0 /\ commands = 0
  BY <1>1, <1>2, Zenon DEF SynthInit
<1>5. 0 \in Voices /\ 0 \in Nat
  BY SynthConstants DEF Voices
<1>6. Sound(vc)
  BY <1>3, Zenon DEF Sound
<1>7. voices \in [Voices -> VoiceState] /\ \A v \in Voices : voices[v] = vc
  BY <1>3, <1>4
<1> QED  BY <1>4, <1>5, <1>6, <1>7, Zenon DEF SynthInv

\* What a step is: a command, a sample, or none of these.
LEMMA SynthStep ==
  ASSUME SynthInv, [SynthNext]_synthVars
  PROVE  \/ Commanded \/ RenderSample
         \/ voices' = voices /\ current' = current /\ commands' = commands
<1>1. CASE SynthNext
  BY <1>1, CallKeeps, WordKeeps, Zenon DEF SynthNext
<1>2. CASE UNCHANGED synthVars
  BY <1>2 DEF synthVars
<1> QED  BY <1>1, <1>2, Zenon

\* Every command and every sample leaves every voice with its level and rates, its pitch
\* and its arpeggio's notes and counters in range: no note is read outside the pattern,
\* and no rate of a stage is 0 (synth_set_adsr, synth_arp_on, synth_render_half).
THEOREM VoicesSound == SynthSpec => []SynthInv
<1>1. SynthInv /\ [SynthNext]_synthVars => SynthInv'
  <2> SUFFICES ASSUME SynthInv, [SynthNext]_synthVars PROVE SynthInv'
    OBVIOUS
  <2>1. CASE Commanded
    BY <2>1, Zenon DEF Commanded
  <2>2. CASE RenderSample
    BY <2>2, SampleKeeps, Zenon
  <2>3. CASE voices' = voices /\ current' = current /\ commands' = commands
    BY <2>3, Zenon DEF SynthInv
  <2> QED  BY <2>1, <2>2, <2>3, SynthStep, Zenon
<1> QED  BY <1>1, SynthStarts, PTL DEF SynthSpec

\* A voice in attack, decay or release leaves the stage or moves its level with every
\* sample, and a released voice never gets louder (synth_envelope_advance_sample).
THEOREM EnvelopeNeverSticks == SynthSpec => EnvelopeMoves
<1> DEFINE Moves ==
      commands' = commands => \A v \in Voices :
        /\ voices[v].stage \in {"attack", "decay", "release"} =>
             << voices[v].stage, voices[v].level >> # << voices'[v].stage, voices'[v].level >>
        /\ voices[v].stage = "release" => voices'[v].level <= voices[v].level
<1>1. SynthInv /\ [SynthNext]_synthVars => [Moves]_synthVars
  <2> SUFFICES ASSUME SynthInv, SynthNext, commands' = commands
               PROVE  Moves
    OBVIOUS
  <2>1. ~Commanded
    <3>1. commands \in Nat
      BY Zenon DEF SynthInv
    <3>2. commands + 1 # commands
      BY <3>1
    <3> QED  BY <3>2, Zenon DEF Commanded
  <2>2. RenderSample
    BY <2>1, CallKeeps, WordKeeps, Zenon DEF SynthNext
  <2>3. \A v \in Voices : MovesOn(voices[v], voices'[v])
    BY <2>2, SampleKeeps, Zenon
  <2> QED  BY <2>3 DEF MovesOn, Moving
<1> QED  BY <1>1, VoicesSound, PTL DEF SynthSpec, EnvelopeMoves

=============================================================================
