---------------------------- MODULE AudioService ----------------------------
(***************************************************************************)
(* What kernel_audio.h promises the apps: a command that was accepted is   *)
(* applied exactly once, in the order of acceptance, and nothing else but  *)
(* the renderer touches a voice.  KernelAudio implements this with a ring  *)
(* of Len slots and two wrapping counters.                                 *)
(***************************************************************************)
EXTENDS Sequences, SynthVoices

CONSTANT Capacity   \* accepted and not yet applied commands, at most

VARIABLES pending,  \* accepted commands, oldest first
          voices    \* the voice table

Init == /\ pending = << >>
        /\ voices = [v \in Voice |-> Silent]

Accept == /\ Len(pending) < Capacity
          /\ \E c \in Command : pending' = Append(pending, c)
          /\ UNCHANGED voices

Apply == /\ pending # << >>
         /\ voices' = Applied(voices, Head(pending))
         /\ pending' = Tail(pending)

Render == /\ \E f \in SUBSET Releasing(voices), s \in SUBSET Arpeggiating(voices) :
               voices' = Rendered(voices, f, s)
          /\ UNCHANGED pending

Next == Accept \/ Apply \/ Render

Spec == Init /\ [][Next]_<<pending, voices>>
=============================================================================
