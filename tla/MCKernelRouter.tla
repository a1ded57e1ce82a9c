--------------------------- MODULE MCKernelRouter ---------------------------
(***************************************************************************)
(* KernelRouter for TLC.  The code only ever compares z-orders, and but    *)
(* for a torn g_next_z++ the next one is above them all (StrictZOrder, an  *)
(* invariant of the runs), so two states that differ in the numbers and    *)
(* not in their order behave alike: the view keeps the order, and whether  *)
(* a loaded g_next_z is still current, and the counter need not be         *)
(* bounded.  A torn state is checked and not continued.  Nor is g_last_y   *)
(* read but to compare it with the strip.  The handles other than the      *)
(* desktop's are interchangeable.                                          *)
(***************************************************************************)
EXTENDS KernelRouter, TLC

Ranked ==
  [s \in Slot |->
     IF tab[s].used
       THEN [tab[s] EXCEPT !.z = Cardinality({r \in Used(tab) : tab[r].z < tab[s].z})]
       ELSE Free]

Loads ==
  [t \in Task |-> IF job[t].call \in {"fill", "raise"}
                    THEN <<job[t].call, job[t].task, job[t].slot, job[t].z = nextZ>>
                    ELSE <<job[t]>>]

ZView ==
  <<Ranked, torn, focusVars, touch, drag, was, lastRow < STRIP_H,
    {t \in down : HasWindow(tab, t)}, queue, lifeVars, Loads>>

NotTorn == ~torn

Handles == Permutations(Task \ {Desktop})
=============================================================================
