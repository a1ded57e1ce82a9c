------------------------------ MODULE MCFlatFS ------------------------------
(* FlatFS for TLC. *)
EXTENDS FlatFS, TLC

\* The disk with the sectors no path leads to blanked: nothing reads one
\* before it is allocated and written whole.
Reached == {ROOT} \cup UNION {Extent(li) : li \in Live}

DiskView ==
  <<super, [l \in Lba |-> IF l \in Reached THEN sector[l] ELSE Blank],
    mounted, IF mounted THEN next ELSE 0, saving, hurt>>

Alike == Permutations(Names \ {DEV}) \cup Permutations(Byte)

\* Once hurt nothing is promised: such a state is checked and not continued.
NotHurt == ~hurt
=============================================================================
