---------------------------- MODULE WindowTable ----------------------------
(***************************************************************************)
(* v2/core/kernel/kernel_window.c: the table of windows, as operators on a *)
(* table value.  The screen is cut into rows: the desktop strip is row 0,  *)
(* a window is a title row and, below it, its body.  A window stores the   *)
(* app that registered it (its task handle and, for the properties, which  *)
(* app in starting order), its z-order, its top row and whether it has a   *)
(* close dot.                                                              *)
(***************************************************************************)
EXTENDS Integers, FiniteSets

CONSTANTS
  KERNEL_WINDOW_MAX,  \* slots of g_windows (8)
  Task,    \* task handles
  NoTask   \* NULL

ASSUME TableAssumption ==
  /\ KERNEL_WINDOW_MAX \in Nat \ {0}
  /\ NoTask \notin Task

Slot == 1 .. KERNEL_WINDOW_MAX

STRIP_H == 1   \* rows of the desktop strip (KERNEL_DESKTOP_STRIP_H)

Free == [used |-> FALSE]

Window(Apps) ==
  [used : {TRUE}, task : Task, app : Apps, z : Int, row : Nat, h : Nat,
   closable : BOOLEAN]

Used(tab)         == {s \in Slot : tab[s].used}
Owned(tab, t)     == {s \in Used(tab) : tab[s].task = t}
HasWindow(tab, t) == Owned(tab, t) # {}

Lowest(S) == CHOOSE s \in S : \A r \in S : s <= r

\* The first slot of a task that has a window.
ByTask(tab, t) == Lowest(Owned(tab, t))

Full(tab) == Used(tab) = Slot

\* The slot of S with the highest z-order.
Topmost(tab, S) == CHOOSE s \in S : \A r \in S : tab[r].z <= tab[s].z

Covering(tab, row) ==
  {s \in Used(tab) : tab[s].row <= row /\ row < tab[s].row + tab[s].h}

\* The window under a point that some window covers.
FindAt(tab, row) == Topmost(tab, Covering(tab, row))

FreeSlot(tab) == Lowest(Slot \ Used(tab))

\* (mutant) the window stays in the table
UnregisteredKept(tab, t) == tab

Unregistered(tab, t) ==
  IF HasWindow(tab, t) THEN [tab EXCEPT ![ByTask(tab, t)] = Free] ELSE tab

\* A new z-order for a slot, if a window is still there.
Raised(tab, s, z) == IF tab[s].used THEN [tab EXCEPT ![s].z = z] ELSE tab

\* (mutant) level with the lowest window, not below it
SentToBackTie(tab, t) ==
  IF HasWindow(tab, t)
    THEN [tab EXCEPT ![ByTask(tab, t)].z =
            CHOOSE z \in {tab[s].z : s \in Used(tab)} :
              \A s \in Used(tab) : z <= tab[s].z]
    ELSE tab

\* One below the lowest z-order in the table, its own included.
SentToBack(tab, t) ==
  IF HasWindow(tab, t)
    THEN [tab EXCEPT ![ByTask(tab, t)].z =
            (CHOOSE z \in {tab[s].z : s \in Used(tab)} :
               \A s \in Used(tab) : z <= tab[s].z) - 1]
    ELSE tab

\* kernel_window_next_by_z: the lowest window above z, the first of its equals.
NextByZ(tab, z) ==
  LET above == {s \in Used(tab) : tab[s].z > z}
  IN  Lowest({s \in above : \A r \in above : tab[s].z <= tab[r].z})

\* The windows a frame shows: the walk starts from z-order -1 and asks for
\* the next one above until there is none.
Composited(tab) == {s \in Used(tab) : \E z \in {-1} \cup {tab[r].z : r \in Used(tab)} :
                      /\ z >= -1 /\ z < tab[s].z /\ s = NextByZ(tab, z)}
=============================================================================
