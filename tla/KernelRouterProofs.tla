-------------------------- MODULE KernelRouterProofs --------------------------
(***************************************************************************)
(* Proofs about the router and the life of apps, for every number of       *)
(* windows, handles and rows, every queue length and any number of kernel  *)
(* calls in progress.                                                      *)
(***************************************************************************)
EXTENDS KernelRouter, FiniteSetTheorems, WellFoundedInduction, TLAPS

----------------------------------------------------------------------------
(* The table of windows.                                                   *)

\* Among finitely many things weighed by integers one weighs most.
LEMMA FiniteMaximum ==
  ASSUME NEW S, IsFiniteSet(S), S # {}, NEW f, \A s \in S : f[s] \in Int
  PROVE  \E s \in S : \A r \in S : f[r] <= f[s]
<1> DEFINE Bad == { T \in SUBSET S : T # {} /\ \A s \in T : \E r \in T : ~(f[r] <= f[s]) }
<1> SUFFICES ASSUME Bad # {} PROVE FALSE
  OBVIOUS
<1>1. Bad \subseteq FiniteSubsetsOf(S)
  BY FS_Subset DEF FiniteSubsetsOf
<1>2. PICK T \in Bad : \A U \in Bad : ~ (<<U, T>> \in StrictSubsetOrdering(S))
  BY <1>1, WFMin, FS_StrictSubsetOrderingWellFounded
<1>3. PICK e \in T : TRUE
  OBVIOUS
<1>4. T \ {e} \notin Bad
  BY <1>2, <1>3 DEF StrictSubsetOrdering
<1>5. CASE T \ {e} = {}
  BY <1>3, <1>5
<1>6. CASE T \ {e} # {}
  <2>1. PICK m \in T \ {e} : \A r \in T \ {e} : f[r] <= f[m]
    BY <1>4, <1>6
  <2>2. f[m] \in Int /\ f[e] \in Int /\ \A r \in T : f[r] \in Int
    BY <2>1, <1>3
  <2>3. PICK r1 \in T : ~(f[r1] <= f[m])
    BY <2>1
  <2>4. r1 = e
    BY <2>1, <2>3
  <2>5. PICK r2 \in T : ~(f[r2] <= f[e])
    BY <1>3
  <2>6. CASE r2 = e
    BY <2>2, <2>5, <2>6
  <2>7. CASE r2 # e
    <3>1. f[r2] <= f[m]
      BY <2>1, <2>5, <2>7
    <3> QED  BY <2>2, <2>3, <2>4, <2>5, <3>1
  <2> QED  BY <2>6, <2>7
<1> QED  BY <1>5, <1>6

\* The table has finitely many slots.
LEMMA SlotsFinite == IsFiniteSet(Slot) /\ \A S \in SUBSET Slot : IsFiniteSet(S)
<1>1. IsFiniteSet(Slot)
  BY FS_Interval, TableAssumption DEF Slot
<1> QED  BY <1>1, FS_Subset

\* The first slot of some is one of them.
LEMMA LowestIn ==
  ASSUME NEW S \in SUBSET Slot, S # {}
  PROVE  Lowest(S) \in S
<1> DEFINE f == [s \in S |-> -s]
<1>1. \A s \in S : s \in Int /\ f[s] = -s /\ f[s] \in Int
  BY TableAssumption DEF Slot
<1>2. PICK s \in S : \A r \in S : f[r] <= f[s]
  <2> HIDE DEF f
  <2> QED  BY <1>1, SlotsFinite, FiniteMaximum
<1>3. \A r \in S : s <= r
  BY <1>1, <1>2
<1> QED  BY <1>2, <1>3 DEF Lowest

Table == [Slot -> Window(Apps) \cup {Free}]

\* No task has two windows.
OneEach(tb) == \A r, s \in Used(tb) : r # s => tb[r].task # tb[s].task

\* What a slot in use holds.
LEMMA WindowFields ==
  ASSUME NEW tb \in Table, NEW s \in Used(tb)
  PROVE  /\ s \in Slot /\ tb[s] \in Window(Apps)
         /\ tb[s].used = TRUE /\ tb[s].task \in Task /\ tb[s].app \in Apps
         /\ tb[s].z \in Int /\ tb[s].row \in Nat /\ tb[s].h \in Nat
         /\ tb[s].closable \in BOOLEAN
<1>1. s \in Slot /\ tb[s].used
  BY DEF Used
<1>2. tb[s] \in Window(Apps) \cup {Free}
  BY <1>1 DEF Table
<1>3. tb[s] # Free
  BY <1>1 DEF Free
<1>4. tb[s] \in Window(Apps)
  BY <1>2, <1>3
<1> QED  BY <1>1, <1>4 DEF Window

\* kernel_window_find_by_task, when a task has one window at most.
LEMMA ByTaskIs ==
  ASSUME NEW tb \in Table, NEW t, HasWindow(tb, t)
  PROVE  ByTask(tb, t) \in Used(tb) /\ tb[ByTask(tb, t)].task = t
<1>1. Owned(tb, t) \in SUBSET Slot /\ Owned(tb, t) # {}
  BY DEF Owned, Used, HasWindow
<1> QED  BY <1>1, LowestIn DEF ByTask, Owned

\* The null handle has no window.
LEMMA NobodysWindow ==
  ASSUME NEW tb \in Table
  PROVE  ~HasWindow(tb, NoTask)
BY WindowFields, TableAssumption DEF HasWindow, Owned

\* kernel_window_unregister takes the task's window and leaves the others.
LEMMA UnregisteredIs ==
  ASSUME NEW tb \in Table, OneEach(tb), NEW t
  PROVE  /\ Unregistered(tb, t) \in Table
         /\ Used(Unregistered(tb, t)) = Used(tb) \ Owned(tb, t)
         /\ \A s \in Used(tb) \ Owned(tb, t) : Unregistered(tb, t)[s] = tb[s]
<1>1. CASE ~HasWindow(tb, t)
  BY <1>1 DEF Unregistered, HasWindow
<1>2. CASE HasWindow(tb, t)
  <2> DEFINE b == ByTask(tb, t)
  <2>1. b \in Used(tb) /\ tb[b].task = t
    BY <1>2, ByTaskIs
  <2>2. Owned(tb, t) = {b}
    BY <2>1 DEF Owned, OneEach
  <2>3. Unregistered(tb, t) = [tb EXCEPT ![b] = Free]
    BY <1>2 DEF Unregistered
  <2> HIDE DEF b
  <2> QED  BY <2>1, <2>2, <2>3 DEF Table, Used, Free
<1> QED  BY <1>1, <1>2

\* find_at, over a row that some window covers, finds one that does.
LEMMA FindAtIs ==
  ASSUME NEW tb \in Table, NEW row, Covering(tb, row) # {}
  PROVE  FindAt(tb, row) \in Covering(tb, row) /\ FindAt(tb, row) \in Used(tb)
<1> DEFINE S == Covering(tb, row)  f == [s \in S |-> tb[s].z]
<1>1. S \subseteq Used(tb) /\ S \in SUBSET Slot
  BY DEF Covering, Used
<1>2. \A s \in S : f[s] = tb[s].z /\ f[s] \in Int
  BY <1>1, WindowFields
<1>3. PICK s \in S : \A r \in S : f[r] <= f[s]
  <2> HIDE DEF f, S
  <2>1. IsFiniteSet(S) /\ S # {}
    BY <1>1, SlotsFinite DEF S
  <2> QED  BY <1>2, <2>1, FiniteMaximum
<1>4. \A r \in S : tb[r].z <= tb[s].z
  BY <1>2, <1>3
<1> HIDE DEF f
<1>5. Topmost(tb, S) \in S
  BY <1>3, <1>4 DEF Topmost
<1> QED  BY <1>1, <1>5 DEF FindAt

\* kernel_window_register's slot is free.
LEMMA FreeSlotIs ==
  ASSUME NEW tb, ~Full(tb)
  PROVE  FreeSlot(tb) \in Slot \ Used(tb)
<1>1. Slot \ Used(tb) \in SUBSET Slot /\ Slot \ Used(tb) # {}
  BY DEF Full, Used
<1> QED  BY <1>1, LowestIn DEF FreeSlot

\* kernel_window_send_to_back's new z-order is below every window's.
LEMMA BottomZ ==
  ASSUME NEW tb \in Table, Used(tb) # {}
  PROVE  LET low == CHOOSE z \in {tb[s].z : s \in Used(tb)} :
                      \A s \in Used(tb) : z <= tb[s].z
         IN  low \in Int /\ \A s \in Used(tb) : low <= tb[s].z
<1> DEFINE f == [s \in Used(tb) |-> -tb[s].z]
<1>1. \A s \in Used(tb) : f[s] = -tb[s].z /\ f[s] \in Int /\ tb[s].z \in Int
  <2>1. \A s \in Used(tb) : tb[s].z \in Int
    BY WindowFields
  <2>2. \A s \in Used(tb) : f[s] = -tb[s].z
    OBVIOUS
  <2> QED  BY <2>1, <2>2
<1>2. PICK s \in Used(tb) : \A r \in Used(tb) : f[r] <= f[s]
  <2> HIDE DEF f
  <2>1. IsFiniteSet(Used(tb))
    BY SlotsFinite DEF Used
  <2> QED  BY <1>1, <2>1, FiniteMaximum
<1>3. \A r \in Used(tb) : tb[s].z <= tb[r].z
  BY <1>1, <1>2
<1>4. \E z \in {tb[r].z : r \in Used(tb)} : \A r \in Used(tb) : z <= tb[r].z
  BY <1>3
<1> QED  BY <1>1, <1>4

----------------------------------------------------------------------------
(* The inductive invariant.                                                *)

Queues == {q \in [Task -> Seq(Event)] : \A t \in Task : Len(q[t]) <= QLen}

\* Every window begins on the screen: a finger can be put on any title row.
RowsOnScreen == \A s \in Used(tab) : tab[s].row \in Row

\* Focus given to a task before its clear_focus does not outlive that.
FocusKnown ==
  focus # NoTask => late \/ phase[focus] \in {"run", "ended", "unregistered"}

\* An app whose spawner has still to register it has only just started: its
\* script runs, it was sent nothing, no finger is on it, and one call alone
\* will give it its window.
Fresh ==
  /\ \A t \in Task : BeingSpawned(t) =>
       /\ phase[t] = "run" /\ app[t] \in Apps
       /\ ~HasWindow(tab, t) /\ queue[t] = <<>> /\ t \notin down
  /\ \A p, r \in Task :
       /\ job[p].call \in {"register", "fill"} /\ job[r].call \in {"register", "fill"}
       /\ job[p].task = job[r].task
       => p = r

\* A handle nobody has: its queue is deleted and no finger is on it.
Gone == \A t \in Task : phase[t] = "none" => queue[t] = <<>> /\ t \notin down

\* StrictZOrder's second conjunct.
ZStrict ==
  ~torn => /\ \A r, s \in Used(tab) : r # s => tab[r].z # tab[s].z
           /\ \A s \in Used(tab) : tab[s].z < nextZ

RouterInv ==
  /\ TypeOK /\ RowsOnScreen /\ OneGesture /\ OneEach(tab) /\ ZStrict
  /\ LiveQueues /\ FocusKnown /\ CaptureKept /\ TitlesReachable
  /\ Fresh /\ Gone

\* A boot with only the desktop satisfies the invariant.
LEMMA RouterInit == Init => RouterInv
<1> SUFFICES ASSUME Init PROVE RouterInv
  OBVIOUS
<1> USE RouterAssumption, TableAssumption
<1>1. tab \in Table /\ Used(tab) = {1}
      /\ tab[1] = [used |-> TRUE, task |-> Desktop, app |-> 1, z |-> 1,
                   row |-> 0, h |-> Rows + 1, closable |-> FALSE]
  <2>1. 1 \in Slot /\ 1 \in Apps
    BY DEF Slot, Apps
  <2> QED  BY <2>1 DEF Init, Table, Used, Window, Free
<1>2. queue \in Queues /\ \A t \in Task : queue[t] = <<>>
  BY DEF Init, Queues
<1>3. phase \in [Task -> {"none", "run", "ended", "unregistered", "unfocused"}]
      /\ app \in [Task -> 0 .. MaxApps] /\ job \in [Task -> Job]
      /\ \A t \in Task : job[t].call = "none"
  BY DEF Init, Job, Idle
<1>4. TypeOK
  <2>1. nextZ \in Nat /\ lastRow \in Row /\ started \in Apps
    BY DEF Init, Row, Apps
  <2> QED  BY <1>1, <1>2, <1>3, <2>1 DEF Init, TypeOK, Queues, Table, Handle
<1>5. RowsOnScreen /\ OneEach(tab) /\ TitlesReachable /\ ZStrict
  BY <1>1 DEF Init, RowsOnScreen, OneEach, TitlesReachable, ZStrict, Row
<1>6. LiveQueues
  BY <1>1 DEF Init, LiveQueues
<1>7. OneGesture /\ FocusKnown /\ CaptureKept
  BY DEF Init, OneGesture, FocusKnown, CaptureKept
<1>8. Fresh /\ Gone
  BY <1>2, <1>3 DEF Init, Fresh, Gone, BeingSpawned
<1> QED  BY <1>4, <1>5, <1>6, <1>7, <1>8 DEF RouterInv

----------------------------------------------------------------------------
(* What a step may do to the windows, the queues and the focus.            *)

\* Windows may go and move, and their z-orders change; none appears.
Shrunk ==
  /\ tab' \in Table
  /\ \A s \in Used(tab') :
       /\ s \in Used(tab)
       /\ tab'[s].task = tab[s].task /\ tab'[s].app = tab[s].app
       /\ tab'[s].closable = tab[s].closable
       /\ tab'[s].row \in Row /\ (tab'[s].closable => tab'[s].row >= STRIP_H)

\* Then what is said of every window still holds.
LEMMA ShrunkKeeps ==
  ASSUME RouterInv, Shrunk
  PROVE  /\ RowsOnScreen' /\ OneEach(tab)' /\ TitlesReachable'
         /\ \A t : HasWindow(tab', t) => HasWindow(tab, t)
<1>1. \A t : HasWindow(tab', t) => HasWindow(tab, t)
  BY DEF Shrunk, HasWindow, Owned
<1>2. OneEach(tab)'
  BY DEF Shrunk, RouterInv, OneEach
<1> QED  BY <1>1, <1>2 DEF Shrunk, RowsOnScreen, TitlesReachable

\* A table left alone has shrunk, by nothing.
LEMMA SameShrunk ==
  ASSUME RouterInv, tab' = tab
  PROVE  Shrunk
BY DEF Shrunk, RouterInv, TypeOK, Table, RowsOnScreen, TitlesReachable

\* Closing or unregistering a window.
LEMMA UnregisteredShrunk ==
  ASSUME RouterInv, NEW t, tab' = Unregistered(tab, t), nextZ' = nextZ, torn' = torn
  PROVE  Shrunk /\ ~HasWindow(tab', t) /\ ZStrict'
<1>1. tab \in Table /\ OneEach(tab)
  BY DEF RouterInv, TypeOK, Table
<1>2. /\ tab' \in Table /\ Used(tab') = Used(tab) \ Owned(tab, t)
      /\ \A s \in Used(tab) \ Owned(tab, t) : tab'[s] = tab[s]
  BY <1>1, UnregisteredIs
<1>3. Shrunk
  BY <1>2 DEF Shrunk, RouterInv, RowsOnScreen, TitlesReachable
<1>4. ~HasWindow(tab', t)
  BY <1>2 DEF HasWindow, Owned
<1>5. ZStrict'
  BY <1>2 DEF RouterInv, ZStrict
<1> QED  BY <1>3, <1>4, <1>5

\* A new z-order for one window.
LEMMA NewZShrunk ==
  ASSUME RouterInv, NEW s \in Used(tab), NEW z \in Int, tab' = [tab EXCEPT ![s].z = z]
  PROVE  /\ Shrunk /\ Used(tab') = Used(tab) /\ tab'[s].z = z
         /\ \A r \in Used(tab) : r # s => tab'[r].z = tab[r].z
<1>1. tab \in Table /\ tab[s] \in Window(Apps) /\ s \in Slot
  BY WindowFields DEF RouterInv, TypeOK, Table
<1>2. /\ [tab[s] EXCEPT !.z = z] \in Window(Apps)
      /\ [tab[s] EXCEPT !.z = z].z = z
      /\ [tab[s] EXCEPT !.z = z].used = tab[s].used
      /\ [tab[s] EXCEPT !.z = z].task = tab[s].task
      /\ [tab[s] EXCEPT !.z = z].app = tab[s].app
      /\ [tab[s] EXCEPT !.z = z].closable = tab[s].closable
      /\ [tab[s] EXCEPT !.z = z].row = tab[s].row
  BY <1>1 DEF Window
<1>3. tab'[s] = [tab[s] EXCEPT !.z = z] /\ \A r \in Slot : r # s => tab'[r] = tab[r]
  BY <1>1 DEF Table
<1>4. tab' \in Table
  BY <1>1, <1>2 DEF Table
<1>5. Used(tab') = Used(tab)
  BY <1>2, <1>3 DEF Used
<1>6. \A r \in Used(tab) : tab[r].row \in Row /\ (tab[r].closable => tab[r].row >= STRIP_H)
  BY DEF RouterInv, RowsOnScreen, TitlesReachable
<1>7. \A r \in Used(tab) : r \in Slot
  BY DEF Used
<1>8. ASSUME NEW r \in Used(tab)
      PROVE  /\ tab'[r].task = tab[r].task /\ tab'[r].app = tab[r].app
             /\ tab'[r].closable = tab[r].closable /\ tab'[r].row = tab[r].row
  BY <1>2, <1>3, <1>7
<1>9. Shrunk
  BY <1>4, <1>5, <1>6, <1>8 DEF Shrunk
<1> QED  BY <1>2, <1>3, <1>5, <1>7, <1>9

\* A window raised to a z-order taken from the counter: on top of all when the
\* counter still says so.
LEMMA RaisedShrunk ==
  ASSUME RouterInv, NEW s \in Slot, NEW z \in Nat,
         tab' = Raised(tab, s, z), Given(z)
  PROVE  Shrunk /\ ZStrict' /\ nextZ' \in Nat /\ torn' \in BOOLEAN
<1>1. nextZ' \in Nat /\ torn' \in BOOLEAN
  BY DEF Given, RouterInv, TypeOK
<1>2. CASE tab[s].used
  <2>1. s \in Used(tab) /\ tab' = [tab EXCEPT ![s].z = z]
    BY <1>2 DEF Raised, Used
  <2>2. /\ Shrunk /\ Used(tab') = Used(tab) /\ tab'[s].z = z
        /\ \A r \in Used(tab) : r # s => tab'[r].z = tab[r].z
    <3>1. z \in Int
      OBVIOUS
    <3> QED  BY <2>1, <3>1, NewZShrunk
  <2>3. \A r \in Used(tab) : tab[r].z \in Int
    BY WindowFields DEF RouterInv, TypeOK, Table
  <2>4. ZStrict'
    <3> SUFFICES ASSUME ~torn'
                 PROVE  /\ \A r, u \in Used(tab') : r # u => tab'[r].z # tab'[u].z
                        /\ \A r \in Used(tab') : tab'[r].z < nextZ'
      BY DEF ZStrict
    <3>1. nextZ' = z + 1 /\ nextZ = z /\ ~torn
      BY DEF Given
    <3>2. /\ \A r, u \in Used(tab) : r # u => tab[r].z # tab[u].z
          /\ \A r \in Used(tab) : tab[r].z < z
      BY <3>1 DEF RouterInv, ZStrict
    <3> QED  BY <2>2, <2>3, <3>1, <3>2
  <2> QED  BY <1>1, <2>2, <2>4
<1>3. CASE ~tab[s].used
  <2>1. tab' = tab
    BY <1>3 DEF Raised
  <2>2. \A r \in Used(tab) : tab[r].z \in Int
    BY WindowFields DEF RouterInv, TypeOK, Table
  <2>3. ZStrict'
    <3> SUFFICES ASSUME ~torn'
                 PROVE  /\ \A r, u \in Used(tab) : r # u => tab[r].z # tab[u].z
                        /\ \A r \in Used(tab) : tab[r].z < nextZ'
      BY <2>1 DEF ZStrict
    <3>1. nextZ' = z + 1 /\ nextZ = z /\ ~torn
      BY DEF Given
    <3>2. /\ \A r, u \in Used(tab) : r # u => tab[r].z # tab[u].z
          /\ \A r \in Used(tab) : tab[r].z < z
      BY <3>1 DEF RouterInv, ZStrict
    <3> QED  BY <2>2, <3>1, <3>2
  <2> QED  BY <1>1, <2>1, <2>3, SameShrunk
<1> QED  BY <1>2, <1>3

\* Only tasks have windows.
LEMMA OwnerIsTask ==
  ASSUME RouterInv, NEW t, HasWindow(tab, t)
  PROVE  t \in Task
<1>1. tab \in Table
  BY DEF RouterInv, TypeOK, Table
<1>2. PICK s \in Used(tab) : tab[s].task = t
  BY DEF HasWindow, Owned
<1> QED  BY <1>1, <1>2, WindowFields

\* send_event: a queue within its length, and only a window's.
LEMMA SentIs ==
  ASSUME RouterInv, NEW q \in Queues, NEW t, NEW e \in Event
  PROVE  /\ Sent(q, t, e) \in Queues
         /\ \A u \in Task : ~HasWindow(tab, u) => Sent(q, t, e)[u] = q[u]
<1>1. CASE HasWindow(tab, t) /\ Len(q[t]) < QLen
  <2>1. t \in Task
    BY <1>1, OwnerIsTask
  <2>2. q[t] \in Seq(Event)
    BY <2>1 DEF Queues
  <2>3. Append(q[t], e) \in Seq(Event) /\ Len(Append(q[t], e)) = Len(q[t]) + 1
        /\ Len(q[t]) \in Nat
    BY <2>2
  <2>4. Len(Append(q[t], e)) <= QLen
    BY <1>1, <2>3, RouterAssumption
  <2> QED  BY <1>1, <2>1, <2>3, <2>4 DEF Sent, Queues
<1>2. CASE ~(HasWindow(tab, t) /\ Len(q[t]) < QLen)
  BY <1>2 DEF Sent
<1> QED  BY <1>1, <1>2

\* g_focus_task set, and kernel_router_clear_focus.
LEMMA FocusedIs ==
  ASSUME RouterInv, phase' = phase, NEW t \in Handle, Focused(t) \/ Unfocused(t)
  PROVE  focus' \in Handle /\ late' \in BOOLEAN /\ FocusKnown'
<1>1. ASSUME NEW u \in Handle, Focused(u)
      PROVE  focus' \in Handle /\ late' \in BOOLEAN /\ FocusKnown'
  <2>1. u # NoTask => phase[u] \in {"none", "run", "ended", "unregistered", "unfocused"}
    BY <1>1 DEF RouterInv, TypeOK, Handle
  <2> QED  BY <1>1, <2>1 DEF Focused, FocusKnown
<1>2. CASE Unfocused(t)
  <2>1. CASE focus = t
    BY <1>1, <1>2, <2>1 DEF Unfocused, Handle
  <2>2. CASE focus # t
    BY <1>2, <2>2 DEF Unfocused, focusVars, RouterInv, TypeOK, FocusKnown
  <2> QED  BY <2>1, <2>2
<1> QED  BY <1>1, <1>2

\* Steps that start or end no app's life and register no window: it is enough
\* to look at what they do to the table, the gesture, the queues and the call.
LEMMA QuietStep ==
  ASSUME RouterInv, Shrunk, ZStrict', UNCHANGED lifeVars,
         nextZ' \in Nat, torn' \in BOOLEAN,
         focus' \in Handle, late' \in BOOLEAN, FocusKnown',
         touch' \in Handle, drag' \in Handle, was' \in BOOLEAN, lastRow' \in Row,
         OneGesture', CaptureKept',
         down' \subseteq Task, \A u \in down' : u \in down \/ HasWindow(tab, u),
         queue' \in Queues, \A u \in Task : ~HasWindow(tab, u) => queue'[u] = queue[u],
         job' \in [Task -> Job],
         \A p \in Task : job'[p].call \in {"register", "fill"} =>
           job[p].call \in {"register", "fill"} /\ job'[p].task = job[p].task
  PROVE  RouterInv'
<1>1. /\ RowsOnScreen' /\ OneEach(tab)' /\ TitlesReachable'
      /\ \A t : HasWindow(tab', t) => HasWindow(tab, t)
  BY ShrunkKeeps
<1>2. phase' = phase /\ app' = app /\ started' = started
  BY DEF lifeVars
<1>3. TypeOK'
  BY <1>2 DEF RouterInv, TypeOK, Shrunk, Queues, Table
<1>4. LiveQueues'
  BY <1>2 DEF RouterInv, LiveQueues, Shrunk
<1>5. Fresh'
  <2>1. \A t \in Task : BeingSpawned(t)' => BeingSpawned(t)
    BY DEF BeingSpawned
  <2>2. \A t \in Task : BeingSpawned(t)' =>
           /\ phase'[t] = "run" /\ app'[t] \in Apps
           /\ ~HasWindow(tab', t) /\ queue'[t] = <<>> /\ t \notin down'
    BY <1>1, <1>2, <2>1 DEF RouterInv, Fresh
  <2>3. \A p, r \in Task :
          /\ job'[p].call \in {"register", "fill"} /\ job'[r].call \in {"register", "fill"}
          /\ job'[p].task = job'[r].task
          => p = r
    BY DEF RouterInv, Fresh
  <2> QED  BY <2>2, <2>3 DEF Fresh
<1>6. Gone'
  <2>1. ASSUME NEW t \in Task, phase[t] = "none"
        PROVE  ~HasWindow(tab, t)
    BY <2>1 DEF RouterInv, LiveQueues, HasWindow, Owned
  <2> QED  BY <1>2, <2>1 DEF RouterInv, Gone
<1> QED  BY <1>1, <1>3, <1>4, <1>5, <1>6 DEF RouterInv

----------------------------------------------------------------------------
(* kernel_router_poll, branch by branch.                                   *)

\* What every branch starts from: the queues after the key, and the sample.
Polled(q, at) ==
  /\ q \in Queues /\ \A u \in Task : ~HasWindow(tab, u) => q[u] = queue[u]
  /\ at \in Sample /\ Sampled(at) /\ UNCHANGED <<lifeVars, job>>

\* A finger is on a row of the screen.
LEMMA SampleRow ==
  ASSUME RouterInv, NEW at \in Sample
  PROVE  Pressed(at) => at.row \in Row
<1>1. CASE at = Lifted
  BY <1>1 DEF Pressed
<1>2. CASE at \in [row : Row, dot : {FALSE}]
  BY <1>2
<1>3. CASE at \in [row : {tab[s].row : s \in Used(tab)}, dot : {TRUE}]
  BY <1>3 DEF RouterInv, RowsOnScreen
<1> QED  BY <1>1, <1>2, <1>3 DEF Sample

\* g_was_pressed and g_last_y keep their types.
LEMMA SampledIs ==
  ASSUME RouterInv, NEW q, NEW at, Polled(q, at)
  PROVE  was' = Pressed(at) /\ was' \in BOOLEAN /\ lastRow' \in Row
<1>1. Pressed(at) \in BOOLEAN
  BY DEF Pressed
<1>2. Pressed(at) => at.row \in Row
  BY SampleRow DEF Polled
<1> QED  BY <1>1, <1>2 DEF Polled, Sampled, RouterInv, TypeOK

\* A touch event changes the queue and the history of a task with a window.
LEMMA TouchedIs ==
  ASSUME RouterInv, NEW q, NEW at, Polled(q, at), NEW t, Touched(q, t, at)
  PROVE  /\ queue' \in Queues
         /\ \A u \in Task : ~HasWindow(tab, u) => queue'[u] = queue[u]
         /\ down' \subseteq Task
         /\ \A u \in down' : u \in down \/ (u = t /\ HasWindow(tab, u))
         /\ ~Pressed(at) => \A u \in down' : u = t => ~HasWindow(tab, u)
<1>1. Sent(q, t, "input") \in Queues
      /\ \A u \in Task : ~HasWindow(tab, u) => Sent(q, t, "input")[u] = q[u]
  BY SentIs DEF Polled, Event
<1>2. HasWindow(tab, t) => t \in Task
  BY OwnerIsTask
<1> QED  BY <1>1, <1>2 DEF Touched, Polled, RouterInv, TypeOK

\* The window under a press is one of the table's.
LEMMA UnderIs ==
  ASSUME RouterInv, NEW at, Covering(tab, at.row) # {}
  PROVE  /\ FindAt(tab, at.row) \in Used(tab)
         /\ Under(at) \in Task /\ HasWindow(tab, Under(at))
<1>1. FindAt(tab, at.row) \in Used(tab)
  BY FindAtIs DEF RouterInv, TypeOK, Table
<1> QED  BY <1>1, WindowFields DEF Under, HasWindow, Owned, RouterInv, TypeOK, Table

\* kernel_router_activate_window of a window that is there.
LEMMA ActivatedIs ==
  ASSUME RouterInv, phase' = phase, NEW t \in Task, HasWindow(tab, t), Activated(t)
  PROVE  /\ Shrunk /\ ZStrict' /\ nextZ' \in Nat /\ torn' \in BOOLEAN
         /\ focus' \in Handle /\ late' \in BOOLEAN /\ FocusKnown'
<1>1. ByTask(tab, t) \in Slot
  BY ByTaskIs DEF RouterInv, TypeOK, Table, Used
<1>2. nextZ \in Nat /\ torn \in BOOLEAN
  BY DEF RouterInv, TypeOK
<1>3. tab' = Raised(tab, ByTask(tab, t), nextZ) /\ Given(nextZ) /\ Focused(t)
  BY <1>2 DEF Activated, Given
<1>4. Shrunk /\ ZStrict' /\ nextZ' \in Nat /\ torn' \in BOOLEAN
  BY <1>1, <1>2, <1>3, RaisedShrunk
<1> QED  BY <1>3, <1>4, FocusedIs DEF Handle

\* Branches that leave the windows and the focus alone.
LEMMA PollKeepsWindows ==
  ASSUME RouterInv, NEW q, NEW at, Polled(q, at), UNCHANGED <<tableVars, focusVars>>,
         touch' \in Handle, drag' \in Handle, OneGesture', CaptureKept',
         down' \subseteq Task, \A u \in down' : u \in down \/ HasWindow(tab, u),
         queue' \in Queues, \A u \in Task : ~HasWindow(tab, u) => queue'[u] = queue[u]
  PROVE  RouterInv'
<1>1. /\ Shrunk /\ ZStrict' /\ nextZ' \in Nat /\ torn' \in BOOLEAN
      /\ focus' \in Handle /\ late' \in BOOLEAN /\ FocusKnown'
  BY SameShrunk DEF tableVars, focusVars, Polled, lifeVars, RouterInv, TypeOK, ZStrict,
                    FocusKnown
<1>2. was' \in BOOLEAN /\ lastRow' \in Row
  BY SampledIs
<1>3. job' \in [Task -> Job] /\ job' = job /\ UNCHANGED lifeVars
  BY DEF Polled, RouterInv, TypeOK
<1> QED  BY <1>1, <1>2, <1>3, QuietStep

\* Those of them that send no touch.
LEMMA PollSilent ==
  ASSUME RouterInv, NEW q, NEW at, Polled(q, at), UNCHANGED <<tableVars, focusVars, touch>>,
         drag' \in Handle, Silence(q), OneGesture'
  PROVE  RouterInv'
<1>1. touch' = touch /\ touch' \in Handle /\ down' = down /\ queue' = q /\ tab' = tab
  BY DEF RouterInv, TypeOK, Silence, tableVars
<1>2. CaptureKept'
  BY <1>1 DEF RouterInv, CaptureKept
<1>3. down' \subseteq Task /\ queue' \in Queues
      /\ \A u \in Task : ~HasWindow(tab, u) => queue'[u] = queue[u]
  BY <1>1 DEF Polled, RouterInv, TypeOK
<1> QED  BY <1>1, <1>2, <1>3, PollKeepsWindows

\* The desktop's strip: no gesture is on.
LEMMA StripStep ==
  ASSUME RouterInv, NEW q, NEW at, Polled(q, at), Strip(q, at)
  PROVE  RouterInv'
<1>1. drag = NoTask /\ touch = NoTask /\ drag' = drag /\ touch' = touch
      /\ UNCHANGED <<tableVars, focusVars>>
  BY DEF Strip, InStrip
<1>2. OneGesture' /\ drag' \in Handle /\ touch' \in Handle
  BY <1>1 DEF OneGesture, Handle
<1>3. CASE Silence(q)
  BY <1>1, <1>2, <1>3, PollSilent
<1>4. CASE Touched(q, Desktop, at)
  <2>1. /\ queue' \in Queues
        /\ \A u \in Task : ~HasWindow(tab, u) => queue'[u] = queue[u]
        /\ down' \subseteq Task
        /\ \A u \in down' : u \in down \/ (u = Desktop /\ HasWindow(tab, u))
    BY <1>4, TouchedIs
  <2>2. CaptureKept'
    BY <1>1, <2>1 DEF RouterInv, CaptureKept, tableVars
  <2> QED  BY <1>1, <1>2, <2>1, <2>2, PollKeepsWindows
<1> QED  BY <1>3, <1>4 DEF Strip

\* A drag that ends; a press on nothing.
LEMMA SilentSteps ==
  ASSUME RouterInv, NEW q, NEW at, Polled(q, at), DragEnd(q, at) \/ PressNothing(q, at)
  PROVE  RouterInv'
<1>1. drag' \in Handle /\ Silence(q) /\ UNCHANGED <<tableVars, focusVars, touch>>
  BY DEF DragEnd, PressNothing, Handle, RouterInv, TypeOK
<1>2. touch = NoTask /\ drag' = NoTask
  BY DEF DragEnd, PressNothing, Begins, FreshPress, RouterInv, OneGesture
<1>3. OneGesture'
  BY <1>1, <1>2 DEF OneGesture
<1> QED  BY <1>1, <1>3, PollSilent

\* A window that follows the finger stays below the strip.
LEMMA DragMoveStep ==
  ASSUME RouterInv, NEW q, NEW at, Polled(q, at), DragMove(q, at)
  PROVE  RouterInv'
<1> DEFINE b == ByTask(tab, drag)
           row == IF at.row < STRIP_H THEN STRIP_H ELSE at.row
<1>1. tab \in Table /\ b \in Used(tab) /\ b \in Slot /\ tab[b] \in Window(Apps)
  BY ByTaskIs, WindowFields DEF DragMove, RouterInv, TypeOK, Table
<1>2. row \in Row /\ row >= STRIP_H /\ row \in Nat
  <2>1. at.row \in Row
    BY SampleRow DEF DragMove, Polled
  <2> QED  BY <2>1, RouterAssumption DEF Row, STRIP_H
<1> DEFINE w == [tab[b] EXCEPT !.row = row]
<1>3. tab' = [tab EXCEPT ![b] = w]
  BY DEF DragMove
<1> HIDE DEF b, row
<1>4. /\ w \in Window(Apps) /\ w.used = tab[b].used /\ w.task = tab[b].task
      /\ w.app = tab[b].app /\ w.closable = tab[b].closable /\ w.z = tab[b].z
      /\ w.row = row
  BY <1>1, <1>2 DEF Window
<1> HIDE DEF w
<1>5. tab'[b] = w /\ \A r \in Slot : r # b => tab'[r] = tab[r]
  BY <1>1, <1>3 DEF Table
<1>6. tab' \in Table
  BY <1>1, <1>3, <1>4 DEF Table
<1>7. Used(tab') = Used(tab)
  BY <1>4, <1>5 DEF Used
<1>8. ASSUME NEW r \in Used(tab)
      PROVE  /\ tab'[r].task = tab[r].task /\ tab'[r].app = tab[r].app
             /\ tab'[r].closable = tab[r].closable /\ tab'[r].z = tab[r].z
             /\ tab'[r].row \in Row /\ (tab'[r].closable => tab'[r].row >= STRIP_H)
  <2>1. CASE r = b
    BY <1>2, <1>4, <1>5, <2>1
  <2>2. CASE r # b
    BY <1>5, <2>2 DEF Used, RouterInv, RowsOnScreen, TitlesReachable
  <2> QED  BY <2>1, <2>2
<1>9. Shrunk
  BY <1>6, <1>7, <1>8 DEF Shrunk
<1>10. ZStrict' /\ nextZ' \in Nat /\ torn' \in BOOLEAN
  <2>1. nextZ' = nextZ /\ torn' = torn
    BY DEF DragMove
  <2>2. ZStrict'
    <3> SUFFICES ASSUME ~torn'
                 PROVE  /\ \A r, u \in Used(tab) : r # u => tab'[r].z # tab'[u].z
                        /\ \A r \in Used(tab) : tab'[r].z < nextZ'
      BY <1>7 DEF ZStrict
    <3> QED  BY <1>8, <2>1 DEF RouterInv, ZStrict
  <2> QED  BY <2>1, <2>2 DEF RouterInv, TypeOK
<1>11. /\ focus' \in Handle /\ late' \in BOOLEAN /\ FocusKnown'
       /\ touch' \in Handle /\ drag' \in Handle /\ down' = down /\ down' \subseteq Task
  BY DEF DragMove, Silence, focusVars, Polled, lifeVars, RouterInv, TypeOK, FocusKnown
<1>12. was' \in BOOLEAN /\ lastRow' \in Row /\ OneGesture'
  BY SampledIs DEF DragMove, OneGesture, RouterInv
<1>13. CaptureKept'
  BY <1>9, ShrunkKeeps DEF DragMove, Silence, RouterInv, CaptureKept
<1>14. /\ queue' \in Queues /\ UNCHANGED lifeVars /\ job' \in [Task -> Job] /\ job' = job
       /\ \A u \in Task : ~HasWindow(tab, u) => queue'[u] = queue[u]
  BY DEF DragMove, Silence, Polled, RouterInv, TypeOK
<1> QED  BY <1>9, <1>10, <1>11, <1>12, <1>13, <1>14, QuietStep

\* The close dot: the window goes, and its gesture with it.
LEMMA ClosedIs ==
  ASSUME RouterInv, phase' = phase, NEW q \in Queues, NEW t \in Task, Closed(t, q)
  PROVE  /\ Shrunk /\ ZStrict' /\ nextZ' \in Nat /\ torn' \in BOOLEAN
         /\ focus' \in Handle /\ late' \in BOOLEAN /\ FocusKnown'
         /\ queue' \in Queues /\ \A u \in Task : ~HasWindow(tab, u) => queue'[u] = q[u]
         /\ touch' \in {touch, NoTask} /\ (touch' # touch => ~HasWindow(tab', touch))
<1>1. CASE HasWindow(tab, t)
  <2>1. /\ queue' = Sent(q, t, "close") /\ tab' = Unregistered(tab, t)
        /\ Unfocused(t) /\ touch' = IF touch = t THEN NoTask ELSE touch
        /\ nextZ' = nextZ /\ torn' = torn
    BY <1>1 DEF Closed
  <2>2. Shrunk /\ ~HasWindow(tab', t) /\ ZStrict'
    BY <2>1, UnregisteredShrunk
  <2>3. focus' \in Handle /\ late' \in BOOLEAN /\ FocusKnown'
    BY <2>1, FocusedIs DEF Handle
  <2>4. queue' \in Queues /\ \A u \in Task : ~HasWindow(tab, u) => queue'[u] = q[u]
    BY <2>1, SentIs DEF Event
  <2> QED  BY <2>1, <2>2, <2>3, <2>4 DEF RouterInv, TypeOK
<1>2. CASE ~HasWindow(tab, t)
  <2>1. queue' = q /\ UNCHANGED <<tableVars, focusVars, touch>>
    BY <1>2 DEF Closed
  <2>2. Shrunk /\ ZStrict'
    BY <2>1, SameShrunk DEF tableVars, RouterInv, ZStrict
  <2> QED  BY <2>1, <2>2 DEF tableVars, focusVars, RouterInv, TypeOK, FocusKnown
<1> QED  BY <1>1, <1>2

\* The router closes the window whose dot was pressed; no gesture begins.
LEMMA PressDotStep ==
  ASSUME RouterInv, NEW q, NEW at, Polled(q, at), PressDot(q, at)
  PROVE  RouterInv'
<1>1. /\ Under(at) \in Task /\ Closed(Under(at), q) /\ q \in Queues
      /\ phase' = phase /\ UNCHANGED lifeVars
  BY UnderIs DEF PressDot, Polled, lifeVars
<1>2. /\ Shrunk /\ ZStrict' /\ nextZ' \in Nat /\ torn' \in BOOLEAN
      /\ focus' \in Handle /\ late' \in BOOLEAN /\ FocusKnown'
      /\ queue' \in Queues /\ \A u \in Task : ~HasWindow(tab, u) => queue'[u] = q[u]
      /\ touch' \in {touch, NoTask}
  BY <1>1, ClosedIs
<1>3. touch = NoTask /\ drag' = NoTask /\ touch' = NoTask /\ down' = down
  BY <1>2 DEF PressDot, Begins, FreshPress, RouterInv, OneGesture
<1>4. OneGesture' /\ touch' \in Handle /\ drag' \in Handle
  BY <1>3 DEF OneGesture, Handle
<1>5. CaptureKept'
  BY <1>2, <1>3, ShrunkKeeps DEF RouterInv, CaptureKept
<1>6. was' \in BOOLEAN /\ lastRow' \in Row
  BY SampledIs
<1>7. /\ down' \subseteq Task /\ job' \in [Task -> Job] /\ job' = job
      /\ \A u \in Task : ~HasWindow(tab, u) => queue'[u] = queue[u]
  BY <1>2, <1>3 DEF Polled, RouterInv, TypeOK
<1> QED  BY <1>1, <1>2, <1>3, <1>4, <1>5, <1>6, <1>7, QuietStep

\* A press that activates a window, and begins a drag or a touch.
LEMMA PressStep ==
  ASSUME RouterInv, NEW q, NEW at, Polled(q, at), PressTitle(q, at) \/ PressBody(q, at)
  PROVE  RouterInv'
<1> DEFINE t == Under(at)
<1>1. /\ t \in Task /\ HasWindow(tab, t) /\ Activated(t) /\ Pressed(at)
      /\ drag = NoTask /\ ~was /\ phase' = phase /\ UNCHANGED lifeVars
  BY UnderIs DEF PressTitle, PressBody, Begins, FreshPress, Polled, lifeVars
<1>2. touch = NoTask
  BY <1>1 DEF RouterInv, OneGesture
<1>3. /\ Shrunk /\ ZStrict' /\ nextZ' \in Nat /\ torn' \in BOOLEAN
      /\ focus' \in Handle /\ late' \in BOOLEAN /\ FocusKnown'
  BY <1>1, ActivatedIs
<1>4. was' = TRUE /\ was' \in BOOLEAN /\ lastRow' \in Row
  BY <1>1, SampledIs
<1>5. job' \in [Task -> Job] /\ job' = job
  BY DEF Polled, RouterInv, TypeOK
<1>6. CASE PressTitle(q, at)
  <2>1. drag' = t /\ touch' = NoTask /\ down' = down /\ queue' = q
    BY <1>2, <1>6 DEF PressTitle, Silence
  <2>2. OneGesture' /\ touch' \in Handle /\ drag' \in Handle
    BY <1>1, <1>4, <2>1 DEF OneGesture, Handle
  <2>3. CaptureKept'
    BY <1>2, <1>3, <2>1, ShrunkKeeps DEF RouterInv, CaptureKept
  <2>4. /\ down' \subseteq Task /\ queue' \in Queues
        /\ \A u \in Task : ~HasWindow(tab, u) => queue'[u] = queue[u]
    BY <2>1 DEF Polled, RouterInv, TypeOK
  <2> QED  BY <1>1, <1>3, <1>4, <1>5, <2>1, <2>2, <2>3, <2>4, QuietStep
<1>7. CASE PressBody(q, at)
  <2>1. drag' = NoTask /\ touch' = t /\ Touched(q, t, at)
    BY <1>1, <1>7 DEF PressBody
  <2>2. OneGesture' /\ touch' \in Handle /\ drag' \in Handle
    BY <1>1, <1>4, <2>1 DEF OneGesture, Handle
  <2>3. /\ queue' \in Queues
        /\ \A u \in Task : ~HasWindow(tab, u) => queue'[u] = queue[u]
        /\ down' \subseteq Task
        /\ \A u \in down' : u \in down \/ (u = t /\ HasWindow(tab, u))
    BY <2>1, TouchedIs
  <2>4. CaptureKept'
    <3> SUFFICES ASSUME NEW u \in down', HasWindow(tab', u)
                 PROVE  u \in {touch', Desktop}
      BY DEF CaptureKept
    <3>1. HasWindow(tab, u) /\ u \in Task
      BY <1>3, <2>3, ShrunkKeeps
    <3>2. u \in down => u \in {touch, Desktop}
      BY <3>1 DEF RouterInv, CaptureKept
    <3>3. u # NoTask
      BY <3>1, TableAssumption
    <3> QED  BY <1>2, <2>1, <2>3, <3>2, <3>3
  <2> QED  BY <1>1, <1>3, <1>4, <1>5, <2>1, <2>2, <2>3, <2>4, QuietStep
<1> QED  BY <1>6, <1>7

\* A finger held or lifted: for the owner of the gesture, or for nobody.
LEMMA GestureStep ==
  ASSUME RouterInv, NEW q, NEW at, Polled(q, at), Held(q, at) \/ Lift(q, at)
  PROVE  RouterInv'
<1>1. was' = Pressed(at) /\ drag = NoTask /\ drag' = drag /\ UNCHANGED <<tableVars, focusVars>>
  BY DEF Held, Lift, Continues, Polled, Sampled
<1>2. drag' \in Handle
  BY <1>1 DEF Handle
<1>3. CASE Touched(q, touch, at) /\ touch' = IF Pressed(at) THEN touch ELSE NoTask
  <2>1. OneGesture' /\ touch' \in Handle
    BY <1>1, <1>3 DEF OneGesture, Handle, RouterInv, TypeOK
  <2>2. /\ queue' \in Queues
        /\ \A u \in Task : ~HasWindow(tab, u) => queue'[u] = queue[u]
        /\ down' \subseteq Task
        /\ \A u \in down' : u \in down \/ (u = touch /\ HasWindow(tab, u))
        /\ ~Pressed(at) => \A u \in down' : u = touch => ~HasWindow(tab, u)
    BY <1>3, TouchedIs
  <2>3. CaptureKept'
    <3> SUFFICES ASSUME NEW u \in down', HasWindow(tab', u)
                 PROVE  u \in {touch', Desktop}
      BY DEF CaptureKept
    <3>1. HasWindow(tab, u)
      BY <1>1 DEF tableVars
    <3>2. u \in {touch, Desktop}
      BY <2>2, <3>1 DEF RouterInv, CaptureKept
    <3> QED  BY <1>3, <2>2, <3>1, <3>2
  <2> QED  BY <1>1, <1>2, <2>1, <2>2, <2>3, PollKeepsWindows
<1>4. CASE Silence(q) /\ UNCHANGED touch /\ ~was
  <2>1. OneGesture'
    BY <1>1, <1>4 DEF OneGesture, RouterInv
  <2> QED  BY <1>1, <1>2, <1>4, <2>1, PollSilent
<1> QED  BY <1>3, <1>4 DEF Held, Lift

\* The router's poll keeps the invariant.
LEMMA PollStep ==
  ASSUME RouterInv, Poll
  PROVE  RouterInv'
<1>1. PICK key \in {FALSE, focus # NoTask}, at \in Sample :
        LET q == AfterKey(key) IN
          /\ Sampled(at)
          /\ \/ Strip(q, at) \/ DragEnd(q, at) \/ DragMove(q, at)
             \/ PressNothing(q, at) \/ PressDot(q, at)
             \/ PressTitle(q, at) \/ PressBody(q, at)
             \/ Held(q, at) \/ Lift(q, at)
          /\ UNCHANGED <<lifeVars, job>>
  BY DEF Poll
<1> DEFINE q == AfterKey(key)
<1>2. queue \in Queues
  BY DEF RouterInv, TypeOK, Queues
<1>3. q \in Queues /\ \A u \in Task : ~HasWindow(tab, u) => q[u] = queue[u]
  BY <1>2, SentIs DEF AfterKey, Event
<1>4. Polled(q, at)
  BY <1>1, <1>3 DEF Polled
<1> HIDE DEF q
<1> QED  BY <1>1, <1>4, StripStep, SilentSteps, DragMoveStep, PressDotStep, PressStep,
            GestureStep DEF q

----------------------------------------------------------------------------
(* The calls of the apps' scripts.                                         *)

\* What a call in progress carries.
LEMMA JobFields ==
  ASSUME RouterInv, NEW t \in Task
  PROVE  /\ job[t].call \in {"register", "activate", "close"} => job[t].task \in Task
         /\ job[t].call \in {"fill", "raise"} =>
              job[t].task \in Task /\ job[t].slot \in Slot /\ job[t].z \in Nat
<1>1. job[t] \in Job
  BY DEF RouterInv, TypeOK
<1> QED  BY <1>1 DEF Job, Idle

\* The gesture and the fingers, as they were: what most calls leave alone.
LEMMA GestureKept ==
  ASSUME RouterInv, Shrunk, UNCHANGED gestureVars
  PROVE  /\ touch' \in Handle /\ drag' \in Handle /\ was' \in BOOLEAN /\ lastRow' \in Row
         /\ OneGesture' /\ CaptureKept' /\ down' = down /\ down' \subseteq Task
<1>1. touch' = touch /\ drag' = drag /\ was' = was /\ lastRow' = lastRow /\ down' = down
  BY DEF gestureVars
<1>2. CaptureKept'
  BY <1>1, ShrunkKeeps DEF RouterInv, CaptureKept
<1> QED  BY <1>1, <1>2 DEF RouterInv, TypeOK, OneGesture

\* A step of one call that leaves table, gesture and queues alone.
LEMMA JobStep ==
  ASSUME RouterInv, NEW t \in Task, NEW j \in Job, job' = [job EXCEPT ![t] = j],
         j.call \in {"register", "fill"} =>
           job[t].call \in {"register", "fill"} /\ j.task = job[t].task,
         UNCHANGED <<tableVars, gestureVars, queue, lifeVars>>,
         focus' \in Handle, late' \in BOOLEAN, FocusKnown'
  PROVE  RouterInv'
<1>1. Shrunk /\ ZStrict' /\ nextZ' \in Nat /\ torn' \in BOOLEAN
  BY SameShrunk DEF tableVars, RouterInv, ZStrict, TypeOK
<1>2. /\ touch' \in Handle /\ drag' \in Handle /\ was' \in BOOLEAN /\ lastRow' \in Row
      /\ OneGesture' /\ CaptureKept' /\ down' = down /\ down' \subseteq Task
  BY <1>1, GestureKept
<1>3. queue' = queue /\ queue' \in Queues
  BY DEF RouterInv, TypeOK, Queues
<1>4. /\ job \in [Task -> Job] /\ job' \in [Task -> Job] /\ job'[t] = j
      /\ \A p \in Task : p # t => job'[p] = job[p]
  BY DEF RouterInv, TypeOK
<1>5. \A p \in Task : job'[p].call \in {"register", "fill"} =>
        job[p].call \in {"register", "fill"} /\ job'[p].task = job[p].task
  BY <1>4
<1> QED  BY <1>1, <1>2, <1>3, <1>4, <1>5, QuietStep

\* The calls that only go on to their next part.
LEMMA CallSteps ==
  ASSUME RouterInv, NEW t \in Task,
         FindToActivate(t) \/ FindToClose(t) \/ BeginSpawn(t) \/ CreateFails(t) \/ Register(t)
  PROVE  RouterInv'
<1>1. /\ UNCHANGED <<tableVars, gestureVars, queue, lifeVars>>
      /\ focus' \in Handle /\ late' \in BOOLEAN /\ FocusKnown'
  BY DEF FindToActivate, FindToClose, BeginSpawn, CreateFails, Register, focusVars, lifeVars,
         RouterInv, TypeOK, FocusKnown
<1>2. CASE FindToActivate(t) \/ FindToClose(t)
  <2>1. PICK s \in Used(tab) : \/ job' = [job EXCEPT ![t] = [call |-> "activate", task |-> tab[s].task]]
                               \/ job' = [job EXCEPT ![t] = [call |-> "close", task |-> tab[s].task]]
    BY <1>2 DEF FindToActivate, FindToClose
  <2>2. tab[s].task \in Task
    BY WindowFields DEF RouterInv, TypeOK, Table
  <2>3. /\ [call |-> "activate", task |-> tab[s].task] \in Job
        /\ [call |-> "close", task |-> tab[s].task] \in Job
    BY <2>2 DEF Job
  <2> QED  BY <1>1, <2>1, <2>3, JobStep
<1>3. CASE BeginSpawn(t) \/ CreateFails(t)
  <2>1. [call |-> "create"] \in Job /\ Idle \in Job /\ Idle.call = "none"
    BY DEF Job, Idle
  <2> QED  BY <1>1, <1>3, <2>1, JobStep DEF BeginSpawn, CreateFails
<1>4. CASE Register(t)
  <2> DEFINE c == job[t].task
  <2>1. c \in Task /\ job[t].call = "register" /\ nextZ \in Nat
    BY <1>4, JobFields DEF Register, RouterInv, TypeOK
  <2>2. CASE Full(tab)
    <3>1. [call |-> "activate", task |-> c] \in Job
      BY <2>1 DEF Job
    <3>2. job' = [job EXCEPT ![t] = [call |-> "activate", task |-> c]]
      BY <1>4, <2>2 DEF Register
    <3> QED  BY <1>1, <3>1, <3>2, JobStep
  <2>3. CASE ~Full(tab)
    <3> DEFINE j == [call |-> "fill", task |-> c, slot |-> FreeSlot(tab), z |-> nextZ]
    <3>1. j \in Job
      BY <2>1, <2>3, FreeSlotIs DEF Job
    <3>2. job' = [job EXCEPT ![t] = j] /\ j.task = job[t].task
      BY <1>4, <2>3 DEF Register
    <3> HIDE DEF j
    <3> QED  BY <1>1, <2>1, <3>1, <3>2, JobStep
  <2> QED  BY <2>2, <2>3
<1> QED  BY <1>2, <1>3, <1>4

\* kernel_router_activate_window, first half: the window found, or its task
\* given the focus without one.
LEMMA ActivateStep ==
  ASSUME RouterInv, NEW t \in Task, Activate(t)
  PROVE  RouterInv'
<1> DEFINE c == job[t].task
<1>1. c \in Task /\ nextZ \in Nat /\ phase' = phase
  BY JobFields DEF Activate, lifeVars, RouterInv, TypeOK
<1>2. CASE HasWindow(tab, c)
  <2> DEFINE j == [call |-> "raise", task |-> c, slot |-> ByTask(tab, c), z |-> nextZ]
  <2>1. ByTask(tab, c) \in Slot
    BY <1>2, ByTaskIs DEF RouterInv, TypeOK, Table, Used
  <2>2. j \in Job /\ j.call = "raise"
    BY <1>1, <2>1 DEF Job
  <2>3. job' = [job EXCEPT ![t] = j] /\ UNCHANGED focusVars
    BY <1>2 DEF Activate
  <2>4. focus' \in Handle /\ late' \in BOOLEAN /\ FocusKnown'
    BY <1>1, <2>3 DEF focusVars, RouterInv, TypeOK, FocusKnown
  <2> HIDE DEF j
  <2> QED  BY <2>2, <2>3, <2>4, JobStep DEF Activate
<1>3. CASE ~HasWindow(tab, c)
  <2>1. job' = [job EXCEPT ![t] = Idle] /\ Focused(c)
    BY <1>3 DEF Activate
  <2>2. focus' \in Handle /\ late' \in BOOLEAN /\ FocusKnown'
    BY <1>1, <2>1, FocusedIs DEF Handle
  <2>3. Idle \in Job /\ Idle.call = "none"
    BY DEF Job, Idle
  <2> QED  BY <2>1, <2>2, <2>3, JobStep DEF Activate
<1> QED  BY <1>2, <1>3

\* ... second half: the store, whatever the slot holds by now.
LEMMA RaiseStep ==
  ASSUME RouterInv, NEW t \in Task, Raise(t)
  PROVE  RouterInv'
<1>1. job[t].task \in Task /\ job[t].slot \in Slot /\ job[t].z \in Nat
  BY JobFields DEF Raise
<1>2. Shrunk /\ ZStrict' /\ nextZ' \in Nat /\ torn' \in BOOLEAN
  BY <1>1, RaisedShrunk DEF Raise
<1>3. focus' \in Handle /\ late' \in BOOLEAN /\ FocusKnown'
  BY <1>1, FocusedIs DEF Raise, lifeVars, Handle
<1>4. /\ touch' \in Handle /\ drag' \in Handle /\ was' \in BOOLEAN /\ lastRow' \in Row
      /\ OneGesture' /\ CaptureKept' /\ down' = down /\ down' \subseteq Task
  BY <1>2, GestureKept DEF Raise
<1>5. queue' = queue /\ queue' \in Queues /\ UNCHANGED lifeVars
  BY DEF Raise, RouterInv, TypeOK, Queues
<1>6. /\ job' \in [Task -> Job]
      /\ \A p \in Task : job'[p].call \in {"register", "fill"} =>
           job[p].call \in {"register", "fill"} /\ job'[p].task = job[p].task
  <2>1. job \in [Task -> Job] /\ Idle \in Job /\ Idle.call = "none"
    BY DEF RouterInv, TypeOK, Job, Idle
  <2>2. job' = [job EXCEPT ![t] = Idle]
    BY DEF Raise
  <2> QED  BY <2>1, <2>2
<1> QED  BY <1>2, <1>3, <1>4, <1>5, <1>6, QuietStep

\* acid_close_window's window goes; the owner of a gesture in it with it.
LEMMA CloseStep ==
  ASSUME RouterInv, NEW t \in Task, Close(t)
  PROVE  RouterInv'
<1>1. job[t].task \in Task /\ queue \in Queues /\ phase' = phase /\ UNCHANGED lifeVars
  BY JobFields DEF Close, lifeVars, RouterInv, TypeOK, Queues
<1>2. /\ Shrunk /\ ZStrict' /\ nextZ' \in Nat /\ torn' \in BOOLEAN
      /\ focus' \in Handle /\ late' \in BOOLEAN /\ FocusKnown'
      /\ queue' \in Queues /\ \A u \in Task : ~HasWindow(tab, u) => queue'[u] = queue[u]
      /\ touch' \in {touch, NoTask} /\ (touch' # touch => ~HasWindow(tab', touch))
  BY <1>1, ClosedIs DEF Close
<1>3. drag' = drag /\ was' = was /\ lastRow' = lastRow /\ down' = down
  BY DEF Close
<1>4. /\ touch' \in Handle /\ drag' \in Handle /\ was' \in BOOLEAN /\ lastRow' \in Row
      /\ down' \subseteq Task
  BY <1>2, <1>3 DEF RouterInv, TypeOK, Handle
<1>5. OneGesture'
  BY <1>2, <1>3 DEF RouterInv, OneGesture
<1>6. CaptureKept'
  <2> SUFFICES ASSUME NEW u \in down', HasWindow(tab', u)
               PROVE  u \in {touch', Desktop}
    BY DEF CaptureKept
  <2>1. u \in {touch, Desktop}
    BY <1>2, <1>3, ShrunkKeeps DEF RouterInv, CaptureKept
  <2> QED  BY <1>2, <2>1
<1>7. /\ job' \in [Task -> Job]
      /\ \A p \in Task : job'[p].call \in {"register", "fill"} =>
           job[p].call \in {"register", "fill"} /\ job'[p].task = job[p].task
  <2>1. job \in [Task -> Job] /\ Idle \in Job /\ Idle.call = "none"
    BY DEF RouterInv, TypeOK, Job, Idle
  <2>2. job' = [job EXCEPT ![t] = Idle]
    BY DEF Close
  <2> QED  BY <2>1, <2>2
<1> QED  BY <1>1, <1>2, <1>3, <1>4, <1>5, <1>6, <1>7, QuietStep

\* The desktop goes below every other window.
LEMMA SendSelfToBackStep ==
  ASSUME RouterInv, NEW t \in Task, SendSelfToBack(t)
  PROVE  RouterInv'
<1> DEFINE low == CHOOSE z \in {tab[s].z : s \in Used(tab)} :
                    \A s \in Used(tab) : z <= tab[s].z
           b == ByTask(tab, t)
<1>1. tab \in Table /\ b \in Used(tab)
  BY ByTaskIs DEF SendSelfToBack, RouterInv, TypeOK, Table
<1>2. low \in Int /\ \A s \in Used(tab) : low <= tab[s].z
  BY <1>1, BottomZ
<1>3. tab' = [tab EXCEPT ![b].z = low - 1]
  BY DEF SendSelfToBack, SentToBack
<1> HIDE DEF low, b
<1>4. low - 1 \in Int
  BY <1>2
<1>5. /\ Shrunk /\ Used(tab') = Used(tab) /\ tab'[b].z = low - 1
      /\ \A r \in Used(tab) : r # b => tab'[r].z = tab[r].z
  BY <1>1, <1>3, <1>4, NewZShrunk
<1>6. nextZ' = nextZ /\ torn' = torn /\ nextZ \in Nat /\ torn \in BOOLEAN
  BY DEF SendSelfToBack, RouterInv, TypeOK
<1>7. ZStrict'
  <2> SUFFICES ASSUME ~torn'
               PROVE  /\ \A r, u \in Used(tab) : r # u => tab'[r].z # tab'[u].z
                      /\ \A r \in Used(tab) : tab'[r].z < nextZ'
    BY <1>5 DEF ZStrict
  <2>1. /\ \A r, u \in Used(tab) : r # u => tab[r].z # tab[u].z
        /\ \A r \in Used(tab) : tab[r].z < nextZ
    BY <1>6 DEF RouterInv, ZStrict
  <2>2. \A r \in Used(tab) : tab[r].z \in Int
    BY <1>1, WindowFields
  <2>3. low < nextZ
    BY <1>1, <1>2, <1>6, <2>1, <2>2
  <2> QED  BY <1>1, <1>2, <1>5, <1>6, <2>1, <2>2, <2>3
<1>8. /\ touch' \in Handle /\ drag' \in Handle /\ was' \in BOOLEAN /\ lastRow' \in Row
      /\ OneGesture' /\ CaptureKept' /\ down' = down /\ down' \subseteq Task
  BY <1>5, GestureKept DEF SendSelfToBack
<1>9. /\ focus' \in Handle /\ late' \in BOOLEAN /\ FocusKnown' /\ UNCHANGED lifeVars
      /\ queue' = queue /\ queue' \in Queues /\ job' = job /\ job' \in [Task -> Job]
  BY DEF SendSelfToBack, focusVars, lifeVars, RouterInv, TypeOK, FocusKnown, Queues
<1> QED  BY <1>5, <1>6, <1>7, <1>8, <1>9, QuietStep

----------------------------------------------------------------------------
(* The life of an app.                                                     *)

Phases == {"none", "run", "ended", "unregistered", "unfocused"}

\* A step of one task's life that gives it no window.
LEMMA LifeStep ==
  ASSUME RouterInv, NEW t \in Task, NEW p \in Phases,
         phase[t] # "none", phase' = [phase EXCEPT ![t] = p],
         p # "run" => ~BeingSpawned(t),
         HasWindow(tab', t) => p \in {"run", "ended"} /\ app'[t] = app[t],
         Shrunk, ZStrict', UNCHANGED <<nextZ, torn, touch, drag, was, lastRow, started, job>>,
         focus' \in Handle, late' \in BOOLEAN, FocusKnown',
         app' \in [Task -> 0 .. MaxApps],
         p = "run" => app'[t] = app[t],
         queue' \in Queues, BeingSpawned(t) => queue'[t] = <<>>, down' \subseteq down,
         p = "none" => queue'[t] = <<>> /\ t \notin down',
         \A u \in Task : u # t => queue'[u] = queue[u] /\ app'[u] = app[u]
  PROVE  RouterInv'
<1>1. /\ RowsOnScreen' /\ OneEach(tab)' /\ TitlesReachable'
      /\ \A u : HasWindow(tab', u) => HasWindow(tab, u)
  BY ShrunkKeeps
<1>2. /\ phase \in [Task -> Phases] /\ phase' \in [Task -> Phases] /\ phase'[t] = p
      /\ \A u \in Task : u # t => phase'[u] = phase[u]
  BY DEF RouterInv, TypeOK, Phases
<1>3. /\ nextZ' = nextZ /\ torn' = torn /\ touch' = touch /\ drag' = drag /\ was' = was
      /\ lastRow' = lastRow /\ started' = started /\ job' = job
  OBVIOUS
<1>4. TypeOK'
  <2>1. tab' \in [Slot -> Window(Apps) \cup {Free}]
    BY DEF Shrunk, Table
  <2>2. queue' \in [Task -> Seq(Event)] /\ \A u \in Task : Len(queue'[u]) <= QLen
    BY DEF Queues
  <2>3. phase' \in [Task -> {"none", "run", "ended", "unregistered", "unfocused"}]
    BY <1>2 DEF Phases
  <2> QED  BY <1>3, <2>1, <2>2, <2>3 DEF RouterInv, TypeOK
<1>5. OneGesture' /\ CaptureKept'
  <2>1. OneGesture'
    BY <1>3 DEF RouterInv, OneGesture
  <2>2. CaptureKept'
    BY <1>1, <1>3 DEF RouterInv, CaptureKept
  <2> QED  BY <2>1, <2>2
<1>6. LiveQueues'
  <2> SUFFICES ASSUME NEW s \in Used(tab')
               PROVE  phase'[tab'[s].task] \in {"run", "ended"}
                      /\ app'[tab'[s].task] = tab'[s].app
    BY DEF LiveQueues
  <2>1. s \in Used(tab) /\ tab'[s].task = tab[s].task /\ tab'[s].app = tab[s].app
    BY DEF Shrunk
  <2>2. /\ phase[tab[s].task] \in {"run", "ended"} /\ app[tab[s].task] = tab[s].app
        /\ tab[s].task \in Task
    <3>1. tab[s].task \in Task
      BY <2>1, WindowFields DEF RouterInv, TypeOK, Table
    <3> QED  BY <2>1, <3>1 DEF RouterInv, LiveQueues
  <2>3. CASE tab[s].task = t
    <3>1. HasWindow(tab', t)
      BY <2>1, <2>3 DEF HasWindow, Owned
    <3> QED  BY <1>2, <2>1, <2>2, <2>3, <3>1
  <2>4. CASE tab[s].task # t
    BY <1>2, <2>1, <2>2, <2>4
  <2> QED  BY <2>3, <2>4
<1>7. Fresh'
  <2>1. \A u \in Task : BeingSpawned(u)' = BeingSpawned(u)
    BY <1>3 DEF BeingSpawned
  <2>2. ASSUME NEW u \in Task, BeingSpawned(u)
        PROVE  /\ phase'[u] = "run" /\ app'[u] \in Apps
               /\ ~HasWindow(tab', u) /\ queue'[u] = <<>> /\ u \notin down'
    <3>1. /\ phase[u] = "run" /\ app[u] \in Apps
          /\ ~HasWindow(tab, u) /\ queue[u] = <<>> /\ u \notin down
      BY <2>2 DEF RouterInv, Fresh
    <3>2. CASE u = t
      BY <1>1, <1>2, <2>2, <3>1, <3>2
    <3>3. CASE u # t
      BY <1>1, <1>2, <3>1, <3>3
    <3> QED  BY <3>2, <3>3
  <2>3. \A r, v \in Task :
          /\ job'[r].call \in {"register", "fill"} /\ job'[v].call \in {"register", "fill"}
          /\ job'[r].task = job'[v].task
          => r = v
    BY <1>3 DEF RouterInv, Fresh
  <2> QED  BY <2>1, <2>2, <2>3 DEF Fresh
<1>8. Gone'
  <2>1. \A u \in Task : phase[u] = "none" => queue[u] = <<>> /\ u \notin down
    BY DEF RouterInv, Gone
  <2> QED  BY <1>2, <2>1 DEF Gone
<1> QED  BY <1>1, <1>4, <1>5, <1>6, <1>7, <1>8 DEF RouterInv

\* The focus, when a task goes on with its cleanup.
LEMMA FocusStays ==
  ASSUME RouterInv, UNCHANGED focusVars, NEW t \in Task, NEW p \in Phases,
         phase' = [phase EXCEPT ![t] = p],
         p \in {"run", "ended", "unregistered"} \/ focus # t \/ late
  PROVE  focus' \in Handle /\ late' \in BOOLEAN /\ FocusKnown'
<1>1. focus' = focus /\ late' = late /\ focus \in Handle /\ late \in BOOLEAN
  BY DEF focusVars, RouterInv, TypeOK
<1>2. /\ phase \in [Task -> Phases] /\ phase'[t] = p
      /\ \A u \in Task : u # t => phase'[u] = phase[u]
  BY DEF RouterInv, TypeOK, Phases
<1>3. FocusKnown'
  BY <1>1, <1>2 DEF RouterInv, FocusKnown, Handle
<1> QED  BY <1>1, <1>3

\* The script takes an event off its queue, or ends.
LEMMA ScriptSteps ==
  ASSUME RouterInv, NEW t \in Task, Receive(t) \/ Finish(t)
  PROVE  RouterInv'
<1>1. phase[t] = "run" /\ phase \in [Task -> Phases] /\ queue \in Queues
      /\ app \in [Task -> 0 .. MaxApps] /\ queue[t] \in Seq(Event) /\ Len(queue[t]) <= QLen
  BY DEF Receive, Finish, Running, RouterInv, TypeOK, Phases, Queues
<1>2. /\ Shrunk /\ ZStrict' /\ app' = app /\ down' = down
      /\ UNCHANGED <<nextZ, torn, touch, drag, was, lastRow, started, job>>
      /\ UNCHANGED focusVars
  <2>1. UNCHANGED <<tab, nextZ, torn, focus, late, touch, drag, was, lastRow, down, app, started, job>>
    BY DEF Receive, Finish, tableVars, gestureVars, focusVars
  <2>2. Shrunk
    BY <2>1, SameShrunk
  <2>3. ZStrict'
    BY <2>1 DEF RouterInv, ZStrict
  <2> QED  BY <2>1, <2>2, <2>3 DEF focusVars
<1>3. ~BeingSpawned(t)
  <2>1. CASE Receive(t)
    BY <2>1 DEF Receive, RouterInv, Fresh
  <2>2. CASE Finish(t)
    BY <2>2 DEF Finish
  <2> QED  BY <2>1, <2>2
<1>4. PICK p \in {"run", "ended"} : phase' = [phase EXCEPT ![t] = p]
  <2>1. CASE Receive(t)
    <3>1. \/ phase' = [phase EXCEPT ![t] = "ended"]
          \/ phase' = [phase EXCEPT ![t] = "run"]
      BY <1>1, <2>1 DEF Receive
    <3> QED  BY <3>1
  <2>2. CASE Finish(t)
    BY <2>2 DEF Finish
  <2> QED  BY <2>1, <2>2
<1>5. queue' \in Queues /\ \A u \in Task : u # t => queue'[u] = queue[u]
  <2>1. CASE Receive(t)
    <3>1. queue[t] # <<>> /\ queue' = [queue EXCEPT ![t] = Tail(queue[t])]
      BY <2>1 DEF Receive
    <3>2. Tail(queue[t]) \in Seq(Event) /\ Len(Tail(queue[t])) = Len(queue[t]) - 1
          /\ Len(queue[t]) \in Nat
      BY <1>1, <3>1
    <3>3. Len(Tail(queue[t])) <= QLen
      BY <1>1, <3>2, RouterAssumption
    <3> QED  BY <1>1, <3>1, <3>2, <3>3 DEF Queues
  <2>2. CASE Finish(t)
    BY <1>1, <2>2 DEF Finish
  <2> QED  BY <2>1, <2>2
<1>6. p \in Phases
  BY DEF Phases
<1>7. focus' \in Handle /\ late' \in BOOLEAN /\ FocusKnown'
  BY <1>2, <1>4, <1>6, FocusStays
<1> QED  BY <1>1, <1>2, <1>3, <1>4, <1>5, <1>6, <1>7, LifeStep

\* vm_host_task's cleanup: the window, the focus, then the queue and the task.
LEMMA CleanupSteps ==
  ASSUME RouterInv, NEW t \in Task, Ending(t)
  PROVE  RouterInv'
<1>1. /\ phase \in [Task -> Phases] /\ queue \in Queues /\ app \in [Task -> 0 .. MaxApps]
      /\ OneEach(tab) /\ down \subseteq Task
  BY DEF RouterInv, TypeOK, Phases, Queues
<1>2. phase[t] \in {"ended", "unregistered", "unfocused"} /\ ~BeingSpawned(t)
  <2>1. phase[t] \in {"ended", "unregistered", "unfocused"}
    BY DEF Ending, Unregister, ClearFocus, Delete
  <2> QED  BY <2>1 DEF RouterInv, Fresh
<1>3. CASE Unregister(t)
  <2>1. /\ tab' = Unregistered(tab, t) /\ phase' = [phase EXCEPT ![t] = "unregistered"]
        /\ UNCHANGED <<nextZ, torn, focus, late, touch, drag, was, lastRow, down,
                       queue, app, started, job>>
    BY <1>3 DEF Unregister, focusVars, gestureVars
  <2>2. Shrunk /\ ~HasWindow(tab', t) /\ ZStrict'
    BY <2>1, UnregisteredShrunk
  <2>3. "unregistered" \in Phases
    BY DEF Phases
  <2>4. focus' \in Handle /\ late' \in BOOLEAN /\ FocusKnown'
    BY <2>1, <2>3, FocusStays DEF focusVars
  <2> QED  BY <1>1, <1>2, <2>1, <2>2, <2>3, <2>4, LifeStep
<1>4. CASE ClearFocus(t) \/ Delete(t)
  <2>1. PICK p \in {"unfocused", "none"} : phase' = [phase EXCEPT ![t] = p]
    BY <1>4 DEF ClearFocus, Delete
  <2>2. p \in Phases /\ p \notin {"run", "ended"}
    BY DEF Phases
  <2>3. /\ UNCHANGED <<tab, nextZ, torn, touch, drag, was, lastRow, started, job>>
        /\ phase[t] \in {"unregistered", "unfocused"}
    BY <1>4 DEF ClearFocus, Delete, tableVars, gestureVars
  <2>4. Shrunk
    BY <2>3, SameShrunk
  <2>5. ZStrict'
    BY <2>3 DEF RouterInv, ZStrict
  <2>6. ~HasWindow(tab', t)
    BY <2>3 DEF RouterInv, LiveQueues, HasWindow, Owned
  <2>7. /\ queue' \in Queues /\ app' \in [Task -> 0 .. MaxApps] /\ down' \subseteq down
        /\ \A u \in Task : u # t => queue'[u] = queue[u] /\ app'[u] = app[u]
        /\ p = "none" => queue'[t] = <<>> /\ t \notin down'
    <3>1. CASE ClearFocus(t)
      <4>1. p # "none"
        BY <1>1, <2>1, <3>1 DEF ClearFocus
      <4> QED  BY <1>1, <3>1, <4>1 DEF ClearFocus, gestureVars
    <3>2. CASE Delete(t)
      <4>1. /\ queue' = [queue EXCEPT ![t] = <<>>] /\ app' = [app EXCEPT ![t] = 0]
            /\ down' = down \ {t}
        BY <3>2 DEF Delete
      <4>2. <<>> \in Seq(Event) /\ Len(<<>>) <= QLen /\ 0 \in 0 .. MaxApps
        BY RouterAssumption
      <4> QED  BY <1>1, <4>1, <4>2 DEF Queues
    <3> QED  BY <1>4, <3>1, <3>2
  <2>8. focus' \in Handle /\ late' \in BOOLEAN /\ FocusKnown'
    <3>1. CASE ClearFocus(t)
      <4>1. CASE focus = t
        <5>1. focus' = NoTask /\ late' = FALSE
          BY <3>1, <4>1 DEF ClearFocus, Unfocused, Focused
        <5> QED  BY <5>1 DEF Handle, FocusKnown
      <4>2. CASE focus # t
        <5>1. UNCHANGED focusVars
          BY <3>1, <4>2 DEF ClearFocus, Unfocused
        <5> QED  BY <2>1, <2>2, <4>2, <5>1, FocusStays
      <4> QED  BY <4>1, <4>2
    <3>2. CASE Delete(t)
      <4>1. UNCHANGED focusVars /\ phase[t] = "unfocused"
        BY <3>2 DEF Delete
      <4>2. focus # t \/ late
        BY <4>1, TableAssumption DEF RouterInv, FocusKnown
      <4> QED  BY <2>1, <2>2, <4>1, <4>2, FocusStays
    <3> QED  BY <1>4, <3>1, <3>2
  <2> QED  BY <1>1, <1>2, <2>1, <2>2, <2>3, <2>4, <2>5, <2>6, <2>7, <2>8, LifeStep
<1> QED  BY <1>3, <1>4 DEF Ending

\* xTaskCreate: a handle nobody has, and one call that will register it.
LEMMA CreateStep ==
  ASSUME RouterInv, NEW t \in Task, Create(t)
  PROVE  RouterInv'
<1>1. PICK c \in Task :
        /\ phase[c] = "none" /\ phase' = [phase EXCEPT ![c] = "run"]
        /\ started' = started + 1 /\ app' = [app EXCEPT ![c] = started']
        /\ job' = [job EXCEPT ![t] = [call |-> "register", task |-> c]]
  BY DEF Create
<1>2. /\ phase \in [Task -> Phases] /\ app \in [Task -> 0 .. MaxApps]
      /\ job \in [Task -> Job] /\ started \in Apps /\ started < MaxApps
      /\ job[t].call = "create"
  BY DEF Create, RouterInv, TypeOK, Phases
<1>3. UNCHANGED <<tab, nextZ, torn, focus, late, touch, drag, was, lastRow, down, queue>>
  BY DEF Create, tableVars, focusVars, gestureVars
<1>4. started' \in Apps /\ started' \in 0 .. MaxApps
  BY <1>1, <1>2, RouterAssumption DEF Apps
<1>5. /\ phase' \in [Task -> Phases] /\ phase'[c] = "run"
      /\ \A u \in Task : u # c => phase'[u] = phase[u]
  BY <1>1, <1>2 DEF Phases
<1>6. /\ app' \in [Task -> 0 .. MaxApps] /\ app'[c] = started'
      /\ \A u \in Task : u # c => app'[u] = app[u]
  BY <1>1, <1>2, <1>4
<1>7. /\ job' \in [Task -> Job] /\ job'[t].call = "register" /\ job'[t].task = c
      /\ \A u \in Task : u # t => job'[u] = job[u]
  <2>1. [call |-> "register", task |-> c] \in Job
    BY DEF Job
  <2> QED  BY <1>1, <1>2, <2>1
<1>8. ~HasWindow(tab, c) /\ ~BeingSpawned(c) /\ queue[c] = <<>> /\ c \notin down
  BY <1>1 DEF RouterInv, LiveQueues, HasWindow, Owned, Fresh, Gone
<1>9. TypeOK'
  BY <1>3, <1>4, <1>5, <1>6, <1>7 DEF RouterInv, TypeOK, Phases
<1>10. RowsOnScreen' /\ OneGesture' /\ OneEach(tab)' /\ ZStrict' /\ CaptureKept' /\ TitlesReachable'
  BY <1>3 DEF RouterInv, RowsOnScreen, OneGesture, OneEach, ZStrict, CaptureKept, TitlesReachable
<1>11. LiveQueues'
  <2>1. \A s \in Used(tab) : tab[s].task # c /\ tab[s].task \in Task
    BY <1>8, WindowFields DEF HasWindow, Owned, RouterInv, TypeOK, Table
  <2> QED  BY <1>3, <1>5, <1>6, <2>1 DEF RouterInv, LiveQueues
<1>12. FocusKnown'
  BY <1>3, <1>5 DEF RouterInv, FocusKnown, TypeOK, Handle
<1>13. Fresh'
  <2>1. \A u \in Task : u # c => (BeingSpawned(u)' => BeingSpawned(u))
    BY <1>7 DEF BeingSpawned
  <2>2. ASSUME NEW u \in Task, BeingSpawned(u)'
        PROVE  /\ phase'[u] = "run" /\ app'[u] \in Apps
               /\ ~HasWindow(tab', u) /\ queue'[u] = <<>> /\ u \notin down'
    <3>1. CASE u = c
      BY <1>3, <1>4, <1>5, <1>6, <1>8, <3>1
    <3>2. CASE u # c
      BY <1>3, <1>5, <1>6, <2>1, <2>2, <3>2 DEF RouterInv, Fresh
    <3> QED  BY <3>1, <3>2
  <2>3. \A p \in Task : job[p].call \in {"register", "fill"} => job[p].task # c
    BY <1>8 DEF BeingSpawned
  <2>4. \A p, r \in Task :
          /\ job'[p].call \in {"register", "fill"} /\ job'[r].call \in {"register", "fill"}
          /\ job'[p].task = job'[r].task
          => p = r
    BY <1>7, <2>3 DEF RouterInv, Fresh
  <2> QED  BY <2>2, <2>4 DEF Fresh
<1>14. Gone'
  BY <1>3, <1>5 DEF RouterInv, Gone
<1> QED  BY <1>9, <1>10, <1>11, <1>12, <1>13, <1>14 DEF RouterInv

\* kernel_window_register's stores: a first window for the task, whatever was
\* in the slot meanwhile.
LEMMA FillStep ==
  ASSUME RouterInv, NEW t \in Task, Fill(t)
  PROVE  RouterInv'
<1> DEFINE c == job[t].task  k == job[t].slot  z == job[t].z
<1>1. c \in Task /\ k \in Slot /\ z \in Nat /\ job[t].call = "fill"
  BY JobFields DEF Fill
<1>2. PICK r \in STRIP_H .. Rows :
        tab' = [tab EXCEPT ![k] = [used |-> TRUE, task |-> c, app |-> app[c], z |-> z,
                                   row |-> r, h |-> 2, closable |-> TRUE]]
  BY DEF Fill
<1>3. /\ Given(z) /\ job' = [job EXCEPT ![t] = [call |-> "activate", task |-> c]]
      /\ UNCHANGED <<focus, late, touch, drag, was, lastRow, down, queue, phase, app, started>>
  BY DEF Fill, focusVars, gestureVars, lifeVars
<1>4. /\ phase[c] = "run" /\ app[c] \in Apps
      /\ ~HasWindow(tab, c) /\ queue[c] = <<>> /\ c \notin down
  <2>1. BeingSpawned(c)
    BY <1>1 DEF BeingSpawned
  <2> QED  BY <1>1, <2>1 DEF RouterInv, Fresh
<1> HIDE DEF c, k, z
<1>5. r \in Nat /\ r \in Row /\ r >= STRIP_H
  BY RouterAssumption DEF STRIP_H, Row
<1>6. /\ tab' \in Table /\ tab'[k].used /\ tab'[k].task = c /\ tab'[k].app = app[c]
      /\ tab'[k].z = z /\ tab'[k].row = r /\ tab'[k].closable
      /\ \A s \in Slot : s # k => tab'[s] = tab[s]
  <2> DEFINE w == [used |-> TRUE, task |-> c, app |-> app[c], z |-> z,
                   row |-> r, h |-> 2, closable |-> TRUE]
  <2>1. tab \in Table
    BY DEF RouterInv, TypeOK, Table
  <2>2. w \in Window(Apps)
    BY <1>1, <1>4, <1>5 DEF Window
  <2>3. w.used /\ w.task = c /\ w.app = app[c] /\ w.z = z /\ w.row = r /\ w.closable
    OBVIOUS
  <2>4. tab' = [tab EXCEPT ![k] = w]
    BY <1>2
  <2> HIDE DEF w
  <2> QED  BY <1>1, <2>1, <2>2, <2>3, <2>4 DEF Table
<1>7. k \in Used(tab') /\ \A s \in Used(tab') : s # k => s \in Used(tab) /\ tab'[s] = tab[s]
  BY <1>1, <1>6 DEF Used
<1>8. \A s \in Used(tab) : tab[s].task # c
  BY <1>4 DEF HasWindow, Owned
<1>9. /\ job \in [Task -> Job] /\ job' \in [Task -> Job]
      /\ job'[t] = [call |-> "activate", task |-> c]
      /\ \A u \in Task : u # t => job'[u] = job[u]
  <2>1. [call |-> "activate", task |-> c] \in Job /\ job \in [Task -> Job]
    BY <1>1 DEF Job, RouterInv, TypeOK
  <2> QED  BY <1>3, <2>1
<1>10. nextZ' = z + 1 /\ nextZ' \in Nat /\ torn' \in BOOLEAN /\ (~torn' => ~torn /\ nextZ = z)
  <2>1. nextZ' = z + 1 /\ torn' = (torn \/ nextZ # z)
    BY <1>3 DEF Given
  <2>2. torn \in BOOLEAN
    BY DEF RouterInv, TypeOK
  <2>3. nextZ' \in Nat
    BY <1>1, <2>1
  <2> QED  BY <2>1, <2>2, <2>3
<1>11. TypeOK'
  BY <1>3, <1>6, <1>9, <1>10 DEF RouterInv, TypeOK, Table
<1>12. RowsOnScreen' /\ TitlesReachable'
  BY <1>5, <1>6, <1>7 DEF RouterInv, RowsOnScreen, TitlesReachable
<1>13. OneEach(tab)'
  BY <1>6, <1>7, <1>8 DEF RouterInv, OneEach
<1>14. ZStrict'
  <2> SUFFICES ASSUME ~torn'
               PROVE  /\ \A s, u \in Used(tab') : s # u => tab'[s].z # tab'[u].z
                      /\ \A s \in Used(tab') : tab'[s].z < nextZ'
    BY DEF ZStrict
  <2>1. /\ \A s, u \in Used(tab) : s # u => tab[s].z # tab[u].z
        /\ \A s \in Used(tab) : tab[s].z < z
    BY <1>10 DEF RouterInv, ZStrict
  <2>2. \A s \in Used(tab) : tab[s].z \in Int
    BY WindowFields DEF RouterInv, TypeOK, Table
  <2> QED  BY <1>1, <1>6, <1>7, <1>10, <2>1, <2>2
<1>15. LiveQueues'
  BY <1>3, <1>4, <1>6, <1>7 DEF RouterInv, LiveQueues
<1>16. OneGesture' /\ FocusKnown' /\ Gone'
  BY <1>3 DEF RouterInv, OneGesture, FocusKnown, Gone
<1>17. \A u : HasWindow(tab', u) => u = c \/ HasWindow(tab, u)
  BY <1>6, <1>7 DEF HasWindow, Owned
<1>18. CaptureKept'
  BY <1>3, <1>4, <1>17 DEF RouterInv, CaptureKept
<1>19. Fresh'
  <2>1. \A p \in Task : job'[p].call \in {"register", "fill"} => p # t /\ job'[p] = job[p]
    BY <1>9
  <2>2. ASSUME NEW u \in Task, BeingSpawned(u)'
        PROVE  BeingSpawned(u) /\ u # c
    <3>1. PICK p \in Task : job'[p].call \in {"register", "fill"} /\ job'[p].task = u
      BY <2>2 DEF BeingSpawned
    <3>2. p # t /\ job[p].call \in {"register", "fill"} /\ job[p].task = u
      BY <2>1, <3>1
    <3>3. u # c
      BY <1>1, <3>2 DEF RouterInv, Fresh, c
    <3> QED  BY <3>2, <3>3 DEF BeingSpawned
  <2>3. \A u \in Task : BeingSpawned(u)' =>
          /\ phase'[u] = "run" /\ app'[u] \in Apps
          /\ ~HasWindow(tab', u) /\ queue'[u] = <<>> /\ u \notin down'
    BY <1>3, <1>17, <2>2 DEF RouterInv, Fresh
  <2>4. \A p, v \in Task :
          /\ job'[p].call \in {"register", "fill"} /\ job'[v].call \in {"register", "fill"}
          /\ job'[p].task = job'[v].task
          => p = v
    BY <2>1 DEF RouterInv, Fresh
  <2> QED  BY <2>3, <2>4 DEF Fresh
<1> QED  BY <1>11, <1>12, <1>13, <1>14, <1>15, <1>16, <1>18, <1>19 DEF RouterInv

----------------------------------------------------------------------------
(* The theorems.                                                           *)

\* One step, of the router or of any app, preserves the invariant.
LEMMA RouterNext == RouterInv /\ [Next]_vars => RouterInv'
<1> SUFFICES ASSUME RouterInv, [Next]_vars PROVE RouterInv'
  OBVIOUS
<1>1. CASE Poll
  BY <1>1, PollStep
<1>2. CASE \E t \in Task : AppStep(t)
  <2>1. PICK t \in Task : AppStep(t)
    BY <1>2
  <2>2. CASE Receive(t) \/ Finish(t)
    BY <2>2, ScriptSteps
  <2>3. CASE SendSelfToBack(t)
    BY <2>3, SendSelfToBackStep
  <2>4. CASE Finding(t)
    BY <2>4, CallSteps DEF Finding
  <2>5. CASE Calling(t)
    BY <2>5, CallSteps, ActivateStep, RaiseStep, CloseStep, CreateStep, FillStep DEF Calling
  <2>6. CASE Ending(t)
    BY <2>6, CleanupSteps
  <2> QED  BY <2>1, <2>2, <2>3, <2>4, <2>5, <2>6 DEF AppStep
<1>3. CASE UNCHANGED vars
  <2>1. UNCHANGED <<tab, nextZ, torn, focus, late, touch, drag, was, lastRow, down,
                    queue, phase, app, started, job>>
    BY <1>3 DEF vars, tableVars, focusVars, gestureVars, lifeVars
  <2>2. TypeOK'
    BY <2>1 DEF RouterInv, TypeOK
  <2>3. RowsOnScreen' /\ OneGesture' /\ OneEach(tab)' /\ ZStrict' /\ LiveQueues'
    BY <2>1 DEF RouterInv, RowsOnScreen, OneGesture, OneEach, ZStrict, LiveQueues
  <2>4. FocusKnown' /\ CaptureKept' /\ TitlesReachable' /\ Fresh' /\ Gone'
    BY <2>1 DEF RouterInv, FocusKnown, CaptureKept, TitlesReachable, Fresh, Gone, BeingSpawned
  <2> QED  BY <2>2, <2>3, <2>4 DEF RouterInv
<1> QED  BY <1>1, <1>2, <1>3 DEF Next

\* The inductive invariant holds in every state of every behaviour.
THEOREM RouterInvariant == Spec => []RouterInv
BY RouterInit, RouterNext, PTL DEF Spec

\* Every variable keeps its type: the table's slots, the queues' lengths, what a
\* call in progress carries.
THEOREM RouterTypes == Spec => []TypeOK
<1>1. RouterInv => TypeOK
  BY DEF RouterInv
<1> QED  BY <1>1, RouterInvariant, PTL

\* A finger drags a title bar or touches a window and never both, and what it
\* does ends with its lift, whatever apps do to the windows meanwhile.
THEOREM GesturesAreSingle == Spec => []OneGesture
<1>1. RouterInv => OneGesture
  BY DEF RouterInv
<1> QED  BY <1>1, RouterInvariant, PTL

\* Z-orders are a strict order of the windows until two g_next_z++ overlap.
THEOREM WindowsAreOrdered == Spec => []StrictZOrder
<1>1. RouterInv => StrictZOrder
  BY DEF RouterInv, OneEach, ZStrict, StrictZOrder
<1> QED  BY <1>1, RouterInvariant, PTL

\* send_event never uses a deleted queue or the queue of another app.
THEOREM QueuesAreLive == Spec => []LiveQueues
<1>1. RouterInv => LiveQueues
  BY DEF RouterInv
<1> QED  BY <1>1, RouterInvariant, PTL

\* A deleted task has the focus only after a late activation.
THEOREM FocusIsLive == Spec => []FocusLive
<1>1. RouterInv => FocusLive
  BY DEF RouterInv, FocusKnown, FocusLive
<1> QED  BY <1>1, RouterInvariant, PTL

\* Of the windows last told "pressed", all but the desktop own the gesture.
THEOREM FingersAreCaptured == Spec => []CaptureKept
<1>1. RouterInv => CaptureKept
  BY DEF RouterInv
<1> QED  BY <1>1, RouterInvariant, PTL

\* No app's title bar is ever inside the desktop's strip.
THEOREM TitlesStayReachable == Spec => []TitlesReachable
<1>1. RouterInv => TitlesReachable
  BY DEF RouterInv
<1> QED  BY <1>1, RouterInvariant, PTL
=============================================================================
