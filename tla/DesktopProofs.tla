---------------------------- MODULE DesktopProofs ----------------------------
(***************************************************************************)
(* Proofs about the v1 desktop, for every set of windows, every boot order *)
(* and every way the windows can lie under the cursor.                     *)
(***************************************************************************)
EXTENDS Desktop, FiniteSetTheorems, TLAPS

DeskSpec == DeskInit /\ [][DeskNext]_deskVars

States == { "open", "minimized", "closed" }
Events == { "none", "closed", "click", "key" }
Stack == [1 .. Cardinality(Kinds) -> Kinds]

DeskTypeOK ==
  /\ wstate \in [Kinds -> States] /\ order \in Stack
  /\ dragging \in Kinds \cup { "none" } /\ menuOpen \in BOOLEAN
  /\ focus \in SUBSET Kinds /\ held \in BOOLEAN
  /\ mailbox \in Events /\ prog \in { "none", "starting", "waiting", "deaf" }
  /\ owed \in BOOLEAN

\* FocusSound without cardinalities.
OneFocus == \A a, b \in focus : a = b
FocusOpen == \A k \in focus : wstate[k] = "open"

\* Why nothing replaces CLOSED: a click or a key for the program needs its
\* window open, only the program opens it, and a new program owes nothing.
OwedPending ==
  owed => mailbox = "closed" /\ wstate["ring3"] = "closed" /\ prog # "starting"

DeskInv == DeskTypeOK /\ OneFocus /\ FocusOpen /\ OwedPending

----------------------------------------------------------------------------
(* The stacking order.                                                     *)

LEMMA StackSize == Cardinality(Kinds) \in Nat
BY FS_CardinalityType, DesktopAssumption DEF DesktopAssumption

LEMMA KindsNamed ==
  /\ "shell" \in Kinds /\ "editor" \in Kinds /\ "ring3" \in Kinds
  /\ Piles \subseteq [Kinds -> WindowParts] /\ BootOrder \in Stack
BY DesktopAssumption DEF DesktopAssumption, Stack

\* raise_window leaves a stack of windows.
LEMMA RaisedStack ==
  ASSUME order \in Stack, NEW k \in Kinds
  PROVE  Raised(k) \in Stack
<1> DEFINE pos == CHOOSE i \in DOMAIN order : order[i] = k
<1>1. DOMAIN order = 1 .. Cardinality(Kinds)
  BY DEF Stack
<1>2. ASSUME NEW i \in 1 .. Cardinality(Kinds), i # 1
      PROVE  i - 1 \in 1 .. Cardinality(Kinds)
  BY <1>2, StackSize
<1>3. ASSUME NEW i \in 1 .. Cardinality(Kinds)
      PROVE  (IF i = 1 THEN k ELSE IF i <= pos THEN order[i - 1] ELSE order[i]) \in Kinds
  BY <1>2, <1>3 DEF Stack
<1> QED  BY <1>1, <1>3 DEF Raised, Stack

\* topmost_window_at returns one window at most, an open one.
LEMMA TopmostOne ==
  ASSUME NEW p, NEW state, NEW z \in Stack
  PROVE  /\ \A a, b \in Topmost(p, state, z) : a = b
         /\ \A k \in Topmost(p, state, z) : k \in Kinds /\ state[k] = "open" /\ p[k] # "out"
<1> DEFINE hit == { i \in DOMAIN z : state[z[i]] = "open" /\ p[z[i]] # "out" }
           first == { i \in hit : \A j \in hit : i <= j }
<1>1. DOMAIN z = 1 .. Cardinality(Kinds) /\ \A i \in DOMAIN z : z[i] \in Kinds
  BY DEF Stack
<1>2. \A i, j \in first : i = j
  <2> SUFFICES ASSUME NEW i \in first, NEW j \in first PROVE i = j
    OBVIOUS
  <2>1. i \in Int /\ j \in Int
    BY <1>1, StackSize
  <2>2. i <= j /\ j <= i
    OBVIOUS
  <2> QED  BY <2>1, <2>2
<1>3. Topmost(p, state, z) = { z[i] : i \in first }
  BY DEF Topmost
<1>4. \A a, b \in { z[i] : i \in first } : a = b
  BY <1>2
<1>5. \A k \in { z[i] : i \in first } : k \in Kinds /\ state[k] = "open" /\ p[k] # "out"
  BY <1>1
<1> HIDE DEF hit, first
<1> QED  BY <1>3, <1>4, <1>5

LEMMA CardinalityAtMostOne ==
  ASSUME NEW S, \A a, b \in S : a = b
  PROVE  Cardinality(S) <= 1
<1>1. CASE S = {}
  BY <1>1, FS_EmptySet
<1>2. CASE S # {}
  <2>1. PICK x : x \in S
    BY <1>2
  <2>2. S = { x }
    <3>1. \A y \in S : y = x
      BY <2>1
    <3> QED  BY <2>1, <3>1, Zenon
  <2>3. Cardinality({ x }) = 1
    BY FS_Singleton
  <2>4. Cardinality(S) = 1
    BY <2>2, <2>3, Zenon
  <2> QED  BY <2>4
<1> QED  BY <1>1, <1>2

----------------------------------------------------------------------------
(* What every packet ends with.                                            *)

\* Settle gives the focus to one open window at most when the button goes down,
\* and leaves it alone otherwise; only a click on the open ring-3 window
\* replaces the pending event.
LEMMA SettleKeeps ==
  ASSUME OneFocus, focus \in SUBSET Kinds, held \in BOOLEAN, order' \in Stack,
         NEW p, NEW left \in BOOLEAN, NEW event \in Events,
         (left /\ ~held) \/ \A k \in focus : wstate'[k] = "open",
         Settle(p, left, event)
  PROVE  /\ focus' \in SUBSET Kinds /\ held' \in BOOLEAN /\ mailbox' \in Events
         /\ OneFocus' /\ FocusOpen'
         /\ wstate'["ring3"] = "closed" => mailbox' = event
<1> DEFINE top == Topmost(p, wstate', order')
<1>1. /\ \A a, b \in top : a = b
      /\ \A k \in top : k \in Kinds /\ wstate'[k] = "open" /\ p[k] # "out"
  BY TopmostOne
<1>2. /\ mailbox' = IF left /\ "ring3" \in top /\ p["ring3"] = "field"
                      THEN "click" ELSE event
      /\ focus' = IF left /\ ~held THEN FocusAt(p, top) ELSE focus
      /\ held' = left
  BY DEF Settle
<1>3. FocusAt(p, top) \subseteq top
  BY DEF FocusAt
<1> HIDE DEF top
<1>4. held' \in BOOLEAN /\ mailbox' \in Events
  BY <1>2 DEF Events
<1>5. wstate'["ring3"] = "closed" => mailbox' = event
  BY <1>1, <1>2
<1>6. CASE left /\ ~held
  <2>1. focus' \subseteq top
    BY <1>2, <1>3, <1>6
  <2> QED  BY <2>1, <1>1, <1>4, <1>5 DEF OneFocus, FocusOpen
<1>7. CASE ~(left /\ ~held)
  <2>1. focus' = focus /\ \A k \in focus : wstate'[k] = "open"
    BY <1>2, <1>7
  <2> QED  BY <2>1, <1>4, <1>5 DEF OneFocus, FocusOpen
<1> QED  BY <1>6, <1>7

\* Packets that change no window.
LEMMA QuietPacket ==
  ASSUME DeskInv, NEW p, NEW left \in BOOLEAN,
         UNCHANGED << wstate, order, owed, prog >>,
         dragging' \in Kinds \cup { "none" }, menuOpen' \in BOOLEAN,
         Settle(p, left, mailbox)
  PROVE  DeskInv'
<1> USE DEF DeskInv
<1>1. \A k \in focus : wstate'[k] = "open"
  BY DEF FocusOpen
<1>2. order' \in Stack /\ held \in BOOLEAN /\ focus \in SUBSET Kinds /\ mailbox \in Events
  BY DEF DeskTypeOK
<1>3. /\ focus' \in SUBSET Kinds /\ held' \in BOOLEAN /\ mailbox' \in Events
      /\ OneFocus' /\ FocusOpen'
      /\ wstate'["ring3"] = "closed" => mailbox' = mailbox
  BY <1>1, <1>2, SettleKeeps
<1>4. DeskTypeOK'
  BY <1>3 DEF DeskTypeOK
<1>5. OwedPending'
  BY <1>3 DEF OwedPending
<1> QED  BY <1>3, <1>4, <1>5

\* Presses: the button goes down, so the focus is set anew.
LEMMA PressPacket ==
  ASSUME DeskInv, Pressing, NEW p, NEW event \in Events,
         wstate' \in [Kinds -> States], order' \in Stack,
         dragging' \in Kinds \cup { "none" }, menuOpen' \in BOOLEAN,
         owed' \in BOOLEAN, prog' = prog,
         owed' => event = "closed" /\ wstate'["ring3"] = "closed",
         Settle(p, TRUE, event)
  PROVE  DeskInv'
<1> USE DEF DeskInv
<1>1. held = FALSE /\ prog # "starting"
  BY DEF Pressing, Draining, DeskTypeOK
<1>2. /\ focus' \in SUBSET Kinds /\ held' \in BOOLEAN /\ mailbox' \in Events
      /\ OneFocus' /\ FocusOpen'
      /\ wstate'["ring3"] = "closed" => mailbox' = event
  BY <1>1, SettleKeeps DEF DeskTypeOK
<1>3. DeskTypeOK'
  BY <1>2 DEF DeskTypeOK
<1>4. OwedPending'
  BY <1>1, <1>2 DEF OwedPending
<1> QED  BY <1>2, <1>3, <1>4

----------------------------------------------------------------------------
(* One lemma for each group of actions.                                    *)

\* A window opened in front leaves the others as they were.
LEMMA OpenKeeps ==
  ASSUME DeskTypeOK, NEW k \in Kinds, OpenRaised(k)
  PROVE  /\ wstate' \in [Kinds -> States] /\ order' \in Stack
         /\ wstate' = [wstate EXCEPT ![k] = "open"]
<1>1. order' \in Stack
  BY RaisedStack DEF OpenRaised, DeskTypeOK
<1> QED  BY <1>1 DEF OpenRaised, DeskTypeOK, States

\* Packets in a drag, and packets that press nothing.
LEMMA QuietSteps ==
  ASSUME DeskInv, NEW p \in Piles, NEW left \in BOOLEAN,
         DragPacket(p, left) \/ IdlePacket(p, left)
  PROVE  DeskInv'
<1>1. dragging \in Kinds \cup { "none" } /\ menuOpen \in BOOLEAN
  BY DEF DeskInv, DeskTypeOK
<1>2. CASE DragPacket(p, left)
  BY <1>1, <1>2, QuietPacket DEF DragPacket
<1>3. CASE IdlePacket(p, left)
  BY <1>1, <1>3, QuietPacket DEF IdlePacket, NoWindowChange
<1> QED  BY <1>2, <1>3

\* The start menu's entries that return.
LEMMA MenuSteps ==
  ASSUME DeskInv, NEW p \in Piles, MenuShell(p) \/ MenuDismiss(p) \/ PressNothing(p)
  PROVE  DeskInv'
<1> USE DEF DeskInv
<1>1. /\ DeskTypeOK /\ mailbox \in Events
      /\ owed => mailbox = "closed" /\ wstate["ring3"] = "closed"
  BY DEF DeskTypeOK, OwedPending
<1>2. CASE MenuShell(p)
  <2>1. /\ wstate' \in [Kinds -> States] /\ order' \in Stack
        /\ wstate' = [wstate EXCEPT !["shell"] = "open"]
    BY <1>1, <1>2, KindsNamed, OpenKeeps DEF MenuShell
  <2>2. wstate'["ring3"] = wstate["ring3"]
    BY <2>1, <1>1, KindsNamed DEF DeskTypeOK
  <2> QED  BY <1>1, <1>2, <2>1, <2>2, PressPacket DEF MenuShell, DeskTypeOK
<1>3. CASE MenuDismiss(p)
  BY <1>1, <1>3, PressPacket DEF MenuDismiss, NoWindowChange, DeskTypeOK
<1>4. CASE PressNothing(p)
  BY <1>1, <1>4, PressPacket DEF PressNothing, NoWindowChange, DeskTypeOK
<1> QED  BY <1>2, <1>3, <1>4

\* PAINT chosen: nothing moves, and the abandoned program is owed nothing.
LEMMA PaintStep ==
  ASSUME DeskInv, MenuPaint
  PROVE  DeskInv'
BY DEF DeskInv, DeskTypeOK, OneFocus, FocusOpen, OwedPending, MenuPaint

\* The start button.
LEMMA ButtonStep ==
  ASSUME DeskInv, MenuButton
  PROVE  DeskInv'
<1>1. /\ DeskTypeOK /\ mailbox \in Events /\ Pressing
      /\ owed => mailbox = "closed" /\ wstate["ring3"] = "closed"
  BY DEF DeskInv, DeskTypeOK, OwedPending, MenuButton
<1>2. Settle(Bare, TRUE, mailbox)
  BY DEF MenuButton
<1> QED  BY <1>1, <1>2, PressPacket DEF MenuButton, NoWindowChange, DeskTypeOK

\* A taskbar entry belongs to a window that is not closed, so never to the
\* ring-3 window whose CLOSED is still pending.
LEMMA TaskbarStep ==
  ASSUME DeskInv, NEW k \in Kinds, TaskbarEntry(k)
  PROVE  DeskInv'
<1>1. /\ DeskTypeOK /\ mailbox \in Events /\ Pressing /\ wstate[k] # "closed"
      /\ owed => mailbox = "closed" /\ wstate["ring3"] = "closed"
  BY DEF DeskInv, DeskTypeOK, OwedPending, TaskbarEntry
<1>2. /\ wstate' \in [Kinds -> States] /\ order' \in Stack
      /\ \A j \in Kinds \ { k } : wstate'[j] = wstate[j]
  <2>1. CASE wstate[k] = "open" /\ order[1] = k
    BY <1>1, <2>1 DEF TaskbarEntry, DeskTypeOK, States
  <2>2. CASE ~(wstate[k] = "open" /\ order[1] = k)
    <3>1. OpenRaised(k)
      BY <2>2 DEF TaskbarEntry
    <3> QED  BY <1>1, <3>1, OpenKeeps DEF DeskTypeOK
  <2> QED  BY <2>1, <2>2
<1>3. owed => k # "ring3" /\ wstate'["ring3"] = "closed"
  BY <1>1, <1>2, KindsNamed
<1>4. Settle(Bare, TRUE, mailbox) /\ owed' = owed /\ prog' = prog
      /\ dragging' = dragging /\ menuOpen' = menuOpen
  BY DEF TaskbarEntry
<1> QED  BY <1>1, <1>2, <1>3, <1>4, PressPacket DEF DeskTypeOK

\* A press on a window: its close box, its minimize box, or the rest of it.
LEMMA WindowSteps ==
  ASSUME DeskInv, NEW p \in Piles, NEW k \in Kinds,
         PressClose(p, k) \/ PressMinimize(p, k) \/ PressRaise(p, k)
  PROVE  DeskInv'
<1>1. /\ DeskTypeOK /\ mailbox \in Events /\ Pressing
      /\ owed => mailbox = "closed" /\ wstate["ring3"] = "closed"
  BY DEF DeskInv, DeskTypeOK, OwedPending, PressClose, PressMinimize, PressRaise
<1>2. wstate[k] = "open"
  BY <1>1, TopmostOne DEF DeskTypeOK, PressClose, PressMinimize, PressRaise
<1>3. owed => k # "ring3"
  BY <1>1, <1>2
<1>4. CASE PressClose(p, k)
  <2>1. wstate' = [wstate EXCEPT ![k] = "closed"] /\ wstate' \in [Kinds -> States]
    BY <1>1, <1>4 DEF PressClose, DeskTypeOK, States
  <2>2. wstate'["ring3"] = "closed" <=> k = "ring3" \/ wstate["ring3"] = "closed"
    BY <2>1, <1>1, KindsNamed DEF DeskTypeOK
  <2> DEFINE event == IF k = "ring3" THEN "closed" ELSE mailbox
  <2>3. event \in Events /\ Settle(p, TRUE, event)
    BY <1>1, <1>4 DEF PressClose, Events
  <2>4. owed' = (owed \/ k = "ring3") /\ order' = order /\ dragging' = dragging
        /\ menuOpen' = menuOpen /\ prog' = prog
    BY <1>4 DEF PressClose
  <2>5. owed' \in BOOLEAN
    BY <2>4, <1>1 DEF DeskTypeOK
  <2>6. owed' => event = "closed" /\ wstate'["ring3"] = "closed"
    BY <2>2, <2>4, <1>1
  <2> HIDE DEF event
  <2> QED  BY <1>1, <2>1, <2>3, <2>4, <2>5, <2>6, PressPacket DEF DeskTypeOK
<1>5. CASE PressMinimize(p, k)
  <2>1. wstate' = [wstate EXCEPT ![k] = "minimized"] /\ wstate' \in [Kinds -> States]
    BY <1>1, <1>5 DEF PressMinimize, DeskTypeOK, States
  <2>2. owed => wstate'["ring3"] = "closed"
    BY <2>1, <1>1, <1>3, KindsNamed DEF DeskTypeOK
  <2> QED  BY <1>1, <1>5, <2>1, <2>2, PressPacket DEF PressMinimize, DeskTypeOK
<1>6. CASE PressRaise(p, k)
  <2>1. order' \in Stack
    BY <1>1, <1>6, RaisedStack DEF PressRaise, DeskTypeOK
  <2>2. dragging' \in Kinds \cup { "none" }
    BY <1>6 DEF PressRaise
  <2> QED  BY <1>1, <1>6, <2>1, <2>2, PressPacket DEF PressRaise, DeskTypeOK
<1> QED  BY <1>4, <1>5, <1>6

\* Deliver either leaves the event pending or pays what is owed with it.
LEMMA DeliverKeeps ==
  ASSUME NEW event \in Events, DeskTypeOK, Deliver(event), prog # "starting",
         owed => event = "closed" /\ wstate["ring3"] = "closed",
         wstate'["ring3"] = wstate["ring3"]
  PROVE  /\ mailbox' \in Events /\ prog' \in { "none", "starting", "waiting", "deaf" }
         /\ owed' \in BOOLEAN
         /\ OwedPending'
<1>1. CASE prog \in { "waiting", "deaf" } /\ event # "none"
  BY <1>1 DEF Deliver, DeskTypeOK, Events, OwedPending
<1>2. CASE ~(prog \in { "waiting", "deaf" } /\ event # "none")
  BY <1>2 DEF Deliver, DeskTypeOK, OwedPending
<1> QED  BY <1>1, <1>2

\* The end of a frame: the pending event goes to the program; a key for it needs
\* the ring-3 window focused, so open, so nothing is owed.
LEMMA FrameSteps ==
  ASSUME DeskInv, EndFrame \/ EndFrameKey \/ EndFrameEdit
  PROVE  DeskInv'
<1>1. /\ DeskTypeOK /\ mailbox \in Events /\ prog # "starting" /\ OneFocus /\ FocusOpen
      /\ owed => mailbox = "closed" /\ wstate["ring3"] = "closed"
  BY DEF DeskInv, DeskTypeOK, OwedPending, EndFrame, EndFrameKey, EndFrameEdit, Draining
<1>2. ASSUME NEW event \in Events, Deliver(event),
             owed => event = "closed" /\ wstate["ring3"] = "closed",
             wstate' \in [Kinds -> States], order' \in Stack,
             wstate'["ring3"] = wstate["ring3"],
             \A k \in focus : wstate'[k] = "open",
             UNCHANGED << dragging, menuOpen, focus, held >>
      PROVE  DeskInv'
  <2>1. /\ mailbox' \in Events /\ prog' \in { "none", "starting", "waiting", "deaf" }
        /\ owed' \in BOOLEAN /\ OwedPending'
    BY <1>1, <1>2, DeliverKeeps
  <2>2. DeskTypeOK'
    BY <1>1, <1>2, <2>1 DEF DeskTypeOK
  <2>3. OneFocus' /\ FocusOpen'
    BY <1>1, <1>2 DEF OneFocus, FocusOpen
  <2> QED  BY <2>1, <2>2, <2>3 DEF DeskInv
<1>3. CASE EndFrame
  BY <1>1, <1>2, <1>3 DEF EndFrame, DeskTypeOK, FocusOpen
<1>4. CASE EndFrameKey
  <2> DEFINE event == IF focus \cap (Kinds \ { "ring3" }) = {} /\ "ring3" \in focus
                        THEN "key" ELSE mailbox
  <2>1. event \in Events /\ Deliver(event)
    BY <1>1, <1>4 DEF EndFrameKey, Events
  <2>2. owed => event = "closed" /\ wstate["ring3"] = "closed"
    BY <1>1 DEF FocusOpen
  <2>3. UNCHANGED << wstate, order, dragging, menuOpen, focus, held >>
    BY <1>4 DEF EndFrameKey
  <2> HIDE DEF event
  <2> QED  BY <1>1, <1>2, <2>1, <2>2, <2>3 DEF DeskTypeOK, FocusOpen
<1>5. CASE EndFrameEdit
  <2>1. /\ wstate' \in [Kinds -> States] /\ order' \in Stack
        /\ wstate' = [wstate EXCEPT !["editor"] = "open"]
    BY <1>1, <1>5, KindsNamed, OpenKeeps DEF EndFrameEdit
  <2>2. /\ wstate'["ring3"] = wstate["ring3"]
        /\ \A k \in focus : wstate'[k] = "open"
    BY <2>1, <1>1, KindsNamed DEF DeskTypeOK, FocusOpen
  <2> QED  BY <1>1, <1>2, <1>5, <2>1, <2>2 DEF EndFrameEdit
<1> QED  BY <1>3, <1>4, <1>5

\* window_ring3_open on behalf of a program that has just started.
LEMMA OpensStep ==
  ASSUME DeskInv, ProgramOpens
  PROVE  DeskInv'
<1>1. DeskTypeOK /\ OneFocus /\ FocusOpen /\ owed = FALSE
  BY DEF DeskInv, DeskTypeOK, OwedPending, ProgramOpens
<1>2. /\ wstate' \in [Kinds -> States] /\ order' \in Stack
      /\ wstate' = [wstate EXCEPT !["ring3"] = "open"]
  BY <1>1, KindsNamed, OpenKeeps DEF ProgramOpens
<1>3. DeskTypeOK'
  BY <1>1, <1>2 DEF ProgramOpens, DeskTypeOK, Events
<1>4. FocusOpen'
  BY <1>1, <1>2 DEF ProgramOpens, DeskTypeOK, FocusOpen
<1>5. OneFocus' /\ OwedPending'
  BY <1>1 DEF ProgramOpens, OneFocus, OwedPending
<1> QED  BY <1>3, <1>4, <1>5 DEF DeskInv

----------------------------------------------------------------------------
(* The desktop as a whole.                                                 *)

\* At boot nothing is open, focused or owed.
LEMMA InitHolds == DeskInit => DeskInv
BY KindsNamed DEF DeskInit, DeskInv, DeskTypeOK, States, Events, OneFocus, FocusOpen, OwedPending

\* Every packet, frame and program step keeps the invariant.
LEMMA NextKeeps == DeskInv /\ [DeskNext]_deskVars => DeskInv'
<1> SUFFICES ASSUME DeskInv, [DeskNext]_deskVars PROVE DeskInv'
  OBVIOUS
<1>1. CASE UNCHANGED deskVars
  BY <1>1 DEF deskVars, DeskInv, DeskTypeOK, OneFocus, FocusOpen, OwedPending
<1>2. CASE \E p \in Piles, left \in BOOLEAN : DragPacket(p, left) \/ IdlePacket(p, left)
  BY <1>2, QuietSteps
<1>3. CASE \E p \in Piles : MenuShell(p) \/ MenuDismiss(p) \/ PressNothing(p)
  BY <1>3, MenuSteps
<1>4. CASE MenuPaint \/ MenuButton
  BY <1>4, PaintStep, ButtonStep
<1>5. CASE \E k \in Kinds : TaskbarEntry(k)
  BY <1>5, TaskbarStep
<1>6. CASE \E p \in Piles, k \in Kinds :
             PressClose(p, k) \/ PressMinimize(p, k) \/ PressRaise(p, k)
  BY <1>6, WindowSteps
<1>7. CASE EndFrame \/ EndFrameKey \/ EndFrameEdit
  BY <1>7, FrameSteps
<1>8. CASE ProgramOpens
  BY <1>8, OpensStep
<1> QED  BY <1>1, <1>2, <1>3, <1>4, <1>5, <1>6, <1>7, <1>8 DEF DeskNext

\* The invariant gives the two promises.
LEMMA InvGives == DeskInv => FocusSound /\ ClosedIsTold
<1> SUFFICES ASSUME DeskInv PROVE FocusSound /\ ClosedIsTold
  OBVIOUS
<1>1. Cardinality(focus) <= 1
  BY CardinalityAtMostOne DEF DeskInv, OneFocus
<1> QED  BY <1>1 DEF DeskInv, FocusOpen, FocusSound, OwedPending, ClosedIsTold

(* Whatever the user clicks, one window at most has the keyboard and it is *)
(* an open one: kernel.c recomputes every focused flag at a click, and no  *)
(* other step closes or minimizes a window.                                *)
THEOREM FocusIsSound == DeskSpec => []FocusSound
<1>1. DeskInit => DeskInv
  BY InitHolds
<1>2. DeskInv /\ [DeskNext]_deskVars => DeskInv'
  BY NextKeeps
<1>3. DeskInv => FocusSound
  BY InvGives
<1> QED  BY <1>1, <1>2, <1>3, PTL DEF DeskSpec

(* The CLOSED event of a ring-3 window stays pending until its program has *)
(* been told (kernel.c's ring3_event_pending has one place for all kinds). *)
THEOREM ClosedIsAlwaysTold == DeskSpec => []ClosedIsTold
<1>1. DeskInit => DeskInv
  BY InitHolds
<1>2. DeskInv /\ [DeskNext]_deskVars => DeskInv'
  BY NextKeeps
<1>3. DeskInv => ClosedIsTold
  BY InvGives
<1> QED  BY <1>1, <1>2, <1>3, PTL DEF DeskSpec
=============================================================================
