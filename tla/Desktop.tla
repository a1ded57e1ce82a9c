------------------------------ MODULE Desktop ------------------------------
(***************************************************************************)
(* v1: the desktop of kmain_frame (kernel.c): windows and their stacking   *)
(* order, the start menu and the taskbar, which field has the keyboard,    *)
(* and the one-event mailbox between the desktop and a ring-3 program.     *)
(*                                                                         *)
(* Geometry is an input: a mouse packet comes with the part of each window *)
(* that lies under the cursor (its pile) and the part of the menu or the   *)
(* taskbar there, if any.  What the widgets do with a click or a key is    *)
(* the subject of FilesWindow and ForthVM; where pixels go, of Damage.     *)
(***************************************************************************)
EXTENDS Integers, Sequences, FiniteSets

CONSTANTS
  Kinds,     \* the WIN_KIND_ values modelled; "shell", "editor", "ring3" among them
  Piles,     \* the combinations [Kinds -> WindowParts] offered to a packet
  BootOrder  \* z_order at boot, frontmost first

\* "field" is the input field of a built-in window and the body of the ring-3 one.
WindowParts == { "out", "close", "minimize", "title", "field" }

ASSUME DesktopAssumption ==
  /\ IsFiniteSet(Kinds) /\ { "shell", "editor", "ring3" } \subseteq Kinds
  /\ Piles \subseteq [Kinds -> WindowParts]
  /\ BootOrder \in [1 .. Cardinality(Kinds) -> Kinds]
  /\ \A k \in Kinds : \E i \in DOMAIN BootOrder : BootOrder[i] = k

VARIABLES
  wstate,     \* windows[k].state: "open", "minimized" or "closed"
  order,      \* z_order, frontmost first
  dragging,   \* dragging_window, or "none"
  menuOpen,   \* menu.open
  focus,      \* the kinds whose focused flag (ci, shell_ci, ed, ring3_focused) is set
  held,       \* prev_left_held
  mailbox,    \* ring3_event_pending: "none", "closed", "click" or "key"
  prog,       \* the ring-3 program: "none", "starting", "waiting" in
              \* SYS_WAIT_EVENT, or "deaf" (PAINT's last loop discards events)
  owed        \* history: the user closed the window, its program is yet to hear
deskVars == << wstate, order, dragging, menuOpen, focus, held, mailbox, prog, owed >>

DeskInit ==
  /\ wstate = [k \in Kinds |-> "closed"] /\ order = BootOrder
  /\ dragging = "none" /\ menuOpen = FALSE /\ focus = {} /\ held = FALSE
  /\ mailbox = "none" /\ prog = "none" /\ owed = FALSE

\* raise_window: what lay in front of k moves back by one.
Raised(k) ==
  LET pos == CHOOSE i \in DOMAIN order : order[i] = k IN
  [i \in DOMAIN order |-> IF i = 1 THEN k
                          ELSE IF i <= pos THEN order[i - 1] ELSE order[i]]

OpenRaised(k) == wstate' = [wstate EXCEPT ![k] = "open"] /\ order' = Raised(k)

\* topmost_window_at: the kinds it may return are {} or one kind.
Topmost(p, state, z) ==
  LET hit == { i \in DOMAIN z : state[z[i]] = "open" /\ p[z[i]] # "out" } IN
  { z[i] : i \in { i \in hit : \A j \in hit : i <= j } }

\* (mutant) a click gives the focus and never takes it away
FocusAtSticky(p, top) == focus \cup { k \in top : p[k] = "field" }

\* Every focused flag is recomputed from the window now topmost at the click.
FocusAt(p, top) == { k \in top : p[k] = "field" }

\* What every packet ends with: the ring-3 CLICK (as long as the button is
\* down), the focus (on a press), and the remembered button.
Settle(p, left, event) ==
  LET top == Topmost(p, wstate', order') IN
  /\ mailbox' = IF left /\ "ring3" \in top /\ p["ring3"] = "field"
                  THEN "click" ELSE event
  /\ focus' = IF left /\ ~held THEN FocusAt(p, top) ELSE focus
  /\ held' = left

\* Packets are drained whenever a frame runs; none runs while the program does.
Draining == prog # "starting"

NoWindowChange == UNCHANGED << wstate, order, dragging, owed >>

DragPacket(p, left) ==
  /\ Draining /\ dragging # "none"
  /\ dragging' = IF left THEN dragging ELSE "none"
  /\ UNCHANGED << wstate, order, menuOpen, prog, owed >>
  /\ Settle(p, left, mailbox)

\* A packet that presses nothing: the button is up, or was down already.
IdlePacket(p, left) ==
  /\ Draining /\ dragging = "none" /\ (left => held)
  /\ NoWindowChange /\ UNCHANGED << menuOpen, prog >>
  /\ Settle(p, left, mailbox)

Pressing == Draining /\ dragging = "none" /\ ~held

\* SHELL, as FORTH, FILES, CONFIG and GAMES: open and raise.
MenuShell(p) ==
  /\ Pressing /\ menuOpen /\ menuOpen' = FALSE
  /\ OpenRaised("shell")
  /\ UNCHANGED << dragging, prog, owed >>
  /\ Settle(p, TRUE, mailbox)

\* PAINT: program_load_and_run does not return, so the packet is never finished;
\* a program already there is abandoned.
MenuPaint ==
  /\ Pressing /\ menuOpen
  /\ prog' = "starting" /\ owed' = FALSE
  /\ UNCHANGED << wstate, order, dragging, menuOpen, focus, held, mailbox >>

\* FX, PAINT when its file cannot be read, and a press beside the open menu.
MenuDismiss(p) ==
  /\ Pressing /\ menuOpen /\ menuOpen' = FALSE
  /\ NoWindowChange /\ UNCHANGED prog
  /\ Settle(p, TRUE, mailbox)

\* startmenu_hit_button; the button and the bar lie clear of every window.
Bare == [k \in Kinds |-> "out"]
MenuButton ==
  /\ Pressing /\ menuOpen' = ~menuOpen
  /\ NoWindowChange /\ UNCHANGED prog
  /\ Settle(Bare, TRUE, mailbox)

\* taskbar_hit_entry: a window that is not closed has an entry.
TaskbarEntry(k) ==
  /\ Pressing /\ ~menuOpen /\ wstate[k] # "closed"
  /\ IF wstate[k] = "open" /\ order[1] = k
       THEN wstate' = [wstate EXCEPT ![k] = "minimized"] /\ UNCHANGED order
       ELSE OpenRaised(k)
  /\ UNCHANGED << dragging, menuOpen, prog, owed >>
  /\ Settle(Bare, TRUE, mailbox)

PressNothing(p) ==
  /\ Pressing /\ ~menuOpen /\ Topmost(p, wstate, order) = {}
  /\ NoWindowChange /\ UNCHANGED << menuOpen, prog >>
  /\ Settle(p, TRUE, mailbox)

PressClose(p, k) ==
  /\ Pressing /\ ~menuOpen /\ k \in Topmost(p, wstate, order) /\ p[k] = "close"
  /\ wstate' = [wstate EXCEPT ![k] = "closed"]
  /\ owed' = (owed \/ k = "ring3")
  /\ UNCHANGED << order, dragging, menuOpen, prog >>
  /\ Settle(p, TRUE, IF k = "ring3" THEN "closed" ELSE mailbox)

PressMinimize(p, k) ==
  /\ Pressing /\ ~menuOpen /\ k \in Topmost(p, wstate, order) /\ p[k] = "minimize"
  /\ wstate' = [wstate EXCEPT ![k] = "minimized"]
  /\ UNCHANGED << order, dragging, menuOpen, prog, owed >>
  /\ Settle(p, TRUE, mailbox)

\* Anywhere else on a window raises it; a title bar starts a drag, but not ring-3's.
PressRaise(p, k) ==
  /\ Pressing /\ ~menuOpen /\ k \in Topmost(p, wstate, order)
  /\ p[k] \in { "title", "field" }
  /\ order' = Raised(k) /\ UNCHANGED wstate
  /\ dragging' = IF p[k] = "title" /\ k # "ring3" THEN k ELSE "none"
  /\ UNCHANGED << menuOpen, prog, owed >>
  /\ Settle(p, TRUE, mailbox)

----------------------------------------------------------------------------
\* ring3_wait_event after each frame: a pending event is taken and returned.
Deliver(event) ==
  IF prog \in { "waiting", "deaf" } /\ event # "none"
    THEN /\ mailbox' = "none"
         /\ owed' = (owed /\ event # "closed")
         /\ prog' = IF event = "closed" THEN "deaf" ELSE prog
    ELSE mailbox' = event /\ UNCHANGED << owed, prog >>

EndFrame ==
  /\ Draining /\ Deliver(mailbox)
  /\ UNCHANGED << wstate, order, dragging, menuOpen, focus, held >>

\* One key per frame, to the first focused field of the routing chain.
EndFrameKey ==
  /\ Draining
  /\ Deliver(IF focus \cap (Kinds \ { "ring3" }) = {} /\ "ring3" \in focus
               THEN "key" ELSE mailbox)
  /\ UNCHANGED << wstate, order, dragging, menuOpen, focus, held >>

\* Enter in the shell after EDIT: the editor opens in front, the focus stays.
EndFrameEdit ==
  /\ Draining /\ "shell" \in focus
  /\ OpenRaised("editor") /\ Deliver(mailbox)
  /\ UNCHANGED << dragging, menuOpen, focus, held >>

\* PAINT's first system calls: window_ring3_open, then SYS_WAIT_EVENT, which
\* returns at once when something was pending.
ProgramOpens ==
  /\ prog = "starting"
  /\ OpenRaised("ring3")
  /\ prog' = IF mailbox = "closed" THEN "deaf" ELSE "waiting"
  /\ mailbox' = "none"
  /\ UNCHANGED << dragging, menuOpen, focus, held, owed >>

DeskNext ==
  \/ \E p \in Piles, left \in BOOLEAN : DragPacket(p, left) \/ IdlePacket(p, left)
  \/ \E p \in Piles : MenuShell(p) \/ MenuDismiss(p) \/ PressNothing(p)
  \/ MenuPaint \/ MenuButton
  \/ \E k \in Kinds : TaskbarEntry(k)
  \/ \E p \in Piles, k \in Kinds :
       PressClose(p, k) \/ PressMinimize(p, k) \/ PressRaise(p, k)
  \/ EndFrame \/ EndFrameKey \/ EndFrameEdit
  \/ ProgramOpens

----------------------------------------------------------------------------
(* One window at most has the keyboard, and it is one the user can see: no *)
(* close, minimize, taskbar or menu action leaves keys going to a window   *)
(* that is gone (kernel.c: any click edge sets focus).                     *)
FocusSound ==
  /\ Cardinality(focus) <= 1
  /\ \A k \in focus : wstate[k] = "open"

(* "The only signal it will ever get": from the moment the user closes a   *)
(* ring-3 window until its program has been told, the pending event is     *)
(* CLOSED; no click and no key of a later packet takes its place.          *)
ClosedIsTold == owed => mailbox = "closed"
=============================================================================
