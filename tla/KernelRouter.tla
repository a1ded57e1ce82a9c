---------------------------- MODULE KernelRouter ----------------------------
(***************************************************************************)
(* v2/core/kernel/kernel_router.c with the calls that app tasks make on    *)
(* the same state (bindings/window_binding.c, kernel_spawn.c) and the life *)
(* of an app task (vm_host/vm_host.c): windows, focus, touch gestures,     *)
(* title-bar drags and the event queues, while apps come and go.           *)
(*                                                                         *)
(* The router's task has the highest priority, so that one poll is one     *)
(* step; apps have one priority and interleave, one kernel call a step,    *)
(* save that the load and the store of an app's g_next_z++ are two.        *)
(* A task handle is used again once its task is deleted.                   *)
(***************************************************************************)
EXTENDS Sequences, WindowTable

CONSTANTS
  Desktop,  \* g_desktop_task: the handle the boot registers
  QLen,     \* length of an app's event queue (8)
  Rows,     \* last row of the screen
  MaxApps,  \* bound: apps started, the desktop included
  MaxCalls, \* bound: kernel calls in progress at a time
  MaxZ,     \* bound: the last z-order given out
  MaxDepth  \* bound: how far below 0 send_self_to_back goes

ASSUME RouterAssumption ==
  /\ Desktop \in Task
  /\ QLen \in Nat \ {0} /\ Rows \in Nat \ {0} /\ MaxApps \in Nat \ {0}
  /\ MaxCalls \in Nat /\ MaxZ \in Nat \ {0, 1} /\ MaxDepth \in Nat

VARIABLES
  tab,      \* g_windows
  nextZ,    \* g_next_z
  torn,     \* history: two g_next_z++ overlapped and gave out one z-order
  focus,    \* g_focus_task
  late,     \* history: focus was given to a task past its clear_focus
  touch,    \* g_touch_task: the owner of the gesture in progress
  drag,     \* g_drag_task, NoTask when g_drag_mode is DRAG_NONE
  was,      \* g_was_pressed
  lastRow,  \* g_last_y
  down,     \* history: tasks whose last touch event said "pressed"
  queue,    \* each task's event queue
  phase,    \* each task: "none", "run", then vm_host_task's cleanup
  app,      \* history: which app has the handle (0: none), in starting order
  started,  \* history: how many apps were started
  job       \* the kernel call an app is in the middle of

tableVars   == <<tab, nextZ, torn>>
focusVars   == <<focus, late>>
gestureVars == <<touch, drag, was, lastRow, down>>
lifeVars    == <<phase, app, started>>
vars == <<tableVars, focusVars, gestureVars, queue, lifeVars, job>>

Apps   == 1 .. MaxApps
Row    == 0 .. Rows
Handle == Task \cup {NoTask}
Event  == {"input", "close"}  \* KEY and TOUCH are told apart by nothing here

\* No finger, or one on a row, and if that is a title row on its dot or not.
Lifted == [row |-> -1, dot |-> FALSE]
Sample == {Lifted} \cup [row : Row, dot : {FALSE}]
                   \cup [row : {tab[s].row : s \in Used(tab)}, dot : {TRUE}]
Pressed(at) == at # Lifted

Idle == [call |-> "none"]
Job  == {Idle} \cup [call : {"create"}]
               \cup [call : {"register", "activate", "close"}, task : Task]
               \cup [call : {"fill", "raise"}, task : Task, slot : Slot, z : Nat]

Init ==
  /\ tab = [s \in Slot |->
       IF s = 1 THEN [used |-> TRUE, task |-> Desktop, app |-> 1, z |-> 1,
                      row |-> 0, h |-> Rows + 1, closable |-> FALSE]
                ELSE Free]
  /\ nextZ = 2 /\ torn = FALSE
  /\ focus = NoTask /\ late = FALSE
  /\ touch = NoTask /\ drag = NoTask /\ was = FALSE /\ lastRow = 0 /\ down = {}
  /\ queue = [t \in Task |-> <<>>]
  /\ phase = [t \in Task |-> IF t = Desktop THEN "run" ELSE "none"]
  /\ app = [t \in Task |-> IF t = Desktop THEN 1 ELSE 0]
  /\ started = 1
  /\ job = [t \in Task |-> Idle]

----------------------------------------------------------------------------
InCall == {t \in Task : job[t] # Idle}

\* Z-orders left for one more call, keeping those the calls in progress need.
RoomZ == nextZ + 2 * Cardinality(InCall) + 2 <= MaxZ

\* (mutant) an event sent whether there is room or not
SentAlways(q, t, e) ==
  IF HasWindow(tab, t) THEN [q EXCEPT ![t] = Append(@, e)] ELSE q

\* send_event: never waits; a full queue loses the event.
Sent(q, t, e) ==
  IF HasWindow(tab, t) /\ Len(q[t]) < QLen
    THEN [q EXCEPT ![t] = Append(@, e)] ELSE q

Focused(t) ==
  /\ focus' = t
  /\ late' = (t # NoTask /\ phase[t] \in {"unfocused", "none"})

Unfocused(t) == IF focus = t THEN Focused(NoTask) ELSE UNCHANGED focusVars

\* kernel_router_activate_window, by the router: of a window it just found.
Activated(t) ==
  /\ tab' = Raised(tab, ByTask(tab, t), nextZ)
  /\ nextZ' = nextZ + 1
  /\ Focused(t)
  /\ UNCHANGED torn

\* The store of a g_next_z++ that loaded z.
Given(z) == nextZ' = z + 1 /\ torn' = (torn \/ nextZ # z)

\* kernel_router_close_window, on the queues as the caller left them.
Closed(t, q) ==
  IF HasWindow(tab, t)
    THEN /\ queue' = Sent(q, t, "close")
         /\ tab' = Unregistered(tab, t)
         /\ Unfocused(t)
         /\ touch' = IF touch = t THEN NoTask ELSE touch
         /\ UNCHANGED <<nextZ, torn>>
    ELSE queue' = q /\ UNCHANGED <<tableVars, focusVars, touch>>

----------------------------------------------------------------------------
(* kernel_router_poll: a key, if any, goes to the focused window; then one *)
(* sample of the touch screen.  q is the queues after the key, at the      *)
(* sample.                                                                 *)

AfterKey(key) == IF key THEN Sent(queue, focus, "input") ELSE queue

Sampled(at) ==
  /\ was' = Pressed(at)
  /\ lastRow' = IF Pressed(at) THEN at.row ELSE lastRow

FreshPress(at)   == Pressed(at) /\ ~was
FreshRelease(at) == ~Pressed(at) /\ was

InStrip(at) == drag = NoTask /\ touch = NoTask /\ lastRow' < STRIP_H

\* A touch event for t: pressed or released.
Touched(q, t, at) ==
  /\ queue' = Sent(q, t, "input")
  /\ down' = IF ~HasWindow(tab, t) THEN down
             ELSE IF Pressed(at) THEN down \cup {t} ELSE down \ {t}

\* Nothing but a key this time.
Silence(q) == queue' = q /\ UNCHANGED down

\* The strip's own rule, ahead of every window's.
Strip(q, at) ==
  /\ InStrip(at)
  /\ IF Pressed(at) \/ FreshRelease(at) THEN Touched(q, Desktop, at) ELSE Silence(q)
  /\ UNCHANGED <<tableVars, focusVars, touch, drag>>

DragEnd(q, at) ==
  /\ drag # NoTask
  /\ ~HasWindow(tab, drag) \/ ~Pressed(at)
  /\ drag' = NoTask
  /\ Silence(q)
  /\ UNCHANGED <<tableVars, focusVars, touch>>

\* (mutant) a title bar may be left inside the strip
DragMoveNoClamp(q, at) ==
  /\ drag # NoTask /\ HasWindow(tab, drag) /\ Pressed(at)
  /\ tab' = [tab EXCEPT ![ByTask(tab, drag)].row = at.row]
  /\ Silence(q)
  /\ UNCHANGED <<nextZ, torn, focusVars, touch, drag>>

DragMove(q, at) ==
  /\ drag # NoTask /\ HasWindow(tab, drag) /\ Pressed(at)
  /\ tab' = [tab EXCEPT ![ByTask(tab, drag)].row =
               IF at.row < STRIP_H THEN STRIP_H ELSE at.row]
  /\ Silence(q)
  /\ UNCHANGED <<nextZ, torn, focusVars, touch, drag>>

\* A press that begins a gesture, below the strip.
Begins(at) == ~InStrip(at) /\ drag = NoTask /\ FreshPress(at)

OnTitle(at) == at.row = tab[FindAt(tab, at.row)].row
OnDot(at)   == OnTitle(at) /\ at.dot /\ tab[FindAt(tab, at.row)].closable
Under(at)   == tab[FindAt(tab, at.row)].task

PressNothing(q, at) ==
  /\ Begins(at) /\ Covering(tab, at.row) = {}
  /\ Silence(q)
  /\ UNCHANGED <<tableVars, focusVars, touch, drag>>

PressDot(q, at) ==
  /\ Begins(at) /\ Covering(tab, at.row) # {} /\ OnDot(at)
  /\ Closed(Under(at), q)
  /\ UNCHANGED <<drag, down>>

PressTitle(q, at) ==
  /\ Begins(at) /\ Covering(tab, at.row) # {} /\ OnTitle(at) /\ ~OnDot(at)
  /\ RoomZ
  /\ Activated(Under(at))
  /\ drag' = Under(at)
  /\ Silence(q)
  /\ UNCHANGED touch

PressBody(q, at) ==
  /\ Begins(at) /\ Covering(tab, at.row) # {} /\ ~OnTitle(at)
  /\ RoomZ
  /\ Activated(Under(at))
  /\ touch' = Under(at)
  /\ Touched(q, Under(at), at)
  /\ UNCHANGED drag

\* A sample within a gesture, for its owner only, or for nobody.
Continues(at) == ~InStrip(at) /\ drag = NoTask /\ ~FreshPress(at)

\* (mutant) a held finger touches whatever is under it now
HeldFindAt(q, at) ==
  /\ Continues(at) /\ Pressed(at)
  /\ IF Covering(tab, at.row) # {} THEN Touched(q, Under(at), at) ELSE Silence(q)
  /\ UNCHANGED <<tableVars, focusVars, touch, drag>>

Held(q, at) ==
  /\ Continues(at) /\ Pressed(at)
  /\ Touched(q, touch, at)
  /\ UNCHANGED <<tableVars, focusVars, touch, drag>>

\* (mutant) the gesture's owner is kept after the lift
LiftKeepsTouch(q, at) ==
  /\ Continues(at) /\ ~Pressed(at)
  /\ IF was THEN Touched(q, touch, at) ELSE Silence(q)
  /\ UNCHANGED <<tableVars, focusVars, touch, drag>>

Lift(q, at) ==
  /\ Continues(at) /\ ~Pressed(at)
  /\ IF was THEN Touched(q, touch, at) /\ touch' = NoTask
            ELSE Silence(q) /\ UNCHANGED touch
  /\ UNCHANGED <<tableVars, focusVars, drag>>

Poll ==
  \E key \in {FALSE, focus # NoTask}, at \in Sample :
    LET q == AfterKey(key) IN
      /\ Sampled(at)
      /\ \/ Strip(q, at) \/ DragEnd(q, at) \/ DragMove(q, at)
         \/ PressNothing(q, at) \/ PressDot(q, at)
         \/ PressTitle(q, at) \/ PressBody(q, at)
         \/ Held(q, at) \/ Lift(q, at)
      /\ UNCHANGED <<lifeVars, job>>

----------------------------------------------------------------------------
(* The calls an app's script makes.                                        *)

Running(t) == phase[t] = "run" /\ job[t] = Idle

\* (mutant) the loop takes :close for any other event
ReceiveIgnoresClose(t) ==
  /\ Running(t) /\ queue[t] # <<>>
  /\ queue' = [queue EXCEPT ![t] = Tail(@)]
  /\ UNCHANGED <<tableVars, focusVars, gestureVars, lifeVars, job>>

\* acid_poll_event: :close ends the script's loop.
Receive(t) ==
  /\ Running(t) /\ queue[t] # <<>>
  /\ queue' = [queue EXCEPT ![t] = Tail(@)]
  /\ phase' = [phase EXCEPT ![t] = IF Head(queue[t]) = "close" THEN "ended" ELSE @]
  /\ UNCHANGED <<tableVars, focusVars, gestureVars, app, started, job>>

\* desktop.rb, when its menu closes.
SendSelfToBack(t) ==
  /\ t = Desktop
  /\ Running(t) /\ HasWindow(tab, t)
  /\ tab' = SentToBack(tab, t)
  /\ tab'[ByTask(tab, t)].z >= -MaxDepth
  /\ UNCHANGED <<nextZ, torn, focusVars, gestureVars, queue, lifeVars, job>>

\* acid_activate_window, or a launch of a singleton that is already open:
\* the window is found, then its task is activated.
FindToActivate(t) ==
  /\ Running(t) /\ RoomZ
  /\ \E s \in Used(tab) :
       job' = [job EXCEPT ![t] = [call |-> "activate", task |-> tab[s].task]]
  /\ UNCHANGED <<tableVars, focusVars, gestureVars, queue, lifeVars>>

\* kernel_window_bring_to_front loads g_next_z for the window it finds ...
Activate(t) ==
  /\ job[t].call = "activate"
  /\ LET c == job[t].task IN
       IF HasWindow(tab, c)
         THEN /\ job' = [job EXCEPT ![t] = [call |-> "raise", task |-> c,
                                           slot |-> ByTask(tab, c), z |-> nextZ]]
              /\ UNCHANGED focusVars
         ELSE job' = [job EXCEPT ![t] = Idle] /\ Focused(c)
  /\ UNCHANGED <<tableVars, gestureVars, queue, lifeVars>>

\* ... and stores to that slot, whatever has become of it.  Focus moves even
\* to a task with no window.
Raise(t) ==
  /\ job[t].call = "raise"
  /\ tab' = Raised(tab, job[t].slot, job[t].z)
  /\ Given(job[t].z)
  /\ Focused(job[t].task)
  /\ job' = [job EXCEPT ![t] = Idle]
  /\ UNCHANGED <<gestureVars, queue, lifeVars>>

\* acid_close_window: any window but the caller's own.
FindToClose(t) ==
  /\ Running(t) /\ RoomZ
  /\ \E s \in Used(tab) :
       /\ tab[s].task # t
       /\ job' = [job EXCEPT ![t] = [call |-> "close", task |-> tab[s].task]]
  /\ UNCHANGED <<tableVars, focusVars, gestureVars, queue, lifeVars>>

Close(t) ==
  /\ job[t].call = "close"
  /\ Closed(job[t].task, queue)
  /\ job' = [job EXCEPT ![t] = Idle]
  /\ UNCHANGED <<drag, was, lastRow, down, lifeVars>>

\* kernel_spawn_app: the table's count is tested before the task is created ...
BeginSpawn(t) ==
  /\ Running(t) /\ RoomZ
  /\ ~Full(tab)
  /\ job' = [job EXCEPT ![t] = [call |-> "create"]]
  /\ UNCHANGED <<tableVars, focusVars, gestureVars, queue, lifeVars>>

\* ... no memory for its queue, its canvas or the task itself ...
CreateFails(t) ==
  /\ job[t].call = "create"
  /\ job' = [job EXCEPT ![t] = Idle]
  /\ UNCHANGED <<tableVars, focusVars, gestureVars, queue, lifeVars>>

\* ... the task runs at once, its window not yet registered ...
Create(t) ==
  /\ job[t].call = "create" /\ started < MaxApps
  /\ \E c \in Task :
       /\ phase[c] = "none"
       /\ phase' = [phase EXCEPT ![c] = "run"]
       /\ started' = started + 1
       /\ app' = [app EXCEPT ![c] = started']
       /\ job' = [job EXCEPT ![t] = [call |-> "register", task |-> c]]
  /\ UNCHANGED <<tableVars, focusVars, gestureVars, queue>>

\* ... kernel_window_register looks for a free slot; that there is none is not
\* looked at ...
Register(t) ==
  /\ job[t].call = "register"
  /\ LET c == job[t].task IN
       job' = [job EXCEPT ![t] =
                 IF Full(tab) THEN [call |-> "activate", task |-> c]
                 ELSE [call |-> "fill", task |-> c, slot |-> FreeSlot(tab), z |-> nextZ]]
  /\ UNCHANGED <<tableVars, focusVars, gestureVars, queue, lifeVars>>

\* ... and fills it, with the next z-order; the launcher then activates it.
Fill(t) ==
  /\ job[t].call = "fill"
  /\ LET c == job[t].task IN
       /\ \E r \in STRIP_H .. Rows :
            tab' = [tab EXCEPT ![job[t].slot] =
                     [used |-> TRUE, task |-> c, app |-> app[c], z |-> job[t].z,
                      row |-> r, h |-> 2, closable |-> TRUE]]
       /\ Given(job[t].z)
       /\ job' = [job EXCEPT ![t] = [call |-> "activate", task |-> c]]
  /\ UNCHANGED <<focusVars, gestureVars, queue, lifeVars>>

----------------------------------------------------------------------------
(* The end of an app: vm_host_task's cleanup.                              *)

\* Assumed: a script outlasts the few instructions between its spawner's
\* xTaskCreate and kernel_window_register.
BeingSpawned(t) ==
  \E p \in Task : job[p].call \in {"register", "fill"} /\ job[p].task = t

\* The script ends by itself, or on an exception.
Finish(t) ==
  /\ Running(t) /\ ~BeingSpawned(t)
  /\ phase' = [phase EXCEPT ![t] = "ended"]
  /\ UNCHANGED <<tableVars, focusVars, gestureVars, queue, app, started, job>>

Unregister(t) ==
  /\ phase[t] = "ended"
  /\ tab' = Unregistered(tab, t)
  /\ phase' = [phase EXCEPT ![t] = "unregistered"]
  /\ UNCHANGED <<nextZ, torn, focusVars, gestureVars, queue, app, started, job>>

\* (mutant) the cleanup forgets the focus
ClearNoFocus(t) ==
  /\ phase[t] = "unregistered"
  /\ phase' = [phase EXCEPT ![t] = "unfocused"]
  /\ UNCHANGED <<tableVars, focusVars, gestureVars, queue, app, started, job>>

ClearFocus(t) ==
  /\ phase[t] = "unregistered"
  /\ Unfocused(t)
  /\ phase' = [phase EXCEPT ![t] = "unfocused"]
  /\ UNCHANGED <<tableVars, gestureVars, queue, app, started, job>>

\* vQueueDelete and vTaskDelete: the handle may be given out again.
Delete(t) ==
  /\ phase[t] = "unfocused"
  /\ phase' = [phase EXCEPT ![t] = "none"]
  /\ queue' = [queue EXCEPT ![t] = <<>>]
  /\ down' = down \ {t}
  /\ app' = [app EXCEPT ![t] = 0]
  /\ UNCHANGED <<tableVars, focusVars, touch, drag, was, lastRow, started, job>>

----------------------------------------------------------------------------
Finding(t) ==
  /\ Cardinality(InCall) < MaxCalls
  /\ FindToActivate(t) \/ FindToClose(t) \/ BeginSpawn(t)
Calling(t) ==
  \/ Activate(t) \/ Raise(t) \/ Close(t)
  \/ CreateFails(t) \/ Create(t) \/ Register(t) \/ Fill(t)
Ending(t)  == Unregister(t) \/ ClearFocus(t) \/ Delete(t)

AppStep(t) ==
  Receive(t) \/ SendSelfToBack(t) \/ Finding(t) \/ Calling(t) \/ Finish(t) \/ Ending(t)

Next == Poll \/ \E t \in Task : AppStep(t)

\* The scheduler shares the processor among the apps: each goes on with its
\* call and its cleanup, and its script's handlers return to the event loop.
Fairness ==
  \A t \in Task :
    WF_vars(Calling(t)) /\ WF_vars(Ending(t)) /\ SF_vars(Receive(t))

Spec == Init /\ [][Next]_vars /\ Fairness

----------------------------------------------------------------------------
(* Properties.                                                             *)

TypeOK ==
  /\ tab \in [Slot -> Window(Apps) \cup {Free}]
  /\ nextZ \in Nat /\ torn \in BOOLEAN
  /\ focus \in Handle /\ late \in BOOLEAN
  /\ touch \in Handle /\ drag \in Handle
  /\ was \in BOOLEAN /\ lastRow \in Row /\ down \subseteq Task
  /\ queue \in [Task -> Seq(Event)] /\ \A t \in Task : Len(queue[t]) <= QLen
  /\ phase \in [Task -> {"none", "run", "ended", "unregistered", "unfocused"}]
  /\ app \in [Task -> 0 .. MaxApps] /\ started \in Apps
  /\ job \in [Task -> Job]

\* A finger is in one gesture: it drags a title bar or touches a window and
\* never both, and none outlives the finger's lift, whatever was closed or
\* ended meanwhile.  (A gesture left behind would lock the strip out.)
OneGesture ==
  /\ touch # NoTask => was /\ drag = NoTask
  /\ drag # NoTask => was

\* But for a torn g_next_z++, z-orders are a strict order of the windows, and
\* the next one given out is above them all: a tie would hide a window from
\* next_by_z's walk and make find_at depend on the slot.
StrictZOrder ==
  /\ \A r, s \in Used(tab) : r # s => tab[r].task # tab[s].task
  /\ ~torn => /\ \A r, s \in Used(tab) : r # s => tab[r].z # tab[s].z
              /\ \A s \in Used(tab) : tab[s].z < nextZ

\* Every window in the table is of an app whose queue exists, and of the app
\* that has the handle now: send_event, which reads win->queue, never uses a
\* deleted queue or another app's.
LiveQueues ==
  \A s \in Used(tab) : /\ phase[tab[s].task] \in {"run", "ended"}
                       /\ app[tab[s].task] = tab[s].app

\* The keyboard's focus is never left with a deleted task, save by a call
\* that activated a window found before its task went away.
FocusLive == focus # NoTask => late \/ phase[focus] # "none"

\* Pointer capture: of the windows that were told of a finger and not yet of
\* its lift, all but the desktop own the gesture.  A touch never leaks into
\* a window opened, raised, dragged or uncovered under the finger.
CaptureKept ==
  \A t \in down : HasWindow(tab, t) => t \in {touch, Desktop}

\* No app's title bar is ever inside the strip, where the strip would claim
\* every press on it (kernel_router_poll's clamp, cascade's first row).
TitlesReachable ==
  \A s \in Used(tab) : tab[s].closable => tab[s].row >= STRIP_H

\* An app whose CLOSE got into its queue ends, and its handle is freed.
CloseEnds ==
  \A t \in Task : (\E i \in 1 .. Len(queue[t]) : queue[t][i] = "close")
                     ~> phase[t] = "none"

\* send_event's comment, of CLOSE: it goes "to a queue that was just created
\* and so can never be full": a window taken from a running app has its
\* CLOSE in the app's queue.
CloseDelivered ==
  [][\A t \in Task :
       phase[t] = "run" /\ HasWindow(tab, t) /\ ~HasWindow(tab', t)
         => \E i \in 1 .. Len(queue'[t]) : queue'[t][i] = "close"]_vars

\* kernel_router_poll's comment: "The release belongs to the window that got
\* the press, even if the finger has since moved off it" - once the finger is
\* up, no window is left that was told "pressed" last.
EveryPressReleased == ~was => \A t \in down : ~HasWindow(tab, t)

\* kernel_router_composite_frame's comment: it is to "walk every window
\* back-to-front in z-order" - no window is left out of the frame (but for a
\* tie after a torn g_next_z++).
EveryWindowComposited == torn \/ Composited(tab) = Used(tab)
=============================================================================
