-------------------------- MODULE ProgramScheduler --------------------------
(***************************************************************************)
(* v1: the cooperative program scheduler (sched/scheduler.c), the RUN      *)
(* command that starts a script in a slot (kernel.c), and the part of      *)
(* kmain_frame that gives programs their slices and decides whether the    *)
(* processor may halt until the next interrupt.                            *)
(*                                                                         *)
(* Nothing here is preempted: a frame runs poll, tick, end; inside the     *)
(* tick a switched-in program runs until it yields or returns.  What a     *)
(* script computes is ForthVM's subject; here it yields, returns, or       *)
(* overruns its stack and then does either.                                *)
(***************************************************************************)
EXTENDS Integers, FiniteSets

CONSTANTS
  MaxPrograms,   \* MAX_PROGRAMS
  GraceFrames,   \* SCHEDULER_CLOSE_GRACE_FRAMES
  SplashFrames,  \* BOOT_SPLASH_FRAMES
  MaxLaunches    \* bound: RUN commands accepted

ASSUME SchedAssumption == MaxPrograms \in Nat \ {0} /\ GraceFrames \in Nat
                          /\ SplashFrames \in Nat /\ MaxLaunches \in Nat

VARIABLES
  pstate,    \* programs[s].state: "empty", "reserved" or "ready"
  pclose,    \* programs[s].close_requested_frame, -1 for none
  canary,    \* the canary word at the end of the slot's stack is intact
  running,   \* running_slot, -1 outside any program
  tickAt,    \* scheduler_tick's loop index; MaxPrograms when it has ended
  fphase,    \* "poll", "tick", or "halt": where kmain_frame is
  hadEvent,  \* had_event
  splash,    \* frames_left of the boot banner
  launches   \* RUN commands accepted so far
schedVars == << pstate, pclose, canary, running, tickAt, fphase, hadEvent,
                splash, launches >>

ProgSlot == 0 .. MaxPrograms - 1

SchedInit ==
  /\ pstate = [s \in ProgSlot |-> "empty"] /\ pclose = [s \in ProgSlot |-> -1]
  /\ canary = [s \in ProgSlot |-> FALSE]
  /\ running = -1 /\ tickAt = MaxPrograms /\ fphase = "poll"
  /\ hadEvent = FALSE /\ splash = SplashFrames /\ launches = 0

\* scheduler_reserve: the lowest empty slot, or -1.
Reserved ==
  IF \E s \in ProgSlot : pstate[s] = "empty"
    THEN CHOOSE s \in ProgSlot : pstate[s] = "empty"
                                 /\ \A r \in 0 .. s - 1 : pstate[r] # "empty"
    ELSE -1

\* (mutant) the idle path forgets the programs
AnyActiveNever == FALSE

\* scheduler_any_active
AnyActive == \E s \in ProgSlot : pstate[s] # "empty"

StartTick == fphase' = "tick" /\ tickAt' = 0

\* scheduler_activate primes the reserved slot's stack.
Activated(s) ==
  /\ pstate' = [pstate EXCEPT ![s] = "ready"]
  /\ pclose' = [pclose EXCEPT ![s] = -1]
  /\ canary' = [canary EXCEPT ![s] = TRUE]

\* handle_run_command: reserve and activate.  With no slot left the console says
\* so and nothing else happens.
RunCommand ==
  /\ fphase = "poll" /\ launches < MaxLaunches
  /\ hadEvent' = TRUE /\ StartTick
  /\ LET s == Reserved IN
       IF s = -1 THEN UNCHANGED << pstate, pclose, canary, launches >>
       ELSE launches' = launches + 1 /\ Activated(s)
  /\ UNCHANGED << running, splash >>

\* A frame with some other input, or with none.
OtherInput(event) ==
  /\ fphase = "poll" /\ hadEvent' = event /\ StartTick
  /\ UNCHANGED << pstate, pclose, canary, running, splash, launches >>

\* (mutant) asking again restarts the count
RequestCloseRestarts(s) ==
  /\ fphase = "poll" /\ pstate[s] = "ready" /\ pclose[s] # 0
  /\ pclose' = [pclose EXCEPT ![s] = 0]
  /\ UNCHANGED << pstate, canary, running, tickAt, fphase,
                  hadEvent, splash, launches >>

\* scheduler_request_close: only for a live program not already counting.
RequestClose(s) ==
  /\ fphase = "poll" /\ pstate[s] = "ready" /\ pclose[s] < 0
  /\ pclose' = [pclose EXCEPT ![s] = 0]
  /\ UNCHANGED << pstate, canary, running, tickAt, fphase,
                  hadEvent, splash, launches >>

----------------------------------------------------------------------------
Ticking(s) == fphase = "tick" /\ running = -1 /\ tickAt = s /\ s \in ProgSlot

\* The close count after this tick has advanced it.
Aged(s) == IF pclose[s] >= 0 THEN pclose[s] + 1 ELSE -1

\* A slot the tick passes over: not runnable, out of grace, or overrun.
TickSkip(s) ==
  /\ Ticking(s)
  /\ pstate[s] # "ready" \/ Aged(s) > GraceFrames \/ ~canary[s]
  /\ tickAt' = s + 1
  /\ IF pstate[s] # "ready" THEN UNCHANGED << pstate, pclose >>
     ELSE /\ pstate' = [pstate EXCEPT ![s] = "empty"]
          /\ pclose' = [pclose EXCEPT ![s] = Aged(s)]
  /\ UNCHANGED << canary, running, fphase, hadEvent, splash, launches >>

\* context_switch into the program.
TickSwitch(s) ==
  /\ Ticking(s) /\ pstate[s] = "ready" /\ Aged(s) <= GraceFrames /\ canary[s]
  /\ pclose' = [pclose EXCEPT ![s] = Aged(s)]
  /\ running' = s
  /\ UNCHANGED << pstate, canary, tickAt, fphase, hadEvent,
                  splash, launches >>

\* Back on the kernel's stack: the next slot's turn.
SwitchBack == running' = -1 /\ tickAt' = tickAt + 1

\* forth_hook_yield, scheduler_yield: the stack may have been overrun meanwhile.
ProgramYield(overrun) ==
  /\ running >= 0 /\ SwitchBack
  /\ canary' = [canary EXCEPT ![running] = @ /\ ~overrun]
  /\ UNCHANGED << pstate, pclose, fphase, hadEvent, splash, launches >>

\* run_program_entry returns to program_trampoline, which frees the slot.
ProgramReturn ==
  /\ running >= 0 /\ SwitchBack
  /\ pstate' = [pstate EXCEPT ![running] = "empty"]
  /\ UNCHANGED << pclose, canary, fphase, hadEvent, splash, launches >>

\* boot_splash_tick
BannerTick == splash' = IF splash > 0 THEN splash - 1 ELSE 0

\* The end of kmain_frame: redraw and go on when something happened, a program
\* is active or the banner just hid; keep spinning while the banner is up;
\* otherwise hlt.
FrameEnd ==
  /\ fphase = "tick" /\ tickAt = MaxPrograms
  /\ BannerTick
  /\ fphase' = IF hadEvent \/ AnyActive \/ splash > 0 THEN "poll" ELSE "halt"
  /\ UNCHANGED << pstate, pclose, canary, running, tickAt,
                  hadEvent, launches >>

\* Any interrupt ends the hlt.
Wakeup ==
  /\ fphase = "halt" /\ fphase' = "poll"
  /\ UNCHANGED << pstate, pclose, canary, running, tickAt,
                  hadEvent, splash, launches >>

\* What goes on by itself: the processor executes while it is not halted, and a
\* program comes back (nothing preempts one that does not).
FrameStep ==
  \/ \E e \in BOOLEAN : OtherInput(e)
  \/ \E s \in ProgSlot : TickSkip(s) \/ TickSwitch(s)
  \/ \E o \in BOOLEAN : ProgramYield(o)
  \/ ProgramReturn \/ FrameEnd

SchedNext ==
  \/ FrameStep \/ RunCommand \/ Wakeup
  \/ \E s \in ProgSlot : RequestClose(s)

----------------------------------------------------------------------------
(***************************************************************************)
(* A runnable program is switched into again, whatever the user does or    *)
(* does not do, or its slot is freed: the frame loop never halts on it     *)
(* (scheduler_any_active's comment) and the tick passes over no slot.      *)
(***************************************************************************)
RunsAgain == \A s \in ProgSlot :
  (pstate[s] = "ready" /\ running # s) ~> (running = s \/ pstate[s] = "empty")

(***************************************************************************)
(* A program asked to close is gone within its grace, by returning or by   *)
(* being freed, even if the close is asked for again every frame           *)
(* (scheduler_request_close: idempotent).                                  *)
(***************************************************************************)
CloseTakesEffect == \A s \in ProgSlot : (pclose[s] >= 0) ~> (pstate[s] = "empty")
=============================================================================
