---------------------------- MODULE AudioStream ----------------------------
(***************************************************************************)
(* v1: the Sound Blaster's looping double buffer (drivers/sb16.c) and its  *)
(* users in kernel.c: the lazy start, BEEP, and the refill in kmain_frame. *)
(*                                                                         *)
(* The card plays half 0, half 1, half 0, ... for ever; at each boundary   *)
(* it raises IRQ5, which the interrupt controller latches once however     *)
(* often it is raised, and whose handler may run between any two steps of  *)
(* the frame loop.                                                         *)
(***************************************************************************)
EXTENDS Naturals

VARIABLES
  present,   \* sb16_present
  channel,   \* what DMA channel 1 is programmed for: "idle", "once", "loop"
  playing,   \* the half the DMA reads (meaningful in "loop")
  irq5,      \* IRQ5 latched, its handler not yet run
  wanted,    \* stream_refill_flag
  wantHalf,  \* stream_refill_half
  refill,    \* the half kmain_frame was handed, NoHalf when none
  rstep,     \* its progress: "idle", "render", "compare", "clear"
  fresh,     \* per half: rewritten since the card last played it (history)
  inTime     \* boundaries in a row that found every request served (history)
streamVars == << present, channel, playing, irq5, wanted, wantHalf, refill,
                 rstep, fresh, inTime >>

Half == {0, 1}
NoHalf == 2
Other(h) == 1 - h

\* sb16_init found a card, or did not.
StreamInit ==
  /\ present \in BOOLEAN
  /\ channel = "idle" /\ playing = 0 /\ irq5 = FALSE
  /\ wanted = FALSE /\ wantHalf = 0
  /\ refill = NoHalf /\ rstep = "idle" /\ fresh = [h \in Half |-> FALSE]
  /\ inTime = 0

Streaming == channel = "loop"

\* sb16_start_stream reprograms the channel even over a beep.
StartStream ==
  /\ present /\ ~Streaming
  /\ channel' = "loop" /\ playing' = 0 /\ wanted' = FALSE
  /\ UNCHANGED << present, irq5, wantHalf, refill, rstep >>

\* audio_ensure_stream_started, at the first synth word: a buffer of silence.
EnsureStreamStarted ==
  /\ StartStream
  /\ fresh' = [h \in Half |-> TRUE] /\ inTime' = 0

\* forth_hook_beep, sb16_play_buffer: refused while the stream owns the channel.
Beep ==
  /\ present /\ ~Streaming /\ channel' = "once"
  /\ UNCHANGED << present, playing, irq5, wanted, wantHalf, refill, rstep, fresh, inTime >>

\* The card: a beep ends, or the stream crosses into its other half.
BeepEnds ==
  /\ channel = "once" /\ channel' = "idle" /\ irq5' = TRUE
  /\ UNCHANGED << present, playing, wanted, wantHalf, refill, rstep, fresh, inTime >>

CrossBoundary ==
  /\ Streaming
  /\ playing' = Other(playing) /\ irq5' = TRUE
  /\ inTime' = IF irq5 \/ wanted \/ rstep # "idle" THEN 0
               ELSE IF inTime = 2 THEN 2 ELSE inTime + 1
  /\ fresh' = [fresh EXCEPT ![playing] = FALSE]
  /\ UNCHANGED << present, channel, wanted, wantHalf, refill, rstep >>

\* (mutant) a software toggle in place of the DMA's address register
HandleIrq5Toggles ==
  /\ irq5 /\ irq5' = FALSE
  /\ IF Streaming THEN wanted' = TRUE /\ wantHalf' = Other(wantHalf)
                  ELSE UNCHANGED << wanted, wantHalf >>
  /\ UNCHANGED << present, channel, playing, refill, rstep, fresh, inTime >>

\* irq5_handler, sb16_irq_ack: which half has been played is read from the DMA.
HandleIrq5 ==
  /\ irq5 /\ irq5' = FALSE
  /\ IF Streaming THEN wanted' = TRUE /\ wantHalf' = Other(playing)
                  ELSE UNCHANGED << wanted, wantHalf >>
  /\ UNCHANGED << present, channel, playing, refill, rstep, fresh, inTime >>

----------------------------------------------------------------------------
\* kmain_frame: sb16_stream_needs_refill, then synth_render_half into the half
\* it was handed, then sb16_stream_refill_done's comparison and its clear.
TakeRefill ==
  /\ rstep = "idle" /\ wanted
  /\ refill' = wantHalf /\ rstep' = "render"
  /\ UNCHANGED << present, channel, playing, irq5, wanted, wantHalf, fresh, inTime >>

RenderRefill ==
  /\ rstep = "render" /\ rstep' = "compare"
  /\ fresh' = [fresh EXCEPT ![refill] = TRUE]
  /\ UNCHANGED << present, channel, playing, irq5, wanted, wantHalf, refill, inTime >>

CompareRefill ==
  /\ rstep = "compare"
  /\ rstep' = IF wantHalf = refill THEN "clear" ELSE "idle"
  /\ refill' = IF wantHalf = refill THEN refill ELSE NoHalf
  /\ UNCHANGED << present, channel, playing, irq5, wanted, wantHalf, fresh, inTime >>

ClearRefill ==
  /\ rstep = "clear" /\ rstep' = "idle"
  /\ wanted' = FALSE /\ refill' = NoHalf
  /\ UNCHANGED << present, channel, playing, irq5, wantHalf, fresh, inTime >>

StreamNext ==
  \/ EnsureStreamStarted \/ Beep \/ BeepEnds \/ CrossBoundary \/ HandleIrq5
  \/ TakeRefill \/ RenderRefill \/ CompareRefill \/ ClearRefill

----------------------------------------------------------------------------
(***************************************************************************)
(* Once every boundary has been acknowledged, what is asked for is the     *)
(* half the card is not reading, however many interrupts were lost or      *)
(* merged (sb16_irq_ack: self-correcting on every single IRQ).  Before the *)
(* fix of a toggle, one lost interrupt tore every later refill.            *)
(***************************************************************************)
RefillBehindCard == Streaming /\ wanted /\ ~irq5 => wantHalf # playing

(***************************************************************************)
(* sb16_irq_ack's comment: a lost interrupt can never cause more than one  *)
(* stale refill.  Whatever went wrong before (merged interrupts, a slow    *)
(* frame, a request that sb16_stream_refill_done discards because IRQ5     *)
(* comes between its comparison and its clear), once two boundaries in a   *)
(* row find every request served, the card plays what was rendered for it. *)
(***************************************************************************)
StaleOnce == Streaming /\ inTime = 2 => fresh[playing]
=============================================================================
