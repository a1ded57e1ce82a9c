----------------------------- MODULE InputRings -----------------------------
(***************************************************************************)
(* v1: the PS/2 keyboard and mouse (drivers/keyboard.c, drivers/mouse.c,   *)
(* the handlers of arch/isr.c) and the cursor that kmain_frame moves.      *)
(*                                                                         *)
(* Each handler pushes one byte into its ring and drops it when the ring   *)
(* is full; the frame loop takes bytes out, and an interrupt may come      *)
(* between any two of them.  A mouse byte is the integer the device sends, *)
(* since a decoder that lost its place reads motion as flags; a scancode   *)
(* is the name of its key.                                                 *)
(***************************************************************************)
EXTENDS Integers, Sequences

CONSTANTS
  KbdSize, MouseSize,  \* KBD_BUFFER_SIZE, MOUSE_BUFFER_SIZE
  CursorMax,           \* w - CURSOR_SIZE and h - CURSOR_SIZE
  Motions,             \* bound: the movements <<dx, dy>> the user makes
  KeyMoves,            \* bound: the key events the user makes
  MaxPackets, MaxKeyEvents  \* bounds: how many of each

ASSUME InputAssumption ==
  /\ KbdSize \in Nat \ {0, 1} /\ MouseSize \in Nat \ {0, 1}
  /\ CursorMax \in Nat /\ MaxPackets \in Nat /\ MaxKeyEvents \in Nat
  /\ Motions \subseteq Int \X Int
  /\ KeyMoves \subseteq {"lshift", "rshift", "arrow", "letter"} \X BOOLEAN

VARIABLES
  kring,    \* scancodes in the keyboard ring
  ktodo,    \* scancodes of the current key event not yet sent (the keyboard)
  kext,     \* pending_extended
  lshift, rshift,    \* lshift_held, rshift_held
  kdue,     \* characters typed and not yet returned by keyboard_poll_char (history)
  kwrong,   \* one was returned that was not typed (history)
  klost,    \* a scancode was dropped (history)
  ldown, rdown,      \* the shift keys themselves
  kevents,  \* key events so far
  mring,    \* bytes in the mouse ring, each with its packet and place in it
  mtodo,    \* bytes of the current packet not yet sent (the mouse)
  pending,  \* pending[0 .. pending_count - 1]
  cursor,   \* << mx, my >>
  aimed,    \* where the device's movements put the cursor (history)
  mlost,    \* bytes dropped (history)
  torn,     \* packets decoded from bytes of more than one (history)
  plain,    \* no motion byte sent so far looks like a first byte (history)
  packets   \* packets so far
kbdVars == << kring, ktodo, kext, lshift, rshift, kdue, kwrong, klost, ldown,
              rdown, kevents >>
mouseVars == << mring, mtodo, pending, cursor, aimed, mlost, torn, plain, packets >>
inputVars == << kbdVars, mouseVars >>

InputInit ==
  /\ kring = <<>> /\ ktodo = <<>> /\ kext = FALSE /\ kdue = <<>>
  /\ lshift = FALSE /\ rshift = FALSE /\ ldown = FALSE /\ rdown = FALSE
  /\ kwrong = FALSE /\ klost = FALSE /\ kevents = 0
  /\ mring = <<>> /\ mtodo = <<>> /\ pending = <<>>
  /\ cursor = << 0, 0 >> /\ aimed = << 0, 0 >> /\ mlost = 0 /\ torn = 0
  /\ plain = TRUE /\ packets = 0

----------------------------------------------------------------------------
\* The keyboard (the device): a key event is its scancodes; an arrow key sends
\* E0 first, and wraps its code in E0-prefixed shift codes while Shift is down.
Codes(key, down) ==
  LET code == << key, down >>
      fake == << "lshift", ~down >>
  IN  IF key = "arrow"
        THEN LET prefix == << "e0", TRUE >> IN
             CASE ~ldown -> << prefix, code >>
               [] ldown /\ down -> << prefix, fake, prefix, code >>
               [] ldown /\ ~down -> << prefix, code, prefix, fake >>
        ELSE << code >>

KeyEvent(key, down) ==
  /\ ktodo = <<>> /\ kevents < MaxKeyEvents
  /\ (key = "lshift" => ldown # down) /\ (key = "rshift" => rdown # down)
  /\ kevents' = kevents + 1
  /\ ktodo' = Codes(key, down)
  /\ ldown' = IF key = "lshift" THEN down ELSE ldown
  /\ rdown' = IF key = "rshift" THEN down ELSE rdown
  /\ kdue' = CASE down /\ key = "arrow" -> Append(kdue, "KEY_UP")
               [] down /\ key = "letter" -> Append(kdue, IF ldown \/ rdown THEN "A" ELSE "a")
               [] OTHER -> kdue
  /\ UNCHANGED << kring, kext, lshift, rshift, kwrong, klost, mouseVars >>

\* irq1_keyboard, keyboard_irq_push_scancode
KeyIrq ==
  /\ ktodo # <<>> /\ ktodo' = Tail(ktodo)
  /\ IF Len(kring) < KbdSize - 1
       THEN kring' = Append(kring, Head(ktodo)) /\ UNCHANGED klost
       ELSE klost' = TRUE /\ UNCHANGED kring
  /\ UNCHANGED << kext, lshift, rshift, kdue, kwrong, ldown, rdown, kevents, mouseVars >>

\* keyboard_poll_char hands a character to the frame loop.
Returned(c) ==
  /\ kwrong' = (kwrong \/ kdue = <<>> \/ (kdue # <<>> /\ Head(kdue) # c))
  /\ kdue' = IF kdue = <<>> THEN kdue ELSE Tail(kdue)

\* (mutant) shift codes recognised before the prefix is looked at
TakeScancodeShiftFirst ==
  LET sc == Head(kring) IN
  /\ kring # <<>> /\ kring' = Tail(kring)
  /\ kext' = (sc[1] = "e0")
  /\ lshift' = IF sc[1] = "lshift" THEN sc[2] ELSE lshift
  /\ rshift' = IF sc[1] = "rshift" THEN sc[2] ELSE rshift
  /\ IF ~sc[2] \/ sc[1] \notin {"arrow", "letter"} THEN UNCHANGED << kdue, kwrong >>
     ELSE Returned(IF sc[1] = "arrow" THEN "KEY_UP"
                   ELSE IF lshift \/ rshift THEN "A" ELSE "a")
  /\ UNCHANGED << ktodo, klost, ldown, rdown, kevents, mouseVars >>

\* keyboard_poll_char on one scancode: a prefix is remembered; after a prefix
\* only a pressed, known key yields anything; a shift is remembered; a release
\* or an unmapped code yields nothing.
TakeScancode ==
  LET sc == Head(kring)
      key == sc[1]
      down == sc[2]
      isShift == ~kext /\ key \in {"lshift", "rshift"}
  IN
  /\ kring # <<>> /\ kring' = Tail(kring)
  /\ kext' = (key = "e0")
  /\ lshift' = IF isShift /\ key = "lshift" THEN down ELSE lshift
  /\ rshift' = IF isShift /\ key = "rshift" THEN down ELSE rshift
  /\ IF down /\ key # "e0" /\ (kext <=> key = "arrow") /\ key \in {"arrow", "letter"}
       THEN Returned(IF kext THEN "KEY_UP" ELSE IF lshift \/ rshift THEN "A" ELSE "a")
       ELSE UNCHANGED << kdue, kwrong >>
  /\ UNCHANGED << ktodo, klost, ldown, rdown, kevents, mouseVars >>

----------------------------------------------------------------------------
Bit(b, i) == (b \div 2^i) % 2
ToBit(p) == IF p THEN 1 ELSE 0
Sized(d) == d >= -256 /\ d <= 255

\* The mouse (the device): +Y is up; a movement outside nine bits sets its
\* overflow flag and leaves only its sign right.
Packet(dx, dy) ==
  << 8 + 16 * ToBit(dx < 0) + 32 * ToBit(-dy < 0)
       + 64 * ToBit(~Sized(dx)) + 128 * ToBit(~Sized(-dy)),
     dx % 256, (-dy) % 256 >>

ClampCursor(n) == IF n < 0 THEN 0 ELSE IF n > CursorMax THEN CursorMax ELSE n
Counted(d) == IF Sized(d) THEN d ELSE IF d < 0 THEN -255 ELSE 255

MouseMoves(dx, dy) ==
  LET p == Packet(dx, dy) IN
  /\ mtodo = <<>> /\ packets < MaxPackets
  /\ packets' = packets + 1
  /\ mtodo' = [i \in 1 .. 3 |-> [byte |-> p[i], pkt |-> packets, pos |-> i]]
  /\ aimed' = << ClampCursor(aimed[1] + Counted(dx)), ClampCursor(aimed[2] - Counted(-dy)) >>
  /\ plain' = (plain /\ Bit(p[2], 3) = 0 /\ Bit(p[3], 3) = 0)
  /\ UNCHANGED << mring, pending, cursor, mlost, torn, kbdVars >>

\* irq12_mouse, mouse_irq_push_byte
MouseIrq ==
  /\ mtodo # <<>> /\ mtodo' = Tail(mtodo)
  /\ IF Len(mring) < MouseSize - 1
       THEN mring' = Append(mring, Head(mtodo)) /\ UNCHANGED mlost
       ELSE mlost' = mlost + 1 /\ UNCHANGED mring
  /\ UNCHANGED << pending, cursor, aimed, torn, plain, packets, kbdVars >>

\* The movement a flag byte and a motion byte stand for.
Decoded(flags, byte, signBit, overBit) ==
  LET raw == byte - 256 * Bit(flags, signBit)
  IN  IF Bit(flags, overBit) = 0 THEN raw ELSE IF raw < 0 THEN -255 ELSE 255

\* (mutant) the negated Y forgotten
MovedUpsideDown(p) ==
  << ClampCursor(cursor[1] + Decoded(p[1].byte, p[2].byte, 4, 6)),
     ClampCursor(cursor[2] + Decoded(p[1].byte, p[3].byte, 5, 7)) >>

\* kmain_frame moves the cursor by the decoded packet and keeps it on screen.
Moved(p) ==
  << ClampCursor(cursor[1] + Decoded(p[1].byte, p[2].byte, 4, 6)),
     ClampCursor(cursor[2] - Decoded(p[1].byte, p[3].byte, 5, 7)) >>

\* (mutant) any byte may begin a packet
BeginsPacketAny(b) == TRUE

\* Bit 3 is always set in a packet's first byte: anything else is skipped.
BeginsPacket(b) == Bit(b, 3) = 1

OfOnePacket(p) == \A i \in 1 .. 3 : p[i].pos = i /\ p[i].pkt = p[1].pkt

\* mouse_poll_packet on one byte; what it captured outlives the call.
TakeMouseByte ==
  LET b == Head(mring)
      p == Append(pending, b)
  IN
  /\ mring # <<>> /\ mring' = Tail(mring)
  /\ pending' = IF Len(p) = 3 THEN <<>>
                ELSE IF Len(p) = 1 /\ ~BeginsPacket(b.byte) THEN <<>> ELSE p
  /\ IF Len(p) = 3
       THEN cursor' = Moved(p) /\ torn' = torn + ToBit(~OfOnePacket(p))
       ELSE UNCHANGED << cursor, torn >>
  /\ UNCHANGED << mtodo, aimed, mlost, plain, packets, kbdVars >>

KbdNext ==
  \/ \E k \in KeyMoves : KeyEvent(k[1], k[2])
  \/ KeyIrq \/ TakeScancode

MouseNext ==
  \/ \E m \in Motions : MouseMoves(m[1], m[2])
  \/ MouseIrq \/ TakeMouseByte

----------------------------------------------------------------------------
(***************************************************************************)
(* While no scancode has been lost, the frame loop is given exactly the    *)
(* characters typed, in order and in the right case, wherever the          *)
(* interrupts cut a prefixed code in two; once the ring is drained, none   *)
(* is owed and the shift flags agree with the keys.                        *)
(***************************************************************************)
TypedAsPressed ==
  ~klost => /\ ~kwrong
            /\ (kring = <<>> /\ ktodo = <<>> => kdue = <<>> /\ lshift = ldown
                                                 /\ rshift = rdown)

(***************************************************************************)
(* While no mouse byte has been lost, the drained cursor is where the      *)
(* movements put it: framing, sign, overflow and the flipped axis.         *)
(***************************************************************************)
CursorWhereAimed ==
  mlost = 0 /\ mring = <<>> /\ mtodo = <<>> => cursor = aimed

(***************************************************************************)
(* A lost byte tears at most one packet: the resynchronisation finds the   *)
(* next first byte (as long as no motion byte has bit 3 set; one that has  *)
(* can keep the decoder out of step).                                      *)
(***************************************************************************)
TearsBounded == plain => torn <= mlost
=============================================================================
