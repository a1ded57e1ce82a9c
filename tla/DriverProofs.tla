---------------------------- MODULE DriverProofs ----------------------------
(***************************************************************************)
(* v1: proofs about the drivers, for every size of ring and every history  *)
(* of interrupts: the sound card's double buffer (AudioStream) and the     *)
(* keyboard's and the mouse's rings (InputRings).                          *)
(***************************************************************************)
EXTENDS AudioStream, InputRings, TLAPS

----------------------------------------------------------------------------
(* Rings as sequences.                                                     *)

\* What a push leaves.
LEMMA Appended ==
  ASSUME NEW S, NEW s \in Seq(S), NEW x \in S
  PROVE  /\ Append(s, x) \in Seq(S) /\ Len(Append(s, x)) = Len(s) + 1
         /\ Len(s) \in Nat /\ Append(s, x)[Len(s) + 1] = x
         /\ \A i \in 1 .. Len(s) : Append(s, x)[i] = s[i]
OBVIOUS

\* What taking the first element leaves.
LEMMA Tailed ==
  ASSUME NEW S, NEW s \in Seq(S), s # << >>
  PROVE  /\ Tail(s) \in Seq(S) /\ Len(Tail(s)) = Len(s) - 1
         /\ Len(s) \in Nat /\ Len(s) > 0
         /\ Head(s) = s[1] /\ Head(s) \in S
         /\ \A i \in 1 .. Len(Tail(s)) : Tail(s)[i] = s[i + 1]
OBVIOUS

----------------------------------------------------------------------------
(* The sound stream.                                                       *)

StreamSpec == StreamInit /\ [][StreamNext]_streamVars

StreamTypes ==
  /\ present \in BOOLEAN /\ channel \in {"idle", "once", "loop"}
  /\ playing \in Half /\ irq5 \in BOOLEAN
  /\ wanted \in BOOLEAN /\ wantHalf \in Half
  /\ rstep \in {"idle", "render", "compare", "clear"}
  /\ refill \in Half \cup {NoHalf}
  /\ rstep # "idle" => refill \in Half
  /\ fresh \in [Half -> BOOLEAN]
  /\ inTime \in 0 .. 2

\* A boundary that found everything served is followed by its own interrupt,
\* then its request, then a refill of the half the card is not reading; when
\* that request too is gone, the half has been rendered.
ServedInTime ==
  /\ ~Streaming => inTime = 0
  /\ inTime > 0 /\ irq5 => ~wanted /\ rstep = "idle"
  /\ inTime > 0 /\ ~irq5 /\ wanted =>
       /\ rstep # "idle" => refill = wantHalf
       /\ rstep \in {"compare", "clear"} => fresh[wantHalf]
  /\ inTime > 0 /\ ~irq5 /\ ~wanted => rstep = "idle" /\ fresh[Other(playing)]

StreamInv == StreamTypes /\ RefillBehindCard /\ ServedInTime /\ StaleOnce

\* The invariant of the stream: requests point behind the card, and a boundary
\* served in time leaves the next half rendered.
LEMMA StreamInvariant == StreamSpec => []StreamInv
<1> USE DEF StreamTypes, RefillBehindCard, ServedInTime, StaleOnce, Streaming,
            Half, NoHalf, Other
<1>1. StreamInit => StreamInv
  <2> SUFFICES ASSUME StreamInit PROVE StreamInv
    OBVIOUS
  <2> USE DEF StreamInit, StreamInv
  <2>1. StreamTypes
    <3>1. present \in BOOLEAN /\ irq5 \in BOOLEAN /\ wanted \in BOOLEAN
      BY Zenon
    <3>2. fresh \in [Half -> BOOLEAN]
      OBVIOUS
    <3> QED
      BY <3>1, <3>2
  <2>2. RefillBehindCard /\ ServedInTime /\ StaleOnce
    OBVIOUS
  <2> QED
    BY <2>1, <2>2
<1>2. StreamInv /\ [StreamNext]_streamVars => StreamInv'
  <2> SUFFICES ASSUME StreamInv, [StreamNext]_streamVars PROVE StreamInv'
    OBVIOUS
  <2>1. CASE EnsureStreamStarted
    <3> USE <2>1 DEF EnsureStreamStarted, StartStream, StreamInv
    <3>1. StreamTypes'
      OBVIOUS
    <3>2. RefillBehindCard'
      OBVIOUS
    <3>3. ServedInTime'
      OBVIOUS
    <3>4. StaleOnce'
      OBVIOUS
    <3> QED
      BY <3>1, <3>2, <3>3, <3>4
  <2>2. CASE Beep
    BY <2>2 DEF Beep, StreamInv
  <2>3. CASE BeepEnds
    BY <2>3 DEF BeepEnds, StreamInv
  <2>4. CASE CrossBoundary
    BY <2>4 DEF CrossBoundary, StreamInv
  <2>5. CASE HandleIrq5
    <3> USE <2>5 DEF HandleIrq5, StreamInv
    <3>1. StreamTypes'
      <4>1. wanted' \in BOOLEAN
        <5>1. wanted' = TRUE \/ wanted' = wanted
          OBVIOUS
        <5> QED
          BY <5>1
      <4>2. wantHalf' \in Half
        <5>1. wantHalf' = Other(playing) \/ wantHalf' = wantHalf
          OBVIOUS
        <5> QED
          BY <5>1
      <4>3. irq5' \in BOOLEAN
        OBVIOUS
      <4> QED
        BY <4>1, <4>2, <4>3
    <3>2. RefillBehindCard'
      OBVIOUS
    <3>3. ServedInTime'
      OBVIOUS
    <3>4. StaleOnce'
      OBVIOUS
    <3> QED
      BY <3>1, <3>2, <3>3, <3>4
  <2>6. CASE TakeRefill
    BY <2>6 DEF TakeRefill, StreamInv
  <2>7. CASE RenderRefill
    BY <2>7 DEF RenderRefill, StreamInv
  <2>8. CASE CompareRefill
    BY <2>8 DEF CompareRefill, StreamInv
  <2>9. CASE ClearRefill
    <3> USE <2>9 DEF ClearRefill, StreamInv
    <3>1. StreamTypes'
      OBVIOUS
    <3>2. RefillBehindCard'
      OBVIOUS
    <3>3. ServedInTime'
      OBVIOUS
    <3>4. StaleOnce'
      OBVIOUS
    <3> QED
      BY <3>1, <3>2, <3>3, <3>4
  <2>10. CASE UNCHANGED streamVars
    BY <2>10 DEF streamVars, StreamInv
  <2> QED
    BY <2>1, <2>2, <2>3, <2>4, <2>5, <2>6, <2>7, <2>8, <2>9, <2>10 DEF StreamNext
<1> QED
  BY <1>1, <1>2, PTL DEF StreamSpec

\* The half that is asked for is never the one the card is reading, once every
\* boundary is acknowledged, whatever interrupts were merged (sb16_irq_ack).
THEOREM RequestsStayBehind == StreamSpec => []RefillBehindCard
<1>1. StreamInv => RefillBehindCard
  BY DEF StreamInv
<1> QED
  BY <1>1, StreamInvariant, PTL

\* Two boundaries served in time and the card plays what was rendered for it,
\* whatever went wrong before (sb16_irq_ack: at most one stale refill).
THEOREM RecoversInTwo == StreamSpec => []StaleOnce
<1>1. StreamInv => StaleOnce
  BY DEF StreamInv
<1> QED
  BY <1>1, StreamInvariant, PTL

----------------------------------------------------------------------------
(* The mouse.                                                              *)

MouseSpec == InputInit /\ [][MouseNext]_inputVars

MouseByte == [byte : 0 .. 255, pkt : Nat, pos : 1 .. 3]
OnScreen == (0 .. CursorMax) \X (0 .. CursorMax)

Sent == 3 * packets - Len(mtodo)          \* bytes the mouse has sent
Taken == Sent - mlost - Len(mring)        \* bytes the decoder has looked at
Serial(b) == 3 * b.pkt + b.pos - 1        \* bytes sent before b

MouseTypes ==
  /\ mring \in Seq(MouseByte) /\ Len(mring) < MouseSize
  /\ mtodo \in Seq(MouseByte) /\ Len(mtodo) <= 3
  /\ pending \in Seq(MouseByte) /\ Len(pending) < 3
  /\ cursor \in OnScreen /\ aimed \in OnScreen
  /\ mlost \in Nat /\ torn \in Nat /\ packets \in Nat /\ plain \in BOOLEAN

\* What is in the ring and in pending was sent in that order.
BytesInOrder ==
  /\ \A i \in 1 .. Len(mtodo) : Serial(mtodo[i]) = Sent + i - 1
  /\ \A i, j \in 1 .. Len(mring) :
       i < j => Serial(mring[i]) + (j - i) <= Serial(mring[j])
  /\ \A i \in 1 .. Len(mring) : Serial(mring[i]) + (Len(mring) - i) < Sent
  /\ \A i, j \in 1 .. Len(pending) :
       i < j => Serial(pending[i]) + (j - i) <= Serial(pending[j])
  /\ \A i \in 1 .. Len(pending) : Serial(pending[i]) + (Len(pending) - i) < Sent
  /\ \A i \in 1 .. Len(pending), j \in 1 .. Len(mring) :
       Serial(pending[i]) + (Len(pending) - i) + j <= Serial(mring[j])

\* Every packet torn so far is paid for by a byte lost before the one the
\* decoder looks at next, or before the one it begins a packet with.
TearsPaid ==
  plain =>
    /\ \A i \in 1 .. Len(mtodo) : mtodo[i].pos # 1 => ~BeginsPacket(mtodo[i].byte)
    /\ \A i \in 1 .. Len(mring) : mring[i].pos # 1 => ~BeginsPacket(mring[i].byte)
    /\ pending = << >> => /\ torn + Taken <= Sent
                          /\ mring # << >> => torn + Taken <= Serial(mring[1])
    /\ pending # << >> => /\ pending[1].pos = 1
                          /\ torn + Taken <= Serial(pending[1]) + Len(pending)

MouseInv == MouseTypes /\ BytesInOrder /\ TearsPaid

\* The number of bytes sent before one.
LEMMA SerialIsNat ==
  ASSUME NEW b \in MouseByte
  PROVE  Serial(b) \in Nat /\ b.pkt \in Nat /\ b.pos \in 1 .. 3 /\ b.byte \in 0 .. 255
BY DEF Serial, MouseByte

\* The three bytes of a packet are bytes.
LEMMA PacketBytes ==
  ASSUME NEW dx \in Int, NEW dy \in Int
  PROVE  /\ Len(Packet(dx, dy)) = 3
         /\ \A i \in 1 .. 3 : Packet(dx, dy)[i] \in 0 .. 255
<1>1. \A p : ToBit(p) \in {0, 1}
  BY DEF ToBit
<1>2. Packet(dx, dy)[1] \in 0 .. 255
  <2>1. ASSUME NEW a \in {0, 1}, NEW b \in {0, 1}, NEW c \in {0, 1}, NEW d \in {0, 1}
        PROVE  8 + 16 * a + 32 * b + 64 * c + 128 * d \in 0 .. 255
    OBVIOUS
  <2> QED
    BY <2>1, <1>1 DEF Packet
<1>3. Packet(dx, dy)[2] \in 0 .. 255 /\ Packet(dx, dy)[3] \in 0 .. 255
  BY DEF Packet
<1>4. Len(Packet(dx, dy)) = 3
  BY DEF Packet
<1> QED
  BY <1>2, <1>3, <1>4

\* Keeping a coordinate on the screen.
LEMMA ClampedOnScreen ==
  ASSUME NEW n \in Int PROVE ClampCursor(n) \in 0 .. CursorMax
BY InputAssumption DEF ClampCursor

\* A decoded movement is a number.
LEMMA DecodedIsInt ==
  ASSUME NEW flags \in 0 .. 255, NEW byte \in 0 .. 255, NEW s, NEW o
  PROVE  Bit(flags, s) \in Int => Decoded(flags, byte, s, o) \in Int
BY DEF Decoded

\* The mouse sends the bytes of a new packet in their order.
LEMMA MovesKeepOrder ==
  ASSUME MouseInv, NEW m \in Motions, MouseMoves(m[1], m[2])
  PROVE  MouseInv'
<1> DEFINE p == Packet(m[1], m[2])
<1>1. m[1] \in Int /\ m[2] \in Int
  BY InputAssumption
<1>2. Len(p) = 3 /\ \A i \in 1 .. 3 : p[i] \in 0 .. 255
  <2>1. PICK dx \in Int, dy \in Int : m[1] = dx /\ m[2] = dy
    BY <1>1, Zenon
  <2>2. Len(Packet(dx, dy)) = 3 /\ \A i \in 1 .. 3 : Packet(dx, dy)[i] \in 0 .. 255
    BY PacketBytes, Zenon
  <2> QED  BY <2>1, <2>2, Zenon
<1>3. /\ mtodo = << >> /\ packets' = packets + 1
      /\ mtodo' = [i \in 1 .. 3 |-> [byte |-> p[i], pkt |-> packets, pos |-> i]]
      /\ aimed' = << ClampCursor(aimed[1] + Counted(m[1])),
                     ClampCursor(aimed[2] - Counted(-m[2])) >>
      /\ plain' => plain /\ Bit(p[2], 3) = 0 /\ Bit(p[3], 3) = 0
      /\ plain' \in BOOLEAN
      /\ UNCHANGED << mring, pending, cursor, mlost, torn >>
  BY DEF MouseMoves
<1> HIDE DEF p
<1>4. mtodo' \in Seq(MouseByte) /\ Len(mtodo') = 3
  BY <1>2, <1>3 DEF MouseInv, MouseTypes, MouseByte
<1>5. aimed' \in OnScreen
  <2>1. Counted(m[1]) \in Int /\ Counted(-m[2]) \in Int
    BY <1>1 DEF Counted
  <2>2. aimed[1] \in Int /\ aimed[2] \in Int
    BY InputAssumption DEF MouseInv, MouseTypes, OnScreen
  <2>3. /\ ClampCursor(aimed[1] + Counted(m[1])) \in 0 .. CursorMax
        /\ ClampCursor(aimed[2] - Counted(-m[2])) \in 0 .. CursorMax
    BY <2>1, <2>2, ClampedOnScreen
  <2> QED
    BY <1>3, <2>3 DEF OnScreen
<1>6. MouseTypes'
  BY <1>3, <1>4, <1>5 DEF MouseInv, MouseTypes
<1>7. Sent' = Sent /\ Taken' = Taken
  BY <1>3, <1>4 DEF Sent, Taken, MouseInv, MouseTypes
<1>8. BytesInOrder'
  <2>1. Sent = 3 * packets /\ packets \in Nat
    BY <1>3 DEF Sent, MouseInv, MouseTypes
  <2>2. \A i \in 1 .. Len(mtodo') : Serial(mtodo'[i]) = Sent' + i - 1
    BY <1>3, <1>4, <1>7, <2>1 DEF Serial
  <2> QED
    BY <1>3, <1>7, <2>2, ZenonT(40) DEF BytesInOrder, MouseInv, Serial
<1>9. TearsPaid'
  <2>1. plain' => plain /\ ~BeginsPacket(p[2]) /\ ~BeginsPacket(p[3])
    BY <1>3 DEF BeginsPacket
  <2>2. plain' => \A i \in 1 .. Len(mtodo') : mtodo'[i].pos # 1 => ~BeginsPacket(mtodo'[i].byte)
    BY <1>3, <1>4, <2>1
  <2> QED
    BY <2>1, <2>2, <1>3, <1>7 DEF TearsPaid, MouseInv, Serial
<1> QED
  BY <1>6, <1>8, <1>9 DEF MouseInv

\* The handler takes a byte from the mouse, or loses it.
LEMMA IrqKeepsOrder ==
  ASSUME MouseInv, MouseIrq
  PROVE  MouseInv'
<1> USE DEF MouseInv
<1>1. /\ mtodo # << >> /\ mtodo' = Tail(mtodo)
      /\ UNCHANGED << pending, cursor, aimed, torn, plain, packets >>
  BY DEF MouseIrq
<1>2. \/ Len(mring) < MouseSize - 1 /\ mring' = Append(mring, Head(mtodo)) /\ mlost' = mlost
      \/ Len(mring) >= MouseSize - 1 /\ mlost' = mlost + 1 /\ mring' = mring
  BY InputAssumption DEF MouseIrq, MouseTypes
<1>3. /\ Len(mtodo') = Len(mtodo) - 1 /\ mtodo' \in Seq(MouseByte)
      /\ \A i \in 1 .. Len(mtodo') : mtodo'[i] = mtodo[i + 1]
      /\ Head(mtodo) \in MouseByte /\ Head(mtodo) = mtodo[1] /\ Len(mtodo) \in Nat
      /\ Len(mtodo) > 0
  BY <1>1 DEF MouseTypes
<1>4a. /\ mring' \in Seq(MouseByte) /\ Len(mring') < MouseSize
      /\ Len(mring') + mlost' = Len(mring) + mlost + 1
      /\ mlost' \in Nat /\ Len(mring) \in Nat /\ Len(mring') \in Nat
  <2>1. CASE Len(mring) < MouseSize - 1 /\ mring' = Append(mring, Head(mtodo)) /\ mlost' = mlost
    BY <2>1, <1>3, InputAssumption DEF MouseTypes
  <2>2. CASE mlost' = mlost + 1 /\ mring' = mring
    BY <2>2 DEF MouseTypes
  <2> QED
    BY <2>1, <2>2, <1>2
<1>4. Sent' = Sent + 1 /\ Taken' = Taken /\ Sent \in Int /\ Taken \in Int
  <2>1. packets \in Nat /\ mlost \in Nat /\ packets' = packets
    BY <1>1 DEF MouseTypes
  <2>2. Len(mtodo) \in Nat /\ Len(mtodo') = Len(mtodo) - 1
    BY <1>3
  <2>3. Sent' = Sent + 1 /\ Sent \in Int
    BY <2>1, <2>2 DEF Sent
  <2>4. /\ Taken = Sent - mlost - Len(mring)
        /\ Taken' = Sent' - mlost' - Len(mring')
    BY DEF Taken
  <2>5. PICK s \in Int, l \in Nat, n \in Nat, l1 \in Nat, n1 \in Nat :
          s = Sent /\ l = mlost /\ n = Len(mring) /\ l1 = mlost' /\ n1 = Len(mring')
    BY <2>1, <2>3, <1>4a
  <2>6. n1 + l1 = n + l + 1
    BY <2>5, <1>4a
  <2>7. (s + 1) - l1 - n1 = s - l - n
    BY <2>6
  <2>8. Taken' = Taken /\ Taken \in Int
    BY <2>3, <2>4, <2>5, <2>7
  <2> QED
    BY <2>3, <2>8
<1>5. MouseTypes'
  BY <1>1, <1>3, <1>4a DEF MouseTypes
<1>6. /\ Serial(mtodo[1]) = Sent
      /\ \A b \in MouseByte : Serial(b) \in Nat
  <2>1. Serial(mtodo[1]) = Sent + 1 - 1
    BY <1>3 DEF BytesInOrder
  <2> QED
    BY <2>1, <1>4, SerialIsNat
<1>7. \A i \in 1 .. Len(mtodo') : Serial(mtodo'[i]) = Sent' + i - 1
  <2> TAKE i \in 1 .. Len(mtodo')
  <2>1. i + 1 \in 1 .. Len(mtodo) /\ mtodo'[i] = mtodo[i + 1]
    BY <1>3
  <2>2. Serial(mtodo[i + 1]) = Sent + (i + 1) - 1
    BY <2>1 DEF BytesInOrder
  <2> QED
    BY <2>1, <2>2, <1>4
<1>8. BytesInOrder' /\ TearsPaid'
  <2>1. CASE mring' = mring /\ mlost' = mlost + 1 /\ Len(mring) >= MouseSize - 1
    <3>1. BytesInOrder'
      <4>1. \A i \in 1 .. Len(mring) : Serial(mring[i]) + (Len(mring) - i) < Sent'
        <5> TAKE i \in 1 .. Len(mring)
        <5>1. Serial(mring[i]) + (Len(mring) - i) < Sent
          BY DEF BytesInOrder
        <5>2. Serial(mring[i]) \in Nat /\ Len(mring) \in Nat
          BY <1>6 DEF MouseTypes
        <5> QED
          BY <5>1, <5>2, <1>4
      <4>2. \A i \in 1 .. Len(pending) : Serial(pending[i]) + (Len(pending) - i) < Sent'
        <5> TAKE i \in 1 .. Len(pending)
        <5>1. Serial(pending[i]) + (Len(pending) - i) < Sent
          BY DEF BytesInOrder
        <5>2. Serial(pending[i]) \in Nat /\ Len(pending) \in Nat
          BY <1>6 DEF MouseTypes
        <5> QED
          BY <5>1, <5>2, <1>4
      <4> QED
        BY <1>1, <1>7, <4>1, <4>2, <2>1 DEF BytesInOrder, Serial
    <3>2. torn + Taken <= Sent => torn + Taken <= Sent'
      BY <1>4, <1>5 DEF MouseTypes
    <3>3. TearsPaid'
      BY <1>1, <1>3, <1>4, <2>1, <3>2 DEF TearsPaid, Serial
    <3> QED
      BY <3>1, <3>3
  <2>2. CASE mring' = Append(mring, Head(mtodo)) /\ mlost' = mlost
    <3>1. /\ Len(mring') = Len(mring) + 1
          /\ \A i \in 1 .. Len(mring) : mring'[i] = mring[i]
          /\ mring'[Len(mring) + 1] = mtodo[1] /\ Len(mring) \in Nat
      BY <2>2, <1>3 DEF MouseTypes
    <3>2. \A i \in 1 .. Len(mring) : mring[i] \in MouseByte
      BY DEF MouseTypes
    <3>3. \A i, j \in 1 .. Len(mring') :
            i < j => Serial(mring'[i]) + (j - i) <= Serial(mring'[j])
      <4> TAKE i, j \in 1 .. Len(mring')
      <4> HAVE i < j
      <4>1. CASE j <= Len(mring)
        <5>1. /\ i \in 1 .. Len(mring) /\ j \in 1 .. Len(mring)
              /\ mring'[i] = mring[i] /\ mring'[j] = mring[j]
          BY <4>1, <3>1
        <5>2. Serial(mring[i]) + (j - i) <= Serial(mring[j])
          BY <5>1 DEF BytesInOrder
        <5> QED
          BY <5>1, <5>2
      <4>2. CASE j = Len(mring) + 1
        <5>1. i \in 1 .. Len(mring)
          BY <4>2, <3>1
        <5>2. Serial(mring[i]) + (Len(mring) - i) < Sent /\ Serial(mring[i]) \in Nat
          BY <5>1, <3>2, <1>6 DEF BytesInOrder
        <5>3. mring'[i] = mring[i] /\ Serial(mring'[j]) = Sent
          BY <4>2, <5>1, <3>1, <1>6
        <5>4. Len(mring) - i = (j - i) - 1 /\ Len(mring) \in Nat
          BY <4>2, <3>1
        <5> QED
          BY <5>2, <5>3, <5>4, <1>4
      <4> QED
        BY <4>1, <4>2, <3>1
    <3>4. \A i \in 1 .. Len(mring') : Serial(mring'[i]) + (Len(mring') - i) < Sent'
      <4> TAKE i \in 1 .. Len(mring')
      <4>1. CASE i <= Len(mring)
        <5>1. i \in 1 .. Len(mring) /\ mring'[i] = mring[i] /\ Len(mring') = Len(mring) + 1
          BY <4>1, <3>1
        <5>2. Serial(mring[i]) + (Len(mring) - i) < Sent
          BY <5>1 DEF BytesInOrder
        <5>3. Serial(mring[i]) \in Nat /\ Len(mring) \in Nat
          BY <5>1, <3>1, <3>2, <1>6
        <5> QED
          BY <5>1, <5>2, <5>3, <1>4
      <4>2. CASE i = Len(mring) + 1
        BY <4>2, <3>1, <1>4, <1>6
      <4> QED
        BY <4>1, <4>2, <3>1
    <3>5. /\ Len(pending) \in Nat
          /\ \A i \in 1 .. Len(pending) : pending[i] \in MouseByte
      BY DEF MouseTypes
    <3>6. \A i \in 1 .. Len(pending) : Serial(pending[i]) + (Len(pending) - i) < Sent'
      BY <1>4, <1>6, <3>5 DEF BytesInOrder
    <3>7. \A i \in 1 .. Len(pending), j \in 1 .. Len(mring') :
            Serial(pending[i]) + (Len(pending) - i) + j <= Serial(mring'[j])
      <4> TAKE i \in 1 .. Len(pending), j \in 1 .. Len(mring')
      <4>1. CASE j <= Len(mring)
        BY <4>1, <3>1 DEF BytesInOrder
      <4>2. CASE j = Len(mring) + 1 /\ Len(mring) = 0
        BY <4>2, <3>1, <3>5, <1>4, <1>6 DEF BytesInOrder
      <4>3. CASE j = Len(mring) + 1 /\ Len(mring) > 0
        <5>1. Serial(pending[i]) + (Len(pending) - i) + Len(mring)
                <= Serial(mring[Len(mring)])
          BY <4>3, <3>1 DEF BytesInOrder
        <5>2. Serial(mring[Len(mring)]) < Sent
          <6>1. Serial(mring[Len(mring)]) + (Len(mring) - Len(mring)) < Sent
            BY <4>3, <3>1 DEF BytesInOrder
          <6> QED
            BY <6>1, <4>3, <3>1, <3>2, <1>6
        <5>3. mring[Len(mring)] \in MouseByte
          BY <4>3, <3>1, <3>2
        <5>4. Serial(mring[Len(mring)]) \in Nat /\ Serial(pending[i]) \in Nat
          BY <5>3, <3>5, <1>6
        <5>5. Serial(mring'[j]) = Sent
          BY <4>3, <3>1, <1>6
        <5> HIDE <5>3
        <5>6. j = Len(mring) + 1 /\ Len(mring) \in Nat /\ Len(pending) - i \in Int
          BY <4>3, <3>1, <3>5
        <5>7. PICK a \in Nat, d \in Int, n \in Nat, z \in Nat, s \in Int :
                /\ a = Serial(pending[i]) /\ d = Len(pending) - i /\ n = Len(mring)
                /\ z = Serial(mring[Len(mring)]) /\ s = Sent
          BY <5>4, <5>6, <1>4
        <5>8. a + d + n <= z /\ z < s
          BY <5>1, <5>2, <5>7
        <5>9. a + d + (n + 1) <= s
          BY <5>8
        <5> QED
          BY <5>5, <5>6, <5>7, <5>9
      <4> QED
        BY <4>1, <4>2, <4>3, <3>1
    <3>8. BytesInOrder'
      BY <1>1, <1>7, <3>3, <3>4, <3>6, <3>7 DEF BytesInOrder, Serial
    <3>9. TearsPaid'
      <4> SUFFICES ASSUME plain PROVE TearsPaid'
        BY <1>1 DEF TearsPaid
      <4>1. \A i \in 1 .. Len(mring') : mring'[i].pos # 1 => ~BeginsPacket(mring'[i].byte)
        BY <3>1, <1>3 DEF TearsPaid
      <4>2. pending = << >> => torn + Taken <= Sent' /\ torn + Taken <= Serial(mring'[1])
        <5>1. CASE mring = << >>
          <6>1. /\ pending = << >> => torn + Taken <= Sent
                /\ Sent' = Sent + 1 /\ Taken' = Taken /\ Sent \in Int /\ Taken \in Int
            BY <1>4 DEF TearsPaid
          <6>2. torn \in Nat /\ Serial(mring'[1]) = Sent
            BY <5>1, <3>1, <1>6 DEF MouseTypes
          <6> QED
            BY <6>1, <6>2
        <5>2. CASE mring # << >>
          <6>1. 1 \in 1 .. Len(mring)
            BY <5>2, <3>1 DEF MouseTypes
          <6>2. mring'[1] = mring[1]
            BY <6>1, <3>1
          <6>3. pending = << >> => torn + Taken <= Sent /\ torn + Taken <= Serial(mring[1])
            BY <5>2 DEF TearsPaid
          <6>4. torn \in Nat
            BY DEF MouseTypes
          <6> QED
            BY <6>2, <6>3, <6>4, <1>4
        <5> QED
          BY <5>1, <5>2
      <4>3. \A i \in 1 .. Len(mtodo') : mtodo'[i].pos # 1 => ~BeginsPacket(mtodo'[i].byte)
        <5> TAKE i \in 1 .. Len(mtodo')
        <5>1. i + 1 \in 1 .. Len(mtodo) /\ mtodo'[i] = mtodo[i + 1]
          BY <1>3
        <5> QED
          BY <5>1 DEF TearsPaid
      <4> QED
        BY <1>1, <1>4, <4>1, <4>2, <4>3 DEF TearsPaid, Serial
    <3> QED
      BY <3>8, <3>9
  <2> QED
    BY <1>2, <2>1, <2>2
<1> QED
  BY <1>5, <1>8

\* The frame loop takes a byte out of the ring.
LEMMA TakeKeepsOrder ==
  ASSUME MouseInv, TakeMouseByte
  PROVE  MouseInv'
<1> USE DEF MouseInv
<1> DEFINE b == Head(mring)
           p == Append(pending, b)
<1>1. /\ mring # << >> /\ mring' = Tail(mring)
      /\ pending' = IF Len(p) = 3 THEN << >>
                    ELSE IF Len(p) = 1 /\ ~BeginsPacket(b.byte) THEN << >> ELSE p
      /\ Len(p) = 3 => cursor' = Moved(p) /\ torn' = torn + ToBit(~OfOnePacket(p))
      /\ Len(p) # 3 => cursor' = cursor /\ torn' = torn
      /\ UNCHANGED << mtodo, aimed, mlost, plain, packets >>
  BY DEF TakeMouseByte
<1>2. /\ Len(mring') = Len(mring) - 1 /\ mring' \in Seq(MouseByte)
      /\ \A i \in 1 .. Len(mring') : mring'[i] = mring[i + 1]
      /\ b \in MouseByte /\ b = mring[1] /\ Len(mring) \in Nat /\ Len(mring) > 0
  BY <1>1 DEF MouseTypes
<1>3. /\ p \in Seq(MouseByte) /\ Len(p) = Len(pending) + 1 /\ Len(pending) \in 0 .. 2
      /\ \A i \in 1 .. Len(pending) : p[i] = pending[i]
      /\ p[Len(pending) + 1] = b
      /\ \A i \in 1 .. Len(p) : p[i] \in MouseByte
  <2>1. pending \in Seq(MouseByte) /\ Len(pending) \in 0 .. 2
    <3>1. pending \in Seq(MouseByte) /\ Len(pending) < 3
      BY DEF MouseTypes
    <3>2. Len(pending) \in Nat
      BY <3>1
    <3>3. \A k \in Nat : k < 3 => k \in 0 .. 2
      OBVIOUS
    <3> QED
      BY <3>1, <3>2, <3>3
  <2>2. \A x \in MouseByte :
          /\ Append(pending, x) \in Seq(MouseByte)
          /\ Len(Append(pending, x)) = Len(pending) + 1
          /\ \A i \in 1 .. Len(pending) : Append(pending, x)[i] = pending[i]
          /\ Append(pending, x)[Len(pending) + 1] = x
    BY <2>1
  <2>3. p \in Seq(MouseByte) /\ Len(p) = Len(pending) + 1
    BY <2>2, <1>2
  <2>4. \A i \in 1 .. Len(p) : p[i] \in MouseByte
    BY <2>3
  <2> QED
    BY <2>1, <2>2, <2>3, <2>4, <1>2
<1> HIDE DEF b, p
<1>4. Sent' = Sent /\ Taken' = Taken + 1 /\ Sent \in Int /\ Taken \in Int
  BY <1>1, <1>2 DEF Sent, Taken, MouseTypes
<1>5. ToBit(~OfOnePacket(p)) \in {0, 1}
  BY DEF ToBit
<1>6. Len(p) = 3 => Moved(p) \in OnScreen
  <2> SUFFICES ASSUME Len(p) = 3 PROVE Moved(p) \in OnScreen
    OBVIOUS
  <2>1. p[1] \in MouseByte /\ p[2] \in MouseByte /\ p[3] \in MouseByte
    BY <1>3
  <2>2. p[1].byte \in 0 .. 255 /\ p[2].byte \in 0 .. 255 /\ p[3].byte \in 0 .. 255
    BY <2>1, SerialIsNat
  <2>3. /\ Decoded(p[1].byte, p[2].byte, 4, 6) \in Int
        /\ Decoded(p[1].byte, p[3].byte, 5, 7) \in Int
    <3>1. \A n \in 0 .. 255 : Bit(n, 4) \in Int /\ Bit(n, 5) \in Int
      BY DEF Bit
    <3>2. PICK f \in 0 .. 255, x \in 0 .. 255, y \in 0 .. 255 :
            f = p[1].byte /\ x = p[2].byte /\ y = p[3].byte
      BY <2>2, Zenon
    <3>3. Decoded(f, x, 4, 6) \in Int /\ Decoded(f, y, 5, 7) \in Int
      BY <3>1, DecodedIsInt, Zenon
    <3> QED
      BY <3>2, <3>3, Zenon
  <2>4. cursor[1] \in Int /\ cursor[2] \in Int
    BY InputAssumption DEF MouseTypes, OnScreen
  <2>5. /\ ClampCursor(cursor[1] + Decoded(p[1].byte, p[2].byte, 4, 6)) \in 0 .. CursorMax
        /\ ClampCursor(cursor[2] - Decoded(p[1].byte, p[3].byte, 5, 7)) \in 0 .. CursorMax
    BY <2>3, <2>4, ClampedOnScreen
  <2> QED
    BY <2>5 DEF Moved, OnScreen
<1>7. MouseTypes'
  <2>1. pending' \in Seq(MouseByte) /\ Len(pending') < 3
    BY <1>1, <1>3
  <2>2. cursor' \in OnScreen
    BY <1>1, <1>6 DEF MouseTypes
  <2>3. torn' \in Nat
    BY <1>1, <1>5 DEF MouseTypes
  <2>4. Len(mring') < MouseSize
    BY <1>2, InputAssumption DEF MouseTypes
  <2>5. UNCHANGED << mtodo, aimed, mlost, plain, packets >>
    BY <1>1
  <2> QED
    BY <1>2, <2>1, <2>2, <2>3, <2>4, <2>5 DEF MouseTypes
<1>8. /\ \A i \in 1 .. Len(mring) : mring[i] \in MouseByte
      /\ \A c \in MouseByte : Serial(c) \in Nat
  BY SerialIsNat DEF MouseTypes
\* The three bytes the decoder looks at now were sent in that order.
<1>9. \A i, j \in 1 .. Len(p) : i < j => Serial(p[i]) + (j - i) <= Serial(p[j])
  <2> TAKE i, j \in 1 .. Len(p)
  <2> HAVE i < j
  <2>1. CASE j <= Len(pending)
    <3>1. /\ i \in 1 .. Len(pending) /\ j \in 1 .. Len(pending)
          /\ p[i] = pending[i] /\ p[j] = pending[j]
      BY <2>1, <1>3
    <3>2. Serial(pending[i]) + (j - i) <= Serial(pending[j])
      BY <3>1 DEF BytesInOrder
    <3> QED
      BY <3>1, <3>2
  <2>2. CASE j = Len(pending) + 1
    <3>1. i \in 1 .. Len(pending) /\ 1 \in 1 .. Len(mring)
      BY <2>2, <1>2, <1>3
    <3>2. Serial(pending[i]) + (Len(pending) - i) + 1 <= Serial(mring[1])
      BY <3>1 DEF BytesInOrder
    <3>3. Serial(p[i]) \in Nat /\ p[i] = pending[i] /\ p[j] = mring[1]
      BY <2>2, <3>1, <1>2, <1>3, <1>8
    <3> QED
      BY <2>2, <3>1, <3>2, <3>3, <1>3
  <2> QED
    BY <2>1, <2>2, <1>3
<1>10. \A i \in 1 .. Len(p) : Serial(p[i]) + (Len(p) - i) < Sent
  <2> TAKE i \in 1 .. Len(p)
  <2>1. Serial(mring[1]) + (Len(mring) - 1) < Sent /\ 1 \in 1 .. Len(mring)
    BY <1>2 DEF BytesInOrder
  <2>2. i < Len(p) => Serial(p[i]) + (Len(p) - i) <= Serial(p[Len(p)])
    BY <1>3, <1>9
  <2>3. p[Len(p)] = mring[1] /\ Serial(p[i]) \in Nat /\ Serial(mring[1]) \in Nat
    BY <1>2, <1>3, <1>8, <2>1
  <2>4. PICK a \in Nat, z \in Nat, m \in Nat, n \in Nat :
          /\ a = Serial(p[i]) /\ z = Serial(mring[1]) /\ m = Len(mring) /\ n = Len(p)
    BY <2>3, <1>2, <1>3
  <2>5. z + (m - 1) < Sent /\ m > 0 /\ i \in 1 .. n
    BY <2>1, <2>4, <1>2
  <2>6. i < n => a + (n - i) <= z
    BY <2>2, <2>3, <2>4
  <2>7. i = n => a = z
    BY <2>3, <2>4
  <2>8. a + (n - i) < Sent
    BY <2>5, <2>6, <2>7, <1>4
  <2> QED
    BY <2>4, <2>8
<1>11. \A i \in 1 .. Len(p), j \in 1 .. Len(mring') :
         Serial(p[i]) + (Len(p) - i) + j <= Serial(mring'[j])
  <2> TAKE i \in 1 .. Len(p), j \in 1 .. Len(mring')
  <2>1. 1 \in 1 .. Len(mring) /\ j + 1 \in 1 .. Len(mring) /\ mring'[j] = mring[j + 1]
    BY <1>2
  <2>2. Serial(mring[1]) + ((j + 1) - 1) <= Serial(mring[j + 1])
    BY <2>1 DEF BytesInOrder
  <2>3. i < Len(p) => Serial(p[i]) + (Len(p) - i) <= Serial(p[Len(p)])
    BY <1>3, <1>9
  <2>4. /\ p[Len(p)] = mring[1] /\ Serial(p[i]) \in Nat /\ Serial(mring[1]) \in Nat
        /\ Serial(mring[j + 1]) \in Nat
    BY <1>2, <1>3, <1>8, <2>1
  <2>5. PICK a \in Nat, z \in Nat, y \in Nat, n \in Nat, h \in Nat :
          /\ a = Serial(p[i]) /\ z = Serial(mring[1]) /\ y = Serial(mring[j + 1])
          /\ n = Len(p) /\ h = j
    BY <2>4, <1>2, <1>3
  <2>6. z + ((h + 1) - 1) <= y /\ i \in 1 .. n
    BY <2>2, <2>5
  <2>7. i < n => a + (n - i) <= z
    BY <2>3, <2>4, <2>5
  <2>8. i = n => a = z
    BY <2>4, <2>5
  <2>9. a + (n - i) + h <= y
    BY <2>6, <2>7, <2>8
  <2> QED
    BY <2>1, <2>5, <2>9
<1>12. BytesInOrder'
  <2>1. \A i, j \in 1 .. Len(mring') :
          i < j => Serial(mring'[i]) + (j - i) <= Serial(mring'[j])
    <3> TAKE i, j \in 1 .. Len(mring')
    <3> HAVE i < j
    <3>1. i + 1 \in 1 .. Len(mring) /\ j + 1 \in 1 .. Len(mring) /\ i + 1 < j + 1
      BY <1>2
    <3>2. Serial(mring[i + 1]) + ((j + 1) - (i + 1)) <= Serial(mring[j + 1])
      BY <3>1 DEF BytesInOrder
    <3>3. (j + 1) - (i + 1) = j - i
      BY <1>2
    <3> QED
      BY <3>2, <3>3, <1>2
  <2>2. \A i \in 1 .. Len(mring') : Serial(mring'[i]) + (Len(mring') - i) < Sent
    <3> TAKE i \in 1 .. Len(mring')
    <3>1. i + 1 \in 1 .. Len(mring) /\ Len(mring) - (i + 1) = Len(mring') - i
      BY <1>2
    <3>2. Serial(mring[i + 1]) + (Len(mring) - (i + 1)) < Sent
      BY <3>1 DEF BytesInOrder
    <3> QED
      BY <3>1, <3>2, <1>2
  <2>3. CASE pending' = << >>
    BY <2>1, <2>2, <2>3, <1>1, <1>4 DEF BytesInOrder, Serial
  <2>4. CASE pending' = p
    BY <2>1, <2>2, <2>4, <1>1, <1>4, <1>9, <1>10, <1>11 DEF BytesInOrder, Serial
  <2> QED
    BY <2>3, <2>4, <1>1
<1>13. TearsPaid'
  <2> SUFFICES ASSUME plain PROVE TearsPaid'
    BY <1>1 DEF TearsPaid
  <2>1. \A i \in 1 .. Len(mring') : mring'[i].pos # 1 => ~BeginsPacket(mring'[i].byte)
    <3> TAKE i \in 1 .. Len(mring')
    <3>1. i + 1 \in 1 .. Len(mring) /\ mring'[i] = mring[i + 1]
      BY <1>2
    <3> QED
      BY <3>1 DEF TearsPaid
  <2>2. \A i \in 1 .. Len(mtodo') : mtodo'[i].pos # 1 => ~BeginsPacket(mtodo'[i].byte)
    BY <1>1 DEF TearsPaid
  <2>3. /\ Serial(b) < Sent /\ Serial(b) \in Nat /\ torn \in Nat /\ torn' \in Nat
        /\ mring' # << >> => Serial(b) + 1 <= Serial(mring'[1]) /\ Serial(mring'[1]) \in Nat
    <3>1. Serial(p[Len(p)]) + (Len(p) - Len(p)) < Sent /\ p[Len(p)] = b
      BY <1>3, <1>10
    <3>2. mring' # << >> => Serial(p[Len(p)]) + (Len(p) - Len(p)) + 1 <= Serial(mring'[1])
      <4> SUFFICES ASSUME mring' # << >>
                   PROVE  Serial(p[Len(p)]) + (Len(p) - Len(p)) + 1 <= Serial(mring'[1])
        OBVIOUS
      <4>1. Len(p) \in 1 .. Len(p)
        BY <1>3
      <4>2. 1 \in 1 .. Len(mring')
        BY <1>2
      <4> QED
        BY <4>1, <4>2, <1>11
    <3>3. mring' # << >> => mring'[1] \in MouseByte
      BY <1>2
    <3>4. torn \in Nat /\ torn' \in Nat
      BY <1>7 DEF MouseTypes
    <3>5. mring' # << >> => Serial(mring'[1]) \in Nat
      BY <3>3, <1>8
    <3>6. Serial(b) \in Nat /\ Len(p) \in Nat
      BY <1>2, <1>3, <1>8
    <3> QED
      BY <3>1, <3>2, <3>4, <3>5, <3>6, <1>4
  \* What is paid when the byte leaves nothing pending.
  <2>4. CASE pending' = << >>
    <3>1. torn' + Taken + 1 <= Serial(b) + 1
      <4>1. CASE Len(p) = 1
        <5>1. pending = << >> /\ torn' = torn
          <6>1. torn' = torn
            BY <4>1, <1>1
          <6>2. Len(pending) = 0
            <7>1. Len(p) = Len(pending) + 1 /\ Len(pending) \in Nat
              BY <1>3
            <7>2. \A k \in Nat : k + 1 = 1 => k = 0
              OBVIOUS
            <7> QED
              BY <7>1, <7>2, <4>1
          <6>3. pending \in Seq(MouseByte)
            BY DEF MouseTypes
          <6> QED
            BY <6>1, <6>2, <6>3
        <5>2. torn + Taken <= Serial(mring[1])
          BY <5>1, <1>1 DEF TearsPaid
        <5> QED
          BY <5>1, <5>2, <1>2, <1>4, <2>3
      <4>2. CASE Len(p) = 3
        <5>1. /\ pending # << >> /\ p[1] = pending[1] /\ p[3] = b /\ Len(pending) = 2
              /\ p[1] \in MouseByte /\ p[2] \in MouseByte /\ p[3] \in MouseByte
          <6>1. Len(pending) = 2
            <7>1. Len(p) = Len(pending) + 1 /\ Len(pending) \in Nat
              BY <1>3
            <7>2. \A k \in Nat : k + 1 = 3 => k = 2
              OBVIOUS
            <7> QED
              BY <7>1, <7>2, <4>2
          <6>2. pending # << >>
            BY <6>1
          <6>3. p[1] = pending[1] /\ p[3] = b
            BY <6>1, <1>3
          <6>4. p[1] \in MouseByte /\ p[2] \in MouseByte /\ p[3] \in MouseByte
            BY <4>2, <1>3
          <6> QED
            BY <6>1, <6>2, <6>3, <6>4
        <5>2. p[1].pos = 1 /\ torn + Taken <= Serial(p[1]) + 2
          BY <5>1 DEF TearsPaid
        <5>3. Serial(p[1]) + (2 - 1) <= Serial(p[2]) /\ Serial(p[2]) + (3 - 2) <= Serial(p[3])
          BY <4>2, <1>9
        <5>4. /\ Serial(p[1]) \in Nat /\ Serial(p[2]) \in Nat /\ Serial(p[3]) \in Nat
              /\ p[1].pkt \in Nat /\ p[2].pkt \in Nat /\ p[3].pkt \in Nat
              /\ p[1].pos \in 1 .. 3 /\ p[2].pos \in 1 .. 3 /\ p[3].pos \in 1 .. 3
          BY <5>1, SerialIsNat
        <5>5. CASE Serial(p[3]) >= Serial(p[1]) + 3
          <6>1. torn' <= torn + 1
            BY <1>1, <1>5, <2>3, <4>2
          <6>2. torn + Taken <= Serial(p[1]) + 2 /\ Serial(b) >= Serial(p[1]) + 3
            BY <5>1, <5>2, <5>5
          <6>3. PICK t \in Nat, t1 \in Nat, k \in Int, a \in Nat, z \in Nat :
                  t = torn /\ t1 = torn' /\ k = Taken /\ a = Serial(p[1]) /\ z = Serial(b)
            BY <5>4, <1>4, <2>3
          <6>4. t1 <= t + 1 /\ t + k <= a + 2 /\ z >= a + 3
            BY <6>1, <6>2, <6>3
          <6>5. t1 + k + 1 <= z + 1
            BY <6>4
          <6> QED
            BY <6>3, <6>5
        <5>6. CASE Serial(p[3]) = Serial(p[1]) + 2
          <6>1. Serial(p[2]) = Serial(p[1]) + 1
            BY <5>3, <5>4, <5>6
          <6>2. /\ p[2].pkt = p[1].pkt /\ p[2].pos = 2
                /\ p[3].pkt = p[1].pkt /\ p[3].pos = 3
            <7>1. ASSUME NEW k \in Nat, NEW l \in Nat, NEW o \in 1 .. 3
                  PROVE  /\ 3 * l + o - 1 = 3 * k + 1 => l = k /\ o = 2
                         /\ 3 * l + o - 1 = 3 * k + 2 => l = k /\ o = 3
              OBVIOUS
            <7>2. PICK k \in Nat, l \in Nat, o \in 1 .. 3, m \in Nat, q \in 1 .. 3 :
                    /\ k = p[1].pkt /\ l = p[2].pkt /\ o = p[2].pos
                    /\ m = p[3].pkt /\ q = p[3].pos
              BY <5>4, Zenon
            <7>3. 3 * l + o - 1 = 3 * k + 1 /\ 3 * m + q - 1 = 3 * k + 2
              BY <5>2, <5>4, <5>6, <6>1, <7>2 DEF Serial
            <7>4. l = k /\ o = 2 /\ m = k /\ q = 3
              BY <7>1, <7>3
            <7> QED
              BY <7>2, <7>4, Zenon
          <6>3. OfOnePacket(p)
            BY <5>2, <6>2 DEF OfOnePacket
          <6>4. torn' = torn
            BY <1>1, <4>2, <6>3, <1>7 DEF ToBit, MouseTypes
          <6> QED
            BY <5>1, <5>2, <5>4, <5>6, <6>4, <1>4, <2>3
        <5> QED
          BY <5>3, <5>4, <5>5, <5>6
      <4> QED
        BY <4>1, <4>2, <2>4, <1>1, <1>3
    <3>2. torn' + Taken' <= Sent'
      <4>1. torn' + (Taken + 1) <= Serial(b) + 1
        BY <3>1, <2>3, <1>4
      <4>2. Serial(b) + 1 <= Sent
        BY <2>3, <1>4
      <4>3. \A i, j, k, l \in Int : i + (j + 1) <= k + 1 /\ k + 1 <= l => i + (j + 1) <= l
        OBVIOUS
      <4>4. torn' \in Int /\ Taken \in Int /\ Serial(b) \in Int /\ Sent \in Int
        BY <2>3, <1>4
      <4>5. torn' + (Taken + 1) <= Sent
        BY <4>1, <4>2, <4>3, <4>4
      <4> QED
        BY <4>5, <1>4
    <3>3. mring' # << >> => torn' + Taken' <= Serial(mring'[1])
      BY <3>1, <2>3, <1>4
    <3>4. mring' # << >> => torn' + Taken' <= Serial(mring[1])'
      BY <3>3 DEF Serial
    <3> QED
      BY <2>1, <2>2, <2>4, <3>2, <3>4 DEF TearsPaid
  \* And when it is kept.
  <2>5. CASE pending' = p /\ Len(p) # 3 /\ pending' # << >>
    <3>1. torn' = torn /\ p[1] \in MouseByte /\ Serial(p[1]) \in Nat
      BY <2>5, <1>1, <1>3, <1>8
    <3>2. p[1].pos = 1 /\ torn + (Taken + 1) <= Serial(p[1]) + Len(p)
      <4>1. CASE pending = << >>
        <5>1. Len(p) = 1 /\ p[1] = b /\ b = mring[1]
          BY <4>1, <1>2, <1>3
        <5>2. BeginsPacket(b.byte)
          BY <5>1, <1>1, <2>5
        <5>3. b.pos = 1
          BY <5>1, <5>2, <1>2 DEF TearsPaid
        <5>4. torn + Taken <= Serial(mring[1])
          BY <4>1, <1>1 DEF TearsPaid
        <5> QED
          BY <5>1, <5>3, <5>4, <1>4, <2>3
      <4>2. CASE pending # << >>
        <5>1. p[1] = pending[1] /\ Len(p) = Len(pending) + 1 /\ Len(pending) \in Nat
          BY <4>2, <1>3
        <5>2. pending[1].pos = 1 /\ torn + Taken <= Serial(pending[1]) + Len(pending)
          BY <4>2 DEF TearsPaid
        <5> QED
          BY <5>1, <5>2, <3>1, <1>4, <2>3
      <4> QED
        BY <4>1, <4>2
    <3>3. /\ pending'[1].pos = 1
          /\ torn' + Taken' <= Serial(pending'[1]) + Len(pending')
      BY <3>1, <3>2, <2>5, <1>4
    <3> QED
      BY <2>1, <2>2, <2>5, <3>3, <1>1 DEF TearsPaid, Serial
  <2>6. p # << >>
    BY <1>3
  <2> QED
    BY <2>4, <2>5, <2>6, <1>1
<1> QED
  BY <1>7, <1>12, <1>13

\* The mouse's invariant: bytes are in the order they were sent, and each torn
\* packet is paid for by a byte lost before the decoder's place.
LEMMA MouseInvariant == MouseSpec => []MouseInv
<1>1. InputInit => MouseInv
  BY InputAssumption DEF InputInit, MouseInv, MouseTypes, BytesInOrder, TearsPaid,
       OnScreen, Sent, Taken
<1>2. MouseInv /\ [MouseNext]_inputVars => MouseInv'
  <2> SUFFICES ASSUME MouseInv, [MouseNext]_inputVars PROVE MouseInv'
    OBVIOUS
  <2>1. ASSUME NEW m \in Motions, MouseMoves(m[1], m[2]) PROVE MouseInv'
    BY <2>1, MovesKeepOrder
  <2>2. CASE MouseIrq
    BY <2>2, IrqKeepsOrder
  <2>3. CASE TakeMouseByte
    BY <2>3, TakeKeepsOrder
  <2>4. CASE UNCHANGED inputVars
    BY <2>4 DEF inputVars, mouseVars, MouseInv, MouseTypes, BytesInOrder, TearsPaid,
         Sent, Taken, Serial
  <2> QED
    BY <2>1, <2>2, <2>3, <2>4 DEF MouseNext
<1> QED
  BY <1>1, <1>2, PTL DEF MouseSpec

\* A lost byte tears at most one packet, for every size of ring (the
\* resynchronisation of mouse_poll_packet).
THEOREM TearsArePaid == MouseSpec => []TearsBounded
<1>1. MouseInv => TearsBounded
  <2> SUFFICES ASSUME MouseInv, plain PROVE torn <= mlost
    BY DEF TearsBounded
  <2> USE DEF MouseInv
  <2>1. Sent \in Int /\ Taken = Sent - mlost - Len(mring) /\ Len(mring) \in Nat /\ Len(pending) \in Nat
    BY DEF Sent, Taken, MouseTypes
  <2>2. /\ \A i \in 1 .. Len(mring) : mring[i] \in MouseByte
        /\ \A i \in 1 .. Len(pending) : pending[i] \in MouseByte
        /\ \A b \in MouseByte : Serial(b) \in Nat
        /\ mlost \in Nat /\ torn \in Nat
    BY SerialIsNat DEF MouseTypes
  <2>3. mring # << >> => /\ Serial(mring[1]) + (Len(mring) - 1) < Sent
                        /\ 1 \in 1 .. Len(mring)
    BY <2>1 DEF BytesInOrder, MouseTypes
  <2>4. mring = << >> => Len(mring) = 0
    OBVIOUS
  <2>5. CASE pending = << >>
    <3>1. CASE mring = << >>
      BY <2>5, <3>1, <2>1, <2>2, <2>4 DEF TearsPaid
    <3>2. CASE mring # << >>
      <4>1. torn + Taken <= Serial(mring[1])
        BY <2>5, <3>2 DEF TearsPaid
      <4> QED
        BY <4>1, <3>2, <2>1, <2>2, <2>3
    <3> QED
      BY <3>1, <3>2
  <2>6. CASE pending # << >>
    <3>1. torn + Taken <= Serial(pending[1]) + Len(pending) /\ 1 \in 1 .. Len(pending)
      BY <2>6, <2>1 DEF TearsPaid, MouseTypes
    <3>2. Serial(pending[1]) + (Len(pending) - 1) < Sent
      BY <3>1 DEF BytesInOrder
    <3>3. mring # << >> => Serial(pending[1]) + (Len(pending) - 1) + 1 <= Serial(mring[1])
      BY <3>1, <2>3 DEF BytesInOrder
    <3>4. Serial(pending[1]) \in Nat
      BY <3>1, <2>2
    <3> QED
      BY <3>1, <3>2, <3>3, <3>4, <2>1, <2>2, <2>3, <2>4
  <2> QED
    BY <2>5, <2>6
<1> QED
  BY <1>1, MouseInvariant, PTL

----------------------------------------------------------------------------
(* The mouse that loses nothing.                                           *)

\* What a decoder makes of a packet is the movement, or the most a packet can
\* tell of it.
LEMMA PacketDecodes ==
  ASSUME NEW dx \in Int, NEW dy \in Int
  PROVE  LET p == Packet(dx, dy) IN
         /\ BeginsPacket(p[1])
         /\ Decoded(p[1], p[2], 4, 6) = Counted(dx)
         /\ Decoded(p[1], p[3], 5, 7) = Counted(-dy)
<1> DEFINE a == ToBit(dx < 0)
           b == ToBit(-dy < 0)
           c == ToBit(~Sized(dx))
           d == ToBit(~Sized(-dy))
           f == 8 + 16 * a + 32 * b + 64 * c + 128 * d
<1>1. \A p : ToBit(p) \in {0, 1}
  BY DEF ToBit
<1>2. /\ Packet(dx, dy)[1] = f /\ Packet(dx, dy)[2] = dx % 256
      /\ Packet(dx, dy)[3] = (-dy) % 256
  BY DEF Packet
<1>3. /\ (a = 1 <=> dx < 0) /\ (b = 1 <=> -dy < 0)
      /\ (c = 1 <=> ~Sized(dx)) /\ (d = 1 <=> ~Sized(-dy))
  BY DEF ToBit
<1>4. a \in {0, 1} /\ b \in {0, 1} /\ c \in {0, 1} /\ d \in {0, 1}
  BY <1>1
<1> HIDE DEF a, b, c, d
<1>5. Bit(f, 3) = 1 /\ Bit(f, 4) = a /\ Bit(f, 5) = b /\ Bit(f, 6) = c /\ Bit(f, 7) = d
  BY <1>4 DEF Bit
<1> HIDE DEF f
<1>6. ASSUME NEW e \in Int, NEW sign \in {0, 1}, NEW over \in {0, 1},
             sign = 1 <=> e < 0, over = 1 <=> ~Sized(e)
      PROVE  LET raw == (e % 256) - 256 * sign IN
             (IF over = 0 THEN raw ELSE IF raw < 0 THEN -255 ELSE 255) = Counted(e)
  <2>1. e % 256 \in 0 .. 255
    OBVIOUS
  <2>2. e >= -256 /\ e <= 255 => e % 256 = IF e < 0 THEN e + 256 ELSE e
    OBVIOUS
  <2> QED
    BY <1>6, <2>1, <2>2 DEF Counted, Sized
<1>7. Decoded(f, dx % 256, 4, 6) = Counted(dx)
  <2>1. LET raw == (dx % 256) - 256 * a IN
        (IF c = 0 THEN raw ELSE IF raw < 0 THEN -255 ELSE 255) = Counted(dx)
    BY <1>3, <1>4, <1>6
  <2> QED
    BY <2>1, <1>5 DEF Decoded
<1>8. Decoded(f, (-dy) % 256, 5, 7) = Counted(-dy)
  <2>1. -dy \in Int
    OBVIOUS
  <2>2. LET raw == ((-dy) % 256) - 256 * b IN
        (IF d = 0 THEN raw ELSE IF raw < 0 THEN -255 ELSE 255) = Counted(-dy)
    BY <1>3, <1>4, <1>6, <2>1
  <2> QED
    BY <2>2, <1>5 DEF Decoded
<1> QED
  BY <1>2, <1>5, <1>7, <1>8 DEF BeginsPacket

\* Where a movement puts the cursor.
Step(c, m) == << ClampCursor(c[1] + Counted(m[1])), ClampCursor(c[2] - Counted(-m[2])) >>

\* b belongs to the movement mv has for its packet.
ByteOf(b, mv) == b.byte = Packet(mv[b.pkt][1], mv[b.pkt][2])[b.pos]

\* mv: the movements made; at: where each of them left the cursor; k: how many
\* have been decoded.
Follows(mv, at, k) ==
  /\ at[packets] = aimed /\ at[k] = cursor
  /\ \A n \in Nat : n < packets => at[n + 1] = Step(at[n], mv[n])
  /\ \A i \in 1 .. Len(mtodo) : ByteOf(mtodo[i], mv)
  /\ \A i \in 1 .. Len(mring) : ByteOf(mring[i], mv)
  /\ \A i \in 1 .. Len(pending) : ByteOf(pending[i], mv)
  /\ Taken = 3 * k + Len(pending)
  /\ \A i \in 1 .. Len(pending) : pending[i].pkt = k /\ pending[i].pos = i

Movements == [Nat -> Int \X Int]
Places == [Nat -> OnScreen]

Lossless ==
  mlost = 0 =>
    /\ \A i \in 1 .. Len(mring) : Serial(mring[i]) = Taken + i - 1
    /\ \E mv \in Movements, at \in Places, k \in Nat : Follows(mv, at, k)

\* A new packet is a new movement.
LEMMA MovesFollow ==
  ASSUME MouseInv, Lossless, NEW m \in Motions, MouseMoves(m[1], m[2]), mlost' = 0
  PROVE  Lossless'
<1>1. m[1] \in Int /\ m[2] \in Int
  BY InputAssumption
<1>2. /\ mtodo = << >> /\ packets' = packets + 1
      /\ mtodo' = [i \in 1 .. 3 |-> [byte |-> Packet(m[1], m[2])[i], pkt |-> packets, pos |-> i]]
      /\ aimed' = Step(aimed, m)
      /\ UNCHANGED << mring, pending, cursor, mlost, torn >>
  BY DEF MouseMoves, Step
<1>3. MouseTypes' /\ Len(mtodo') = 3 /\ packets \in Nat
  <2>1. MouseInv'
    BY MovesKeepOrder
  <2>2. Len(mtodo') = 3
    BY <1>2
  <2> QED
    BY <2>1, <2>2 DEF MouseInv, MouseTypes
<1>4. Taken' = Taken /\ Taken <= 3 * packets /\ Taken \in Int
  BY <1>2, <1>3 DEF Sent, Taken, MouseInv, MouseTypes
<1>5. \A i \in 1 .. Len(mring') : Serial(mring'[i]) = Taken' + i - 1
  BY <1>2, <1>4 DEF Lossless
<1>6. PICK mv \in Movements, at \in Places, k \in Nat : Follows(mv, at, k)
  BY <1>2 DEF Lossless
<1>7. PICK mw \in Movements, au \in Places :
        /\ mw[packets] = << m[1], m[2] >> /\ au[packets + 1] = aimed'
        /\ \A n \in Nat : n < packets => mw[n] = mv[n]
        /\ \A n \in Nat : n <= packets => au[n] = at[n]
  <2> DEFINE mw == [mv EXCEPT ![packets] = << m[1], m[2] >>]
             au == [at EXCEPT ![packets + 1] = aimed']
  <2>1. mw \in Movements /\ au \in Places
    BY <1>1, <1>3 DEF Movements, Places, MouseTypes
  <2>2. /\ mw[packets] = << m[1], m[2] >> /\ au[packets + 1] = aimed'
        /\ \A n \in Nat : n < packets => mw[n] = mv[n]
        /\ \A n \in Nat : n <= packets => au[n] = at[n]
    BY <1>3 DEF Movements, Places
  <2> QED
    BY <2>1, <2>2
<1>8. k <= packets
  <2>1. Taken = 3 * k + Len(pending) /\ Taken <= 3 * packets
    BY <1>4, <1>6 DEF Follows
  <2>2. PICK n \in Nat, z \in Nat : n = Len(pending) /\ z = packets
    BY <1>3 DEF MouseInv, MouseTypes
  <2>3. 3 * k + n <= 3 * z
    BY <2>1, <2>2
  <2>4. k <= z
    BY <2>3
  <2> QED
    BY <2>2, <2>4
<1>9. au[packets'] = aimed' /\ au[k] = cursor'
  BY <1>2, <1>3, <1>6, <1>7, <1>8 DEF Follows
<1>10. \A n \in Nat : n < packets' => au[n + 1] = Step(au[n], mw[n])
  <2> SUFFICES ASSUME NEW n \in Nat, n < packets' PROVE au[n + 1] = Step(au[n], mw[n])
    OBVIOUS
  <2>1. CASE n < packets
    <3>1. at[n + 1] = Step(at[n], mv[n])
      BY <2>1, <1>6 DEF Follows
    <3>2. au[n + 1] = at[n + 1] /\ au[n] = at[n] /\ mw[n] = mv[n]
      BY <2>1, <1>3, <1>7
    <3> QED
      BY <3>1, <3>2
  <2>2. CASE n = packets
    <3>1. au[n] = aimed
      <4>1. packets \in Nat /\ packets <= packets
        BY <1>3
      <4>2. au[packets] = at[packets]
        BY <4>1, <1>7, Zenon
      <4> QED
        BY <4>2, <2>2, <1>6 DEF Follows
    <3>2. Step(aimed, m) = Step(aimed, << m[1], m[2] >>)
      BY DEF Step
    <3> QED
      BY <2>2, <3>1, <3>2, <1>2, <1>7
  <2> QED
    BY <2>1, <2>2, <1>2, <1>3
<1>11. \A i \in 1 .. Len(mtodo') : ByteOf(mtodo'[i], mw)
  <2> TAKE i \in 1 .. Len(mtodo')
  <2>1. i \in 1 .. 3
    BY <1>3
  <2>2. /\ mtodo'[i].byte = Packet(m[1], m[2])[i]
        /\ mtodo'[i].pkt = packets /\ mtodo'[i].pos = i
    BY <2>1, <1>2
  <2>3. mw[packets][1] = m[1] /\ mw[packets][2] = m[2]
    BY <1>7
  <2> QED
    BY <2>2, <2>3, Zenon DEF ByteOf
<1>12. ASSUME NEW b \in MouseByte, Serial(b) < 3 * packets, ByteOf(b, mv)
       PROVE  ByteOf(b, mw)
  <2>1. b.pkt \in Nat /\ b.pkt < packets
    <3>1. \A i \in Nat, j \in 1 .. 3 : 3 * i + j - 1 < 3 * packets => i < packets
      BY <1>3
    <3> QED
      BY <3>1, <1>12, SerialIsNat DEF Serial
  <2>2. mw[b.pkt] = mv[b.pkt]
    BY <2>1, <1>7
  <2> QED
    BY <2>2, <1>12 DEF ByteOf
<1>13. \A i \in 1 .. Len(mring) : ByteOf(mring[i], mw)
  <2> TAKE i \in 1 .. Len(mring)
  <2>1. mring[i] \in MouseByte /\ ByteOf(mring[i], mv) /\ Len(mring) \in Nat
    BY <1>2, <1>6 DEF Follows, MouseInv, MouseTypes
  <2>2. Serial(mring[i]) + (Len(mring) - i) < Sent /\ Sent = 3 * packets
    <3>1. mtodo = << >>
      BY <1>2
    <3>2. Sent = 3 * packets
      BY <3>1, <1>3 DEF Sent
    <3> QED
      BY <3>2 DEF MouseInv, BytesInOrder
  <2>3. PICK a \in Nat, d \in Nat, n \in Nat :
          a = Serial(mring[i]) /\ d = Len(mring) - i /\ n = packets
    <3>1. Serial(mring[i]) \in Nat
      BY <2>1, SerialIsNat
    <3>2. Len(mring) - i \in Nat
      BY <2>1
    <3> QED
      BY <3>1, <3>2, <1>3
  <2>4. a + d < 3 * n
    BY <2>2, <2>3
  <2>5. a < 3 * n
    BY <2>4
  <2> QED
    BY <2>1, <2>3, <2>5, <1>12
<1>14. \A i \in 1 .. Len(pending) : ByteOf(pending[i], mw)
  <2> TAKE i \in 1 .. Len(pending)
  <2>1. pending[i] \in MouseByte /\ ByteOf(pending[i], mv) /\ Len(pending) \in Nat
    BY <1>2, <1>6 DEF Follows, MouseInv, MouseTypes
  <2>2. Serial(pending[i]) + (Len(pending) - i) < Sent /\ Sent = 3 * packets
    <3>1. mtodo = << >>
      BY <1>2
    <3>2. Sent = 3 * packets
      BY <3>1, <1>3 DEF Sent
    <3> QED
      BY <3>2 DEF MouseInv, BytesInOrder
  <2>3. PICK a \in Nat, d \in Nat, n \in Nat :
          a = Serial(pending[i]) /\ d = Len(pending) - i /\ n = packets
    <3>1. Serial(pending[i]) \in Nat
      BY <2>1, SerialIsNat
    <3>2. Len(pending) - i \in Nat
      BY <2>1
    <3> QED
      BY <3>1, <3>2, <1>3
  <2>4. a + d < 3 * n
    BY <2>2, <2>3
  <2>5. a < 3 * n
    BY <2>4
  <2> QED
    BY <2>1, <2>3, <2>5, <1>12
<1>15. /\ Taken' = 3 * k + Len(pending')
       /\ \A i \in 1 .. Len(pending') : pending'[i].pkt = k /\ pending'[i].pos = i
  BY <1>2, <1>4, <1>6 DEF Follows
<1>16. Follows(mw, au, k)'
  BY <1>2, <1>9, <1>10, <1>11, <1>13, <1>14, <1>15 DEF Follows
<1> QED
  BY <1>5, <1>16 DEF Lossless, Serial

\* The handler takes the next byte of the flight, or one is lost.
LEMMA IrqFollows ==
  ASSUME MouseInv, Lossless, MouseIrq, mlost' = 0
  PROVE  Lossless'
<1>1. /\ mtodo # << >> /\ mtodo' = Tail(mtodo) /\ mring' = Append(mring, Head(mtodo))
      /\ mlost = 0 /\ mlost' = mlost
      /\ UNCHANGED << pending, cursor, aimed, torn, plain, packets >>
  BY DEF MouseIrq, MouseInv, MouseTypes
<1>2. /\ Len(mtodo') = Len(mtodo) - 1 /\ Len(mtodo) \in Nat /\ 1 \in 1 .. Len(mtodo)
      /\ \A i \in 1 .. Len(mtodo') : mtodo'[i] = mtodo[i + 1]
      /\ Head(mtodo) = mtodo[1]
  BY <1>1 DEF MouseInv, MouseTypes
<1>3. /\ Len(mring') = Len(mring) + 1 /\ Len(mring) \in Nat
      /\ \A i \in 1 .. Len(mring) : mring'[i] = mring[i]
      /\ mring'[Len(mring) + 1] = mtodo[1]
  BY <1>1, <1>2 DEF MouseInv, MouseTypes
<1>4. Sent' = Sent + 1 /\ Taken' = Taken /\ Sent \in Int /\ Taken = Sent - Len(mring)
  BY <1>1, <1>2, <1>3 DEF Sent, Taken, MouseInv, MouseTypes
<1>5. \A i \in 1 .. Len(mring') : Serial(mring'[i]) = Taken' + i - 1
  <2> TAKE i \in 1 .. Len(mring')
  <2>1. CASE i <= Len(mring)
    BY <2>1, <1>1, <1>3, <1>4 DEF Lossless
  <2>2. CASE i = Len(mring) + 1
    <3>1. Serial(mtodo[1]) = Sent + 1 - 1
      BY <1>2 DEF MouseInv, BytesInOrder
    <3> QED
      BY <3>1, <2>2, <1>3, <1>4
  <2> QED
    BY <2>1, <2>2, <1>3
<1>6. PICK mv \in Movements, at \in Places, k \in Nat : Follows(mv, at, k)
  BY <1>1 DEF Lossless
<1>7. \A i \in 1 .. Len(mtodo') : ByteOf(mtodo'[i], mv)
  BY <1>2, <1>6 DEF Follows
<1>8. \A i \in 1 .. Len(mring') : ByteOf(mring'[i], mv)
  <2> TAKE i \in 1 .. Len(mring')
  <2>1. CASE i <= Len(mring)
    <3>1. i \in 1 .. Len(mring) /\ mring'[i] = mring[i]
      BY <2>1, <1>3
    <3> QED
      BY <3>1, <1>6 DEF Follows
  <2>2. CASE i = Len(mring) + 1
    <3>1. mring'[i] = mtodo[1]
      BY <2>2, <1>3
    <3> QED
      BY <3>1, <1>2, <1>6 DEF Follows
  <2> QED
    BY <2>1, <2>2, <1>3
<1>9. Follows(mv, at, k)'
  BY <1>1, <1>4, <1>6, <1>7, <1>8 DEF Follows
<1> QED
  BY <1>5, <1>9 DEF Lossless, Serial

\* The decoder takes the next byte of the packet it is in.
LEMMA TakeFollows ==
  ASSUME MouseInv, Lossless, TakeMouseByte, mlost' = 0
  PROVE  Lossless'
<1> DEFINE b == Head(mring)
           p == Append(pending, b)
<1>1. /\ mring # << >> /\ mring' = Tail(mring)
      /\ pending' = IF Len(p) = 3 THEN << >>
                    ELSE IF Len(p) = 1 /\ ~BeginsPacket(b.byte) THEN << >> ELSE p
      /\ Len(p) = 3 => cursor' = Moved(p)
      /\ Len(p) # 3 => cursor' = cursor
      /\ UNCHANGED << mtodo, aimed, mlost, plain, packets >>
  BY DEF TakeMouseByte
<1>2. /\ Len(mring') = Len(mring) - 1 /\ Len(mring) \in Nat /\ 1 \in 1 .. Len(mring)
      /\ \A i \in 1 .. Len(mring') : mring'[i] = mring[i + 1]
      /\ b \in MouseByte /\ b = mring[1]
  BY <1>1 DEF MouseInv, MouseTypes
<1>3. /\ Len(p) = Len(pending) + 1 /\ Len(pending) \in 0 .. 2
      /\ \A i \in 1 .. Len(pending) : p[i] = pending[i]
      /\ p[Len(pending) + 1] = b
  <2>1. pending \in Seq(MouseByte) /\ Len(pending) < 3 /\ Len(pending) \in Nat
    BY DEF MouseInv, MouseTypes
  <2>2. \A x \in MouseByte :
          /\ Len(Append(pending, x)) = Len(pending) + 1
          /\ \A i \in 1 .. Len(pending) : Append(pending, x)[i] = pending[i]
          /\ Append(pending, x)[Len(pending) + 1] = x
    BY <2>1
  <2>3. \A n \in Nat : n < 3 => n \in 0 .. 2
    OBVIOUS
  <2> QED
    BY <2>1, <2>2, <2>3, <1>2
<1> HIDE DEF b, p
<1>4. Taken' = Taken + 1 /\ Taken \in Int
  BY <1>1, <1>2 DEF Sent, Taken, MouseInv, MouseTypes
<1>5. \A i \in 1 .. Len(mring') : Serial(mring'[i]) = Taken' + i - 1
  <2> TAKE i \in 1 .. Len(mring')
  <2>1. i + 1 \in 1 .. Len(mring)
    BY <1>2
  <2>2. Serial(mring[i + 1]) = Taken + (i + 1) - 1
    BY <2>1, <1>1 DEF Lossless
  <2> QED
    BY <2>2, <1>2, <1>4
<1>6. PICK mv \in Movements, at \in Places, k \in Nat : Follows(mv, at, k)
  BY <1>1 DEF Lossless
\* The byte is the next one of packet k.
<1>7. b.pkt = k /\ b.pos = Len(pending) + 1 /\ ByteOf(b, mv)
  <2>1. Serial(b) = 3 * k + Len(pending)
    <3>1. Serial(mring[1]) = Taken + 1 - 1
      BY <1>1, <1>2 DEF Lossless
    <3> QED
      BY <3>1, <1>2, <1>4, <1>6 DEF Follows
  <2>2. ASSUME NEW n \in Nat, NEW o \in 1 .. 3, NEW l \in 0 .. 2, 3 * n + o - 1 = 3 * k + l
        PROVE  n = k /\ o = l + 1
    BY <2>2
  <2>3. b.pkt \in Nat /\ b.pos \in 1 .. 3
    BY <1>2, SerialIsNat
  <2>4. 3 * b.pkt + b.pos - 1 = 3 * k + Len(pending)
    BY <2>1 DEF Serial
  <2>5. b.pkt = k /\ b.pos = Len(pending) + 1
    BY <2>2, <2>3, <2>4, <1>3
  <2> QED
    BY <2>5, <1>2, <1>6 DEF Follows
<1>8. /\ \A i \in 1 .. Len(mtodo') : ByteOf(mtodo'[i], mv)
      /\ \A i \in 1 .. Len(mring') : ByteOf(mring'[i], mv)
  BY <1>1, <1>2, <1>6 DEF Follows
<1>9. \A i \in 1 .. Len(p) : p[i].pkt = k /\ p[i].pos = i /\ ByteOf(p[i], mv)
  BY <1>3, <1>6, <1>7 DEF Follows
<1>10. mv[k][1] \in Int /\ mv[k][2] \in Int
  BY DEF Movements
<1>11. CASE Len(p) = 3
  <2>0. Len(pending) = 2
    <3>1. \A n \in 0 .. 2 : n + 1 = 3 => n = 2
      OBVIOUS
    <3> QED
      BY <3>1, <1>3, <1>11
  <2>1. /\ p[1].byte = Packet(mv[k][1], mv[k][2])[1]
        /\ p[2].byte = Packet(mv[k][1], mv[k][2])[2]
        /\ p[3].byte = Packet(mv[k][1], mv[k][2])[3]
    BY <1>9, <1>11 DEF ByteOf
  <2>2. /\ Decoded(p[1].byte, p[2].byte, 4, 6) = Counted(mv[k][1])
        /\ Decoded(p[1].byte, p[3].byte, 5, 7) = Counted(-mv[k][2])
    <3>1. PICK dx \in Int, dy \in Int : dx = mv[k][1] /\ dy = mv[k][2]
      BY <1>10
    <3>2. /\ Decoded(Packet(dx, dy)[1], Packet(dx, dy)[2], 4, 6) = Counted(dx)
          /\ Decoded(Packet(dx, dy)[1], Packet(dx, dy)[3], 5, 7) = Counted(-dy)
      BY PacketDecodes
    <3> QED
      BY <2>1, <3>1, <3>2
  <2>3. cursor' = Step(cursor, mv[k])
    BY <2>2, <1>1, <1>11 DEF Moved, Step
  <2>4. k < packets /\ k \in Nat
    <3>1. Serial(b) + (Len(mring) - 1) < Sent /\ Sent = 3 * packets - Len(mtodo)
      BY <1>2 DEF MouseInv, BytesInOrder, Sent
    <3>2. Serial(b) = 3 * k + 2
      BY <2>0, <1>7 DEF Serial
    <3>3. Len(mtodo) \in Nat /\ packets \in Nat
      BY DEF MouseInv, MouseTypes
    <3>4. PICK l \in Nat, m \in Nat, n \in Nat :
            l = Len(mtodo) /\ m = Len(mring) /\ n = packets
      BY <3>3, <1>2
    <3>5. 3 * k + 2 + (m - 1) < 3 * n - l /\ m > 0
      BY <3>1, <3>2, <3>4, <1>2
    <3>6. k < n
      BY <3>5
    <3> QED
      BY <3>4, <3>6
  <2>5. at[k + 1] = cursor'
    BY <2>3, <2>4, <1>6 DEF Follows
  <2>6. pending' = << >> /\ Taken' = 3 * (k + 1) + Len(pending')
    <3>1. pending' = << >> /\ Taken = 3 * k + 2
      BY <2>0, <1>1, <1>6, <1>11 DEF Follows
    <3> QED
      BY <3>1, <1>4
  <2>7. Follows(mv, at, k + 1)'
    BY <2>4, <2>5, <2>6, <1>1, <1>6, <1>8 DEF Follows
  <2> QED
    BY <2>7, <1>5 DEF Lossless, Serial
<1>12. CASE Len(p) # 3
  <2>1. Len(p) = 1 => BeginsPacket(b.byte)
    <3>1. Len(p) = 1 => b.byte = Packet(mv[k][1], mv[k][2])[1]
      BY <1>3, <1>7 DEF ByteOf
    <3> QED
      <4>1. PICK dx \in Int, dy \in Int : dx = mv[k][1] /\ dy = mv[k][2]
        BY <1>10
      <4>2. BeginsPacket(Packet(dx, dy)[1])
        BY PacketDecodes
      <4> QED
        BY <3>1, <4>1, <4>2
  <2>2. pending' = p /\ cursor' = cursor
    BY <2>1, <1>1, <1>12
  <2>3. Taken' = 3 * k + Len(pending')
    BY <2>2, <1>3, <1>4, <1>6 DEF Follows
  <2>4. Follows(mv, at, k)'
    BY <2>2, <2>3, <1>1, <1>6, <1>8, <1>9 DEF Follows
  <2> QED
    BY <2>4, <1>5 DEF Lossless, Serial
<1> QED
  BY <1>11, <1>12

\* While no byte is lost the drained cursor is where the movements put it: the
\* framing, the nine-bit numbers, their overflow and the axis mouse_poll_packet
\* flips are right for every movement, however the interrupts fall.
THEOREM CursorFollows == MouseSpec => []CursorWhereAimed
<1>1. InputInit => Lossless
  <2> SUFFICES ASSUME InputInit PROVE Lossless
    OBVIOUS
  <2>1. [n \in Nat |-> << 0, 0 >>] \in Movements /\ [n \in Nat |-> << 0, 0 >>] \in Places
    BY InputAssumption DEF Movements, Places, OnScreen
  <2>2. /\ mring = << >> /\ mtodo = << >> /\ pending = << >> /\ packets = 0
        /\ cursor = << 0, 0 >> /\ aimed = << 0, 0 >> /\ mlost = 0
    BY DEF InputInit
  <2>3. Taken = 0
    <3>1. Len(mring) = 0 /\ Len(mtodo) = 0
      BY <2>2
    <3> QED
      BY <3>1, <2>2 DEF Sent, Taken
  <2> DEFINE z == [n \in Nat |-> << 0, 0 >>]
  <2>4. z[0] = << 0, 0 >>
    OBVIOUS
  <2> HIDE DEF z
  <2>5. Follows(z, z, 0)
    BY <2>2, <2>3, <2>4 DEF Follows
  <2>6. \A i \in 1 .. Len(mring) : Serial(mring[i]) = Taken + i - 1
    BY <2>2
  <2> QED
    BY <2>1, <2>5, <2>6 DEF Lossless, z
<1>2. MouseInv /\ Lossless /\ [MouseNext]_inputVars => Lossless'
  <2> SUFFICES ASSUME MouseInv, Lossless, [MouseNext]_inputVars, mlost' = 0 PROVE Lossless'
    BY DEF Lossless
  <2>1. ASSUME NEW m \in Motions, MouseMoves(m[1], m[2]) PROVE Lossless'
    BY <2>1, MovesFollow
  <2>2. CASE MouseIrq
    BY <2>2, IrqFollows
  <2>3. CASE TakeMouseByte
    BY <2>3, TakeFollows
  <2>4. CASE UNCHANGED inputVars
    BY <2>4 DEF inputVars, mouseVars, Lossless, Follows, Sent, Taken, Serial
  <2> QED
    BY <2>1, <2>2, <2>3, <2>4 DEF MouseNext
<1>3. MouseInv /\ Lossless => CursorWhereAimed
  <2> SUFFICES ASSUME MouseInv, Lossless, mlost = 0, mring = << >>, mtodo = << >>
               PROVE  cursor = aimed
    BY DEF CursorWhereAimed
  <2>1. PICK mv \in Movements, at \in Places, k \in Nat : Follows(mv, at, k)
    BY DEF Lossless
  <2>2. 3 * packets = 3 * k + Len(pending) /\ packets \in Nat
    BY <2>1 DEF Follows, Sent, Taken, MouseInv, MouseTypes
  <2>3. Len(pending) \in Nat /\ Len(pending) < 3
    BY DEF MouseInv, MouseTypes
  <2>4. k = packets
    BY <2>2, <2>3
  <2> QED
    BY <2>1, <2>4 DEF Follows
<1> QED
  BY <1>1, <1>2, <1>3, MouseInvariant, PTL DEF MouseSpec

----------------------------------------------------------------------------
(* The keyboard.                                                           *)

KeySpec == InputInit /\ [][KbdNext]_inputVars

Keys == {"lshift", "rshift", "arrow", "letter"}
Scancode == (Keys \cup {"e0"}) \X BOOLEAN

KeyTypes ==
  /\ kring \in Seq(Scancode) /\ ktodo \in Seq(Scancode)
  /\ kdue \in Seq({"KEY_UP", "A", "a"})
  /\ kext \in BOOLEAN /\ lshift \in BOOLEAN /\ rshift \in BOOLEAN
  /\ ldown \in BOOLEAN /\ rdown \in BOOLEAN
  /\ kwrong \in BOOLEAN /\ klost \in BOOLEAN

\* The codes the decoder has yet to see.
InFlight == Len(kring) + Len(ktodo)
Flight(i) == IF i <= Len(kring) THEN kring[i] ELSE ktodo[i - Len(kring)]

\* A code yields a character to a decoder that has, or has not, seen a prefix.
Yields(sc, ext) == sc[2] /\ sc[1] \in {"arrow", "letter"} /\ (ext <=> sc[1] = "arrow")
Char(ext, shifted) == IF ext THEN "KEY_UP" ELSE IF shifted THEN "A" ELSE "a"

\* After i codes the decoder has seen a prefix (ex), holds the shifts (le, ri)
\* and owes the last ow characters: what it makes of the whole flight is what
\* was typed.
Decodes(due, sc, ex, le, ri, ow, i) ==
  /\ ex[i + 1] <=> sc[1] = "e0"
  /\ le[i + 1] <=> IF ~ex[i] /\ sc[1] = "lshift" THEN sc[2] ELSE le[i]
  /\ ri[i + 1] <=> IF ~ex[i] /\ sc[1] = "rshift" THEN sc[2] ELSE ri[i]
  /\ ~Yields(sc, ex[i]) => ow[i + 1] = ow[i]
  /\ Yields(sc, ex[i]) =>
       /\ ow[i] > 0 /\ ow[i + 1] = ow[i] - 1
       /\ due[Len(due) - ow[i] + 1] = Char(ex[i], le[i] \/ ri[i])

Runs(ex, le, ri, ow) ==
  /\ (ex[0] <=> kext) /\ (le[0] <=> lshift) /\ (ri[0] <=> rshift) /\ ow[0] = Len(kdue)
  /\ \A i \in 0 .. InFlight - 1 : Decodes(kdue, Flight(i + 1), ex, le, ri, ow, i)
  /\ \A i, j \in 0 .. InFlight : i <= j => ow[j] <= ow[i]
  /\ ~ex[InFlight] /\ (le[InFlight] <=> ldown) /\ (ri[InFlight] <=> rdown)
  /\ ow[InFlight] = 0

KeyInv ==
  /\ KeyTypes
  /\ ~klost => /\ ~kwrong
               /\ \E ex, le, ri \in [Nat -> BOOLEAN], ow \in [Nat -> Nat] :
                    Runs(ex, le, ri, ow)

\* What a key sends, and the character it owes: it is the last code's.
LEMMA CodesOfKey ==
  ASSUME KeyTypes, NEW key \in Keys, NEW down \in BOOLEAN
  PROVE  /\ Codes(key, down) \in Seq(Scancode) /\ Len(Codes(key, down)) \in 1 .. 4
         /\ key # "arrow" => Codes(key, down) = << << key, down >> >>
         /\ key = "arrow" =>
              \/ /\ ~ldown
                 /\ Codes(key, down) = << << "e0", TRUE >>, << "arrow", down >> >>
              \/ /\ ldown /\ down
                 /\ Codes(key, down) = << << "e0", TRUE >>, << "lshift", FALSE >>,
                                          << "e0", TRUE >>, << "arrow", TRUE >> >>
              \/ /\ ldown /\ ~down
                 /\ Codes(key, down) = << << "e0", TRUE >>, << "arrow", FALSE >>,
                                          << "e0", TRUE >>, << "lshift", TRUE >> >>
<1>1. CASE key # "arrow"
  <2>1. Codes(key, down) = << << key, down >> >>
    BY <1>1 DEF Codes
  <2>2. << key, down >> \in Scancode
    BY DEF Scancode
  <2> QED
    BY <1>1, <2>1, <2>2
<1>2. CASE key = "arrow"
  <2>0. \A a, b, c, d \in Scancode :
          /\ << a, b >> \in Seq(Scancode) /\ Len(<< a, b >>) \in 1 .. 4
          /\ << a, b, c, d >> \in Seq(Scancode) /\ Len(<< a, b, c, d >>) \in 1 .. 4
    OBVIOUS
  <2>1. CASE ~ldown
    <3>1. Codes(key, down) = << << "e0", TRUE >>, << "arrow", down >> >>
      BY <1>2, <2>1 DEF Codes
    <3>2. << "e0", TRUE >> \in Scancode /\ << "arrow", down >> \in Scancode
      BY DEF Scancode, Keys
    <3>3. Codes(key, down) \in Seq(Scancode) /\ Len(Codes(key, down)) \in 1 .. 4
      BY <2>0, <3>1, <3>2
    <3> QED
      BY <1>2, <2>1, <3>1, <3>3
  <2>2. CASE ldown /\ down
    <3>1. Codes(key, down) = << << "e0", TRUE >>, << "lshift", FALSE >>,
                                << "e0", TRUE >>, << "arrow", TRUE >> >>
      <4>1. down = TRUE
        BY <2>2
      <4> QED
        BY <1>2, <2>2, <4>1 DEF Codes
    <3>2. /\ << "e0", TRUE >> \in Scancode /\ << "arrow", TRUE >> \in Scancode
          /\ << "lshift", FALSE >> \in Scancode
      BY DEF Scancode, Keys
    <3>3. Codes(key, down) \in Seq(Scancode) /\ Len(Codes(key, down)) \in 1 .. 4
      BY <2>0, <3>1, <3>2
    <3> QED
      BY <1>2, <2>2, <3>1, <3>3
  <2>3. CASE ldown /\ ~down
    <3>1. Codes(key, down) = << << "e0", TRUE >>, << "arrow", FALSE >>,
                                << "e0", TRUE >>, << "lshift", TRUE >> >>
      <4>1. down = FALSE
        BY <2>3
      <4> QED
        BY <1>2, <2>3, <4>1 DEF Codes
    <3>2. /\ << "e0", TRUE >> \in Scancode /\ << "arrow", FALSE >> \in Scancode
          /\ << "lshift", TRUE >> \in Scancode
      BY DEF Scancode, Keys
    <3>3. Codes(key, down) \in Seq(Scancode) /\ Len(Codes(key, down)) \in 1 .. 4
      BY <2>0, <3>1, <3>2
    <3> QED
      BY <1>2, <2>3, <3>1, <3>3
  <2> QED
    BY <2>1, <2>2, <2>3 DEF KeyTypes
<1> QED
  BY <1>1, <1>2

\* The handler moves a code into the ring; the flight stays as it is.
LEMMA IrqKeepsFlight ==
  ASSUME KeyInv, KeyIrq
  PROVE  KeyInv'
<1>1. /\ ktodo # << >> /\ ktodo' = Tail(ktodo)
      /\ UNCHANGED << kext, lshift, rshift, kdue, kwrong, ldown, rdown >>
  BY DEF KeyIrq
<1>2. \/ klost' = TRUE /\ kring' = kring
      \/ klost' = klost /\ kring' = Append(kring, Head(ktodo))
  BY DEF KeyIrq
<1>3. /\ Len(ktodo') = Len(ktodo) - 1 /\ ktodo' \in Seq(Scancode) /\ Len(ktodo) \in Nat
      /\ \A i \in 1 .. Len(ktodo') : ktodo'[i] = ktodo[i + 1]
      /\ Head(ktodo) = ktodo[1] /\ Head(ktodo) \in Scancode /\ Len(ktodo) > 0
  BY <1>1 DEF KeyInv, KeyTypes
<1>4. KeyTypes'
  <2>1. kring' \in Seq(Scancode)
    <3>1. kring \in Seq(Scancode) /\ Head(ktodo) \in Scancode
      BY <1>3 DEF KeyInv, KeyTypes
    <3>2. Append(kring, Head(ktodo)) \in Seq(Scancode)
      BY <3>1, Appended
    <3> QED
      BY <1>2, <3>1, <3>2
  <2>2. klost' \in BOOLEAN
    BY <1>2 DEF KeyInv, KeyTypes
  <2> QED
    BY <1>1, <1>3, <2>1, <2>2 DEF KeyInv, KeyTypes
<1>5. ASSUME ~klost' PROVE ~kwrong' /\ \E ex, le, ri \in [Nat -> BOOLEAN], ow \in [Nat -> Nat] : Runs(ex, le, ri, ow)'
  <2>1. ~klost /\ ~kwrong' /\ kring' = Append(kring, Head(ktodo))
    BY <1>1, <1>2, <1>5 DEF KeyInv
  <2>2. PICK ex, le, ri \in [Nat -> BOOLEAN], ow \in [Nat -> Nat] : Runs(ex, le, ri, ow)
    BY <2>1 DEF KeyInv
  <2>3. /\ Len(kring') = Len(kring) + 1 /\ Len(kring) \in Nat
        /\ \A i \in 1 .. Len(kring) : kring'[i] = kring[i]
        /\ kring'[Len(kring) + 1] = ktodo[1]
    <3>1. kring \in Seq(Scancode) /\ Head(ktodo) \in Scancode
      BY <1>3 DEF KeyInv, KeyTypes
    <3> QED
      BY <3>1, <1>3, <2>1, Appended
  <2>4. InFlight' = InFlight /\ InFlight \in Nat
    BY <1>3, <2>3 DEF InFlight
  <2>5. \A i \in 1 .. InFlight : Flight(i)' = Flight(i)
    <3> TAKE i \in 1 .. InFlight
    <3>1. CASE i <= Len(kring)
      <4>1. i \in 1 .. Len(kring) /\ i <= Len(kring')
        BY <3>1, <1>3, <2>3 DEF InFlight
      <4>2. kring'[i] = kring[i]
        BY <4>1, <2>3
      <4> QED
        BY <3>1, <4>1, <4>2 DEF Flight
    <3>2. CASE i = Len(kring) + 1
      <4>1. i <= Len(kring') /\ ~(i <= Len(kring)) /\ i - Len(kring) = 1
        BY <3>2, <2>3
      <4>2. kring'[i] = ktodo[1]
        BY <3>2, <2>3
      <4> QED
        BY <4>1, <4>2 DEF Flight
    <3>3. CASE i > Len(kring) + 1
      <4>1. i - Len(kring') \in 1 .. Len(ktodo')
        BY <3>3, <1>3, <2>3 DEF InFlight
      <4>2. ktodo'[i - Len(kring')] = ktodo[i - Len(kring') + 1]
        BY <4>1, <1>3
      <4>3. i - Len(kring') + 1 = i - Len(kring)
        BY <2>3
      <4> QED
        BY <3>3, <4>2, <4>3, <2>3 DEF Flight
    <3>4. i <= Len(kring) \/ i = Len(kring) + 1 \/ i > Len(kring) + 1
      <4>1. \A m, n \in Int : m <= n \/ m = n + 1 \/ m > n + 1
        OBVIOUS
      <4>2. i \in Int /\ Len(kring) \in Int
        BY <2>3, <2>4
      <4> QED
        BY <4>1, <4>2
    <3> QED
      BY <3>1, <3>2, <3>3, <3>4
  <2>6. \A i \in 0 .. InFlight - 1 : Decodes(kdue, Flight(i + 1), ex, le, ri, ow, i)'
    <3> TAKE i \in 0 .. InFlight - 1
    <3>1. Decodes(kdue, Flight(i + 1), ex, le, ri, ow, i)
      BY <2>2 DEF Runs
    <3>2. Flight(i + 1)' = Flight(i + 1)
      BY <2>4, <2>5
    <3> QED
      BY <3>1, <3>2, <1>1 DEF Decodes
  <2>7. Runs(ex, le, ri, ow)'
    BY <2>2, <2>4, <2>6, <1>1 DEF Runs
  <2> QED
    BY <2>1, <2>7
<1> QED
  BY <1>4, <1>5 DEF KeyInv

\* A history without its first state.
LEMMA Shifted ==
  ASSUME NEW S, NEW f \in [Nat -> S]
  PROVE  \E g \in [Nat -> S] : \A i \in Nat : g[i] = f[i + 1]
<1> DEFINE g == [i \in Nat |-> f[i + 1]]
<1>1. g \in [Nat -> S] /\ \A i \in Nat : g[i] = f[i + 1]
  OBVIOUS
<1> QED
  BY <1>1

\* The decoder takes the first code of the flight, and returns the first
\* character owed when the code yields one.
LEMMA TakeKeepsFlight ==
  ASSUME KeyInv, TakeScancode
  PROVE  KeyInv'
<1> DEFINE sc == Head(kring)
           yields == Yields(sc, kext)
           c == Char(kext, lshift \/ rshift)
<1>1. /\ kring # << >> /\ kring' = Tail(kring)
      /\ kext' = (sc[1] = "e0")
      /\ lshift' = IF ~kext /\ sc[1] = "lshift" THEN sc[2] ELSE lshift
      /\ rshift' = IF ~kext /\ sc[1] = "rshift" THEN sc[2] ELSE rshift
      /\ yields => Returned(c)
      /\ ~yields => UNCHANGED << kdue, kwrong >>
      /\ UNCHANGED << ktodo, klost, ldown, rdown >>
  BY DEF TakeScancode, Yields, Char
<1>2. /\ kring' \in Seq(Scancode) /\ Len(kring') = Len(kring) - 1
      /\ Len(kring) \in Nat /\ Len(kring) > 0
      /\ sc = kring[1] /\ sc \in Scancode
      /\ \A i \in 1 .. Len(kring') : kring'[i] = kring[i + 1]
  BY <1>1, Tailed DEF KeyInv, KeyTypes
<1>3. sc[1] \in Keys \cup {"e0"} /\ sc[2] \in BOOLEAN
  BY <1>2 DEF Scancode
<1> HIDE DEF sc, yields, c
<1>4. KeyTypes'
  <2>1. kext' \in BOOLEAN
    BY <1>1
  <2>2. lshift' \in BOOLEAN
    BY <1>1, <1>3, Zenon DEF KeyInv, KeyTypes
  <2>3. rshift' \in BOOLEAN
    BY <1>1, <1>3, Zenon DEF KeyInv, KeyTypes
  <2>4. kdue' \in Seq({"KEY_UP", "A", "a"}) /\ kwrong' \in BOOLEAN
    <3>1. CASE yields
      <4>1. kwrong' \in BOOLEAN
        BY <3>1, <1>1 DEF Returned
      <4>2. kdue # << >> => Tail(kdue) \in Seq({"KEY_UP", "A", "a"})
        BY Tailed DEF KeyInv, KeyTypes
      <4> QED
        BY <3>1, <4>1, <4>2, <1>1 DEF Returned, KeyInv, KeyTypes
    <3>2. CASE ~yields
      BY <3>2, <1>1 DEF KeyInv, KeyTypes
    <3> QED
      BY <3>1, <3>2
  <2> QED
    BY <1>1, <1>2, <2>1, <2>2, <2>3, <2>4 DEF KeyInv, KeyTypes
<1>5. ASSUME ~klost'
      PROVE  ~kwrong' /\ \E ex, le, ri \in [Nat -> BOOLEAN], ow \in [Nat -> Nat] :
                            Runs(ex, le, ri, ow)'
  <2>1. ~klost /\ ~kwrong
    BY <1>1, <1>5 DEF KeyInv
  <2>2. PICK ex, le, ri \in [Nat -> BOOLEAN], ow \in [Nat -> Nat] : Runs(ex, le, ri, ow)
    BY <2>1 DEF KeyInv
  <2>3a. PICK fx \in [Nat -> BOOLEAN] : \A i \in Nat : fx[i] = ex[i + 1]
    BY Shifted
  <2>3b. PICK lf \in [Nat -> BOOLEAN] : \A i \in Nat : lf[i] = le[i + 1]
    BY Shifted
  <2>3c. PICK rf \in [Nat -> BOOLEAN] : \A i \in Nat : rf[i] = ri[i + 1]
    BY Shifted
  <2>3d. PICK of \in [Nat -> Nat] : \A i \in Nat : of[i] = ow[i + 1]
    BY Shifted
  <2>3. \A i \in Nat : /\ fx[i] = ex[i + 1] /\ lf[i] = le[i + 1]
                       /\ rf[i] = ri[i + 1] /\ of[i] = ow[i + 1]
    BY <2>3a, <2>3b, <2>3c, <2>3d
  <2>4. /\ InFlight' = InFlight - 1 /\ InFlight \in Nat /\ InFlight > 0
        /\ Len(ktodo) \in Nat
    <3>1. Len(ktodo) \in Nat /\ ktodo' = ktodo
      BY <1>1 DEF KeyInv, KeyTypes
    <3>2. /\ Len(kring') = Len(kring) - 1 /\ Len(kring) \in Nat /\ Len(kring) > 0
          /\ Len(ktodo') = Len(ktodo)
      BY <3>1, <1>2
    <3>3. InFlight = Len(kring) + Len(ktodo) /\ InFlight' = Len(kring') + Len(ktodo')
      BY DEF InFlight
    <3>4. InFlight' = InFlight - 1
      BY <3>1, <3>2, <3>3
    <3>5. InFlight \in Nat /\ InFlight > 0
      <4>1. \A m, n \in Nat : m > 0 => m + n \in Nat /\ m + n > 0
        OBVIOUS
      <4> QED
        BY <4>1, <3>1, <3>2, <3>3
    <3> QED
      BY <3>1, <3>4, <3>5
  <2>5. \A i \in 1 .. InFlight' : Flight(i)' = Flight(i + 1)
    <3> TAKE i \in 1 .. InFlight'
    <3>1. CASE i <= Len(kring')
      BY <3>1, <1>2 DEF Flight
    <3>2. CASE i > Len(kring')
      <4>1. i - Len(kring') = (i + 1) - Len(kring) /\ i + 1 > Len(kring)
        BY <3>2, <1>2
      <4> QED
        BY <3>2, <4>1, <1>1, <1>2 DEF Flight
    <3>3. i <= Len(kring') \/ i > Len(kring')
      <4>1. \A m, n \in Int : m <= n \/ m > n
        OBVIOUS
      <4> QED
        BY <4>1, <1>2, <2>4
    <3> QED
      BY <3>1, <3>2, <3>3
  <2>6. Flight(1) = sc
    BY <1>2 DEF Flight
  <2>7. Decodes(kdue, sc, ex, le, ri, ow, 0)
    <3>1. 0 \in 0 .. InFlight - 1
      BY <2>4
    <3>2. Decodes(kdue, Flight(0 + 1), ex, le, ri, ow, 0)
      BY <3>1, <2>2 DEF Runs
    <3> QED
      BY <3>2, <2>6
  <2>8. /\ (ex[0] <=> kext) /\ (le[0] <=> lshift) /\ (ri[0] <=> rshift)
        /\ ow[0] = Len(kdue) /\ Len(kdue) \in Nat
    BY <2>2 DEF Runs, KeyInv, KeyTypes
  <2>9. fx[0] <=> kext'
    <3>1. ex[1] <=> sc[1] = "e0"
      BY <2>7 DEF Decodes
    <3>2. fx[0] = ex[1]
      BY <2>3
    <3> QED
      BY <3>1, <3>2, <1>1, Zenon
  <2>10. lf[0] <=> lshift'
    <3>1. le[1] <=> IF ~ex[0] /\ sc[1] = "lshift" THEN sc[2] ELSE le[0]
      BY <2>7 DEF Decodes
    <3>2. lf[0] = le[1]
      BY <2>3
    <3> QED
      BY <3>1, <3>2, <2>8, <1>1, Zenon
  <2>11. rf[0] <=> rshift'
    <3>1. ri[1] <=> IF ~ex[0] /\ sc[1] = "rshift" THEN sc[2] ELSE ri[0]
      BY <2>7 DEF Decodes
    <3>2. rf[0] = ri[1]
      BY <2>3
    <3> QED
      BY <3>1, <3>2, <2>8, <1>1, Zenon
  \* The character owed.
  <2>12. /\ ~kwrong' /\ of[0] = Len(kdue')
         /\ \A j \in Nat : j > 0 /\ j <= of[0] =>
              kdue'[Len(kdue') - j + 1] = kdue[Len(kdue) - j + 1]
    <3>1. Yields(sc, ex[0]) <=> yields
      BY <2>8 DEF Yields, yields
    <3>2. of[0] = ow[1]
      BY <2>3
    <3>3. CASE yields
      <4>1. /\ ow[0] > 0 /\ ow[1] = ow[0] - 1
            /\ kdue[Len(kdue) - ow[0] + 1] = Char(ex[0], le[0] \/ ri[0])
        BY <3>1, <3>3, <2>7 DEF Decodes
      <4>2. Len(kdue) - ow[0] + 1 = 1
        BY <2>8
      <4>3. Char(ex[0], le[0] \/ ri[0]) = c
        BY <2>8, Zenon DEF Char, c
      <4>4. kdue # << >>
        BY <4>1, <2>8
      <4>5. /\ Head(kdue) = kdue[1] /\ Len(Tail(kdue)) = Len(kdue) - 1
            /\ \A i \in 1 .. Len(Tail(kdue)) : Tail(kdue)[i] = kdue[i + 1]
        BY <4>4, Tailed DEF KeyInv, KeyTypes
      <4>6. Head(kdue) = c
        BY <4>1, <4>2, <4>3, <4>5
      <4>7. ~kwrong' /\ kdue' = Tail(kdue)
        <5>1. Returned(c)
          BY <3>3, <1>1
        <5> QED
          BY <5>1, <4>4, <4>6, <2>1 DEF Returned
      <4>8. ASSUME NEW j \in Nat, j > 0, j <= of[0]
            PROVE  kdue'[Len(kdue') - j + 1] = kdue[Len(kdue) - j + 1]
        <5>1. Len(kdue') = Len(kdue) - 1 /\ j <= Len(kdue) - 1
          BY <4>1, <4>5, <4>7, <4>8, <3>2, <2>8
        <5>2. /\ Len(kdue') - j + 1 \in 1 .. Len(Tail(kdue))
              /\ Len(kdue') - j + 1 + 1 = Len(kdue) - j + 1
          BY <5>1, <4>5, <4>8, <2>8
        <5> QED
          BY <5>2, <4>5, <4>7
      <4> QED
        BY <4>1, <4>5, <4>7, <4>8, <3>2, <2>8
    <3>4. CASE ~yields
      <4>1. ow[1] = ow[0]
        BY <3>1, <3>4, <2>7 DEF Decodes
      <4> QED
        BY <3>2, <3>4, <4>1, <1>1, <2>1, <2>8
    <3> QED
      BY <3>3, <3>4
  <2>13. \A i \in 0 .. InFlight' - 1 : Decodes(kdue, Flight(i + 1), fx, lf, rf, of, i)'
    <3> TAKE i \in 0 .. InFlight' - 1
    <3>0. PICK sd : sd = Flight((i + 1) + 1)
      OBVIOUS
    <3>1. i \in Nat /\ i + 1 \in Nat /\ i + 1 \in 0 .. InFlight - 1 /\ i + 1 \in 1 .. InFlight'
      BY <2>4
    <3>2. Decodes(kdue, sd, ex, le, ri, ow, i + 1)
      BY <3>0, <3>1, <2>2 DEF Runs
    <3>3. Flight(i + 1)' = sd
      BY <3>0, <3>1, <2>5
    <3>4. /\ fx[i] = ex[i + 1] /\ lf[i] = le[i + 1] /\ rf[i] = ri[i + 1] /\ of[i] = ow[i + 1]
          /\ fx[i + 1] = ex[(i + 1) + 1] /\ lf[i + 1] = le[(i + 1) + 1]
          /\ rf[i + 1] = ri[(i + 1) + 1] /\ of[i + 1] = ow[(i + 1) + 1]
      BY <3>1, <2>3
    <3>5. of[i] \in Nat /\ of[i] <= of[0]
      <4>1. 1 \in 0 .. InFlight /\ i + 1 \in 0 .. InFlight /\ 1 <= i + 1
        BY <3>1, <2>4
      <4>2. ow[i + 1] <= ow[1]
        BY <4>1, <2>2 DEF Runs
      <4>3. of[0] = ow[1]
        BY <2>3
      <4> QED
        BY <3>1, <3>4, <4>2, <4>3
    <3>6. Yields(sd, ex[i + 1]) => kdue'[Len(kdue') - of[i] + 1] = Char(fx[i], lf[i] \/ rf[i])
      <4> SUFFICES ASSUME Yields(sd, ex[i + 1])
                   PROVE  kdue'[Len(kdue') - of[i] + 1] = Char(fx[i], lf[i] \/ rf[i])
        OBVIOUS
      <4>1. of[i] > 0 /\ kdue[Len(kdue) - of[i] + 1] = Char(fx[i], lf[i] \/ rf[i])
        BY <3>2, <3>4 DEF Decodes
      <4> QED
        BY <4>1, <3>5, <2>12
    <3>7. Decodes(kdue, sd, fx, lf, rf, of, i)'
      BY <3>2, <3>4, <3>6 DEF Decodes, Yields
    <3> QED
      BY <3>3, <3>7 DEF Decodes
  <2>14. \A i, j \in 0 .. InFlight' : i <= j => of[j] <= of[i]
    <3> TAKE i, j \in 0 .. InFlight'
    <3> HAVE i <= j
    <3>1. i + 1 \in 0 .. InFlight /\ j + 1 \in 0 .. InFlight /\ i + 1 <= j + 1
          /\ i \in Nat /\ j \in Nat
      BY <2>4
    <3>2. ow[j + 1] <= ow[i + 1]
      BY <3>1, <2>2 DEF Runs
    <3> QED
      BY <3>1, <3>2, <2>3
  <2>15. /\ ~fx[InFlight'] /\ (lf[InFlight'] <=> ldown') /\ (rf[InFlight'] <=> rdown')
         /\ of[InFlight'] = 0
    <3>1. InFlight' \in Nat /\ InFlight' + 1 = InFlight
      BY <2>4
    <3> QED
      BY <3>1, <2>2, <2>3, <1>1 DEF Runs
  <2>16. Runs(fx, lf, rf, of)'
    BY <2>9, <2>10, <2>11, <2>12, <2>13, <2>14, <2>15 DEF Runs
  <2> QED
    BY <2>12, <2>16
<1> QED
  BY <1>4, <1>5 DEF KeyInv

\* A key's codes q after n others, to a decoder that has seen no prefix: the
\* shifts were wasL and wasR and are now isL and isR, the d characters of the
\* key end the due ones, and are owed up to its last code.
KeyTyped(key, down, wasL, wasR, isL, isR, d, q, due, n, t, fx, lf, rf, of) ==
  /\ key \in Keys /\ down \in BOOLEAN
  /\ wasL \in BOOLEAN /\ wasR \in BOOLEAN /\ isL \in BOOLEAN /\ isR \in BOOLEAN
  /\ isL = (IF key = "lshift" THEN down ELSE wasL)
  /\ isR = (IF key = "rshift" THEN down ELSE wasR)
  /\ d = (IF down /\ key \in {"arrow", "letter"} THEN 1 ELSE 0)
  /\ \/ key # "arrow" /\ q = << << key, down >> >>
     \/ key = "arrow" /\ q = << << "e0", TRUE >>, << "arrow", down >> >>
     \/ key = "arrow" /\ down /\ q = << << "e0", TRUE >>, << "lshift", FALSE >>,
                                      << "e0", TRUE >>, << "arrow", TRUE >> >>
     \/ key = "arrow" /\ ~down /\ q = << << "e0", TRUE >>, << "arrow", FALSE >>,
                                       << "e0", TRUE >>, << "lshift", TRUE >> >>
  /\ d = 1 => due[Len(due)]
                = (IF key = "arrow" THEN "KEY_UP" ELSE IF wasL \/ wasR THEN "A" ELSE "a")
  /\ Len(due) \in Nat /\ n \in Nat /\ t = Len(q)
  /\ fx \in [Nat -> BOOLEAN] /\ lf \in [Nat -> BOOLEAN] /\ rf \in [Nat -> BOOLEAN]
  /\ of \in [Nat -> Nat]
  /\ ~fx[n] /\ (lf[n] <=> wasL) /\ (rf[n] <=> wasR) /\ of[n] = d
  /\ \A k \in 1 .. t :
       /\ fx[n + k] <=> q[k][1] = "e0"
       /\ lf[n + k] <=> isL
       /\ rf[n + k] <=> isR
       /\ of[n + k] = IF k < t THEN d ELSE 0

\* The decoder makes of them what was typed: the shift that changed, or the
\* one character the last code yields.
LEMMA KeyDecodes ==
  ASSUME NEW key, NEW down, NEW wasL, NEW wasR, NEW isL, NEW isR, NEW d, NEW q, NEW due,
         NEW n, NEW t, NEW fx, NEW lf, NEW rf, NEW of,
         KeyTyped(key, down, wasL, wasR, isL, isR, d, q, due, n, t, fx, lf, rf, of)
  PROVE  /\ t \in Nat /\ t > 0 /\ q[t][1] # "e0"
         /\ \A k \in 1 .. t : Decodes(due, q[k], fx, lf, rf, of, n + (k - 1))
<1> SUFFICES ASSUME key \in Keys, down \in BOOLEAN,
             wasL \in BOOLEAN, wasR \in BOOLEAN, isL \in BOOLEAN, isR \in BOOLEAN,
             isL = (IF key = "lshift" THEN down ELSE wasL),
             isR = (IF key = "rshift" THEN down ELSE wasR),
             d = (IF down /\ key \in {"arrow", "letter"} THEN 1 ELSE 0),
             \/ key # "arrow" /\ q = << << key, down >> >>
             \/ key = "arrow" /\ q = << << "e0", TRUE >>, << "arrow", down >> >>
             \/ key = "arrow" /\ down /\ q = << << "e0", TRUE >>, << "lshift", FALSE >>,
                                              << "e0", TRUE >>, << "arrow", TRUE >> >>
             \/ key = "arrow" /\ ~down /\ q = << << "e0", TRUE >>, << "arrow", FALSE >>,
                                               << "e0", TRUE >>, << "lshift", TRUE >> >>,
             d = 1 => due[Len(due)]
                        = (IF key = "arrow" THEN "KEY_UP" ELSE IF wasL \/ wasR THEN "A" ELSE "a"),
             Len(due) \in Nat,
             n \in Nat, t = Len(q),
             fx \in [Nat -> BOOLEAN], lf \in [Nat -> BOOLEAN], rf \in [Nat -> BOOLEAN],
             of \in [Nat -> Nat],
             ~fx[n], lf[n] <=> wasL, rf[n] <=> wasR, of[n] = d,
             \A k \in 1 .. t : /\ fx[n + k] <=> q[k][1] = "e0"
                               /\ lf[n + k] <=> isL
                               /\ rf[n + k] <=> isR
                               /\ of[n + k] = IF k < t THEN d ELSE 0
      PROVE  t \in Nat /\ t > 0 /\ q[t][1] # "e0"
             /\ \A k \in 1 .. t : Decodes(due, q[k], fx, lf, rf, of, n + (k - 1))
  BY DEF KeyTyped
<1>1. d = 1 => due[Len(due) - d + 1]
                 = (IF key = "arrow" THEN "KEY_UP" ELSE IF wasL \/ wasR THEN "A" ELSE "a")
  OBVIOUS
<1>2. d \in {0, 1} /\ (d = 1 <=> down /\ key \in {"arrow", "letter"})
  OBVIOUS
<1>3. CASE key # "arrow"
  <2>1. q = << << key, down >> >> /\ t = 1 /\ q[1][1] = key /\ q[1][2] = down
    <3>1. \A x : Len(<< x >>) = 1 /\ << x >>[1] = x
      OBVIOUS
    <3>2. q = << << key, down >> >>
      BY <1>3
    <3>3. t = 1 /\ q[1] = << key, down >>
      BY <3>1, <3>2
    <3> QED
      BY <3>2, <3>3
  <2>2. /\ (fx[n + 1] <=> key = "e0") /\ (lf[n + 1] <=> isL) /\ (rf[n + 1] <=> isR)
        /\ of[n + 1] = 0
    <3>1. 1 \in 1 .. t /\ of[n + 1] = 0
      BY <2>1
    <3> QED
      BY <2>1, <3>1, Zenon
  <2>3. Yields(q[1], fx[n]) <=> d = 1
    BY <2>1, <1>2, <1>3 DEF Yields, Keys
  <2>4. lf[n + 1] <=> IF ~fx[n] /\ q[1][1] = "lshift" THEN q[1][2] ELSE lf[n]
    BY <2>1, <2>2
  <2>5. rf[n + 1] <=> IF ~fx[n] /\ q[1][1] = "rshift" THEN q[1][2] ELSE rf[n]
    BY <2>1, <2>2
  <2>6. d = 1 => due[Len(due) - of[n] + 1] = Char(fx[n], lf[n] \/ rf[n])
    BY <1>1, <1>3 DEF Char
  <2>7. Decodes(due, q[1], fx, lf, rf, of, n)
    <3>1. d = 1 => of[n] > 0 /\ of[n + 1] = of[n] - 1
      BY <2>2
    <3>2. ~(d = 1) => of[n + 1] = of[n]
      BY <2>2, <1>2
    <3>3. fx[n + 1] <=> q[1][1] = "e0"
      BY <2>1, <2>2
    <3> QED
      BY <2>3, <2>4, <2>5, <2>6, <3>1, <3>2, <3>3 DEF Decodes
  <2>8. n + (1 - 1) = n /\ q[t][1] # "e0"
    <3>1. n + (1 - 1) = n
      OBVIOUS
    <3>2. q[t][1] = key
      BY <2>1
    <3>3. key # "e0"
      BY DEF Keys
    <3> QED
      BY <3>1, <3>2, <3>3
  <2>9. \A k \in 1 .. t : k = 1
    BY <2>1
  <2>10. t \in Nat /\ t > 0
    BY <2>1
  <2>11. ASSUME NEW k \in 1 .. t PROVE Decodes(due, q[k], fx, lf, rf, of, n + (k - 1))
    <3>1. n + (k - 1) = n /\ q[k] = q[1]
      BY <2>9
    <3> QED
      BY <3>1, <2>7, Zenon
  <2> QED
    BY <2>8, <2>10, <2>11, Zenon
<1>4. CASE key = "arrow"
  <2>1. /\ isL = wasL /\ isR = wasR /\ (d = 1 <=> down)
        /\ d = 1 => due[Len(due) - d + 1] = "KEY_UP"
    BY <1>1, <1>2, <1>4
  <2>0. \A k \in 1 .. t : /\ fx[n + k] <=> q[k][1] = "e0"
                          /\ lf[n + k] <=> isL
                          /\ rf[n + k] <=> isR
    BY Zenon
  \* A prefix, with and without a prefixed code after it.
  <2>2. ASSUME NEW i \in Nat, NEW sc, ~fx[i], lf[i] <=> wasL, rf[i] <=> wasR, of[i] = d,
               sc[1] = "e0",
               fx[i + 1], lf[i + 1] <=> wasL, rf[i + 1] <=> wasR, of[i + 1] = d
        PROVE  Decodes(due, sc, fx, lf, rf, of, i)
    <3>1. ~Yields(sc, fx[i])
      BY <2>2 DEF Yields
    <3> QED
      BY <2>2, <3>1 DEF Decodes
  <2>3. ASSUME NEW i \in Nat, NEW sc, fx[i], lf[i] <=> wasL, rf[i] <=> wasR, of[i] = d,
               sc[1] # "e0", ~(sc[2] /\ sc[1] = "arrow"),
               ~fx[i + 1], lf[i + 1] <=> wasL, rf[i + 1] <=> wasR, of[i + 1] = d
        PROVE  Decodes(due, sc, fx, lf, rf, of, i)
    <3>1. ~Yields(sc, fx[i])
      BY <2>3 DEF Yields
    <3> QED
      BY <2>3, <3>1 DEF Decodes
  <2>4. ASSUME NEW i \in Nat, NEW sc, fx[i], lf[i] <=> wasL, rf[i] <=> wasR, of[i] = d,
               sc[1] = "arrow", sc[2] <=> d = 1,
               ~fx[i + 1], lf[i + 1] <=> wasL, rf[i + 1] <=> wasR, of[i + 1] = 0
        PROVE  Decodes(due, sc, fx, lf, rf, of, i)
    <3>1. Yields(sc, fx[i]) <=> d = 1
      BY <2>4 DEF Yields
    <3>2. d = 1 => due[Len(due) - of[i] + 1] = Char(fx[i], lf[i] \/ rf[i])
      BY <2>1, <2>4 DEF Char
    <3>3. /\ (fx[i + 1] <=> sc[1] = "e0")
          /\ (lf[i + 1] <=> IF ~fx[i] /\ sc[1] = "lshift" THEN sc[2] ELSE lf[i])
          /\ (rf[i + 1] <=> IF ~fx[i] /\ sc[1] = "rshift" THEN sc[2] ELSE rf[i])
      BY <2>4
    <3>4. d = 1 => of[i] > 0 /\ of[i + 1] = of[i] - 1
      BY <2>4
    <3>5. ~(d = 1) => of[i + 1] = of[i]
      BY <2>4, <1>2
    <3> QED
      BY <3>1, <3>2, <3>3, <3>4, <3>5 DEF Decodes
  <2>5. CASE q = << << "e0", TRUE >>, << "arrow", down >> >>
    <3>1. /\ t = 2 /\ q[1][1] = "e0" /\ q[2][1] = "arrow" /\ q[2][2] = down
          /\ 1 \in 1 .. t /\ 2 \in 1 .. t
      BY <2>5
    <3>2. /\ fx[n + 1] /\ (lf[n + 1] <=> wasL) /\ (rf[n + 1] <=> wasR) /\ of[n + 1] = d
          /\ ~fx[n + 2] /\ (lf[n + 2] <=> wasL) /\ (rf[n + 2] <=> wasR) /\ of[n + 2] = 0
      <4>1. of[n + 1] = d /\ of[n + 2] = 0
        BY <3>1
      <4> QED
        BY <2>0, <2>1, <3>1, <4>1, Zenon
    <3>3. Decodes(due, q[1], fx, lf, rf, of, n)
      BY <2>2, <3>1, <3>2
    <3>4. Decodes(due, q[2], fx, lf, rf, of, n + 1)
      <4>1. (n + 1) + 1 = n + 2 /\ n + 1 \in Nat
        OBVIOUS
      <4> QED
        BY <2>1, <2>4, <3>1, <3>2, <4>1
    <3>5. \A k \in 1 .. t : (k = 1 /\ n + (k - 1) = n) \/ (k = 2 /\ n + (k - 1) = n + 1)
      BY <3>1
    <3> QED
      BY <3>1, <3>3, <3>4, <3>5
  <2>6. ASSUME NEW a \in Keys, NEW b \in Keys, NEW u \in BOOLEAN, NEW w \in BOOLEAN,
               q = << << "e0", TRUE >>, << a, u >>, << "e0", TRUE >>, << b, w >> >>,
               ~(u /\ a = "arrow"),
               \/ b = "arrow" /\ (w <=> d = 1)
               \/ b = "lshift" /\ d = 0
        PROVE  t \in Nat /\ t > 0 /\ q[t][1] # "e0"
               /\ \A k \in 1 .. t : Decodes(due, q[k], fx, lf, rf, of, n + (k - 1))
    <3>1. /\ t = 4 /\ q[1][1] = "e0" /\ q[2][1] = a /\ q[2][2] = u
          /\ q[3][1] = "e0" /\ q[4][1] = b /\ q[4][2] = w
          /\ 1 \in 1 .. t /\ 2 \in 1 .. t /\ 3 \in 1 .. t /\ 4 \in 1 .. t
          /\ a # "e0" /\ b # "e0"
      <4>1. \A x, y, z, w1 : LET s == << x, y, z, w1 >> IN
              /\ Len(s) = 4 /\ s[1] = x /\ s[2] = y /\ s[3] = z /\ s[4] = w1
        OBVIOUS
      <4>2. \A x, y : << x, y >>[1] = x /\ << x, y >>[2] = y
        OBVIOUS
      <4>3. /\ Len(q) = 4 /\ q[1] = << "e0", TRUE >> /\ q[2] = << a, u >>
            /\ q[3] = << "e0", TRUE >> /\ q[4] = << b, w >>
        BY <2>6, <4>1
      <4>4. t = 4 /\ 1 \in 1 .. t /\ 2 \in 1 .. t /\ 3 \in 1 .. t /\ 4 \in 1 .. t
        BY <4>3
      <4>5. a # "e0" /\ b # "e0"
        BY DEF Keys
      <4> QED
        <5>1. q[1][1] = "e0" /\ q[2][1] = a /\ q[2][2] = u
          BY <4>2, <4>3
        <5>2. q[3][1] = "e0" /\ q[4][1] = b /\ q[4][2] = w
          BY <4>2, <4>3
        <5> QED
          BY <5>1, <5>2, <4>4, <4>5
    <3>2. /\ fx[n + 1] /\ (lf[n + 1] <=> wasL) /\ (rf[n + 1] <=> wasR) /\ of[n + 1] = d
          /\ ~fx[n + 2] /\ (lf[n + 2] <=> wasL) /\ (rf[n + 2] <=> wasR) /\ of[n + 2] = d
          /\ fx[n + 3] /\ (lf[n + 3] <=> wasL) /\ (rf[n + 3] <=> wasR) /\ of[n + 3] = d
          /\ ~fx[n + 4] /\ (lf[n + 4] <=> wasL) /\ (rf[n + 4] <=> wasR) /\ of[n + 4] = 0
      <4>1. of[n + 1] = d /\ of[n + 2] = d /\ of[n + 3] = d /\ of[n + 4] = 0
        BY <3>1
      <4> QED
        BY <2>0, <2>1, <3>1, <4>1, Zenon
    <3>3. /\ (n + 1) + 1 = n + 2 /\ n + 1 \in Nat
          /\ (n + 2) + 1 = n + 3 /\ n + 2 \in Nat
          /\ (n + 3) + 1 = n + 4 /\ n + 3 \in Nat
      OBVIOUS
    <3>4. Decodes(due, q[1], fx, lf, rf, of, n)
      BY <2>2, <3>1, <3>2
    <3>5. Decodes(due, q[2], fx, lf, rf, of, n + 1)
      BY <2>3, <2>6, <3>1, <3>2, <3>3, ZenonT(40)
    <3>6. Decodes(due, q[3], fx, lf, rf, of, n + 2)
      BY <2>2, <3>1, <3>2, <3>3
    <3>7. Decodes(due, q[4], fx, lf, rf, of, n + 3)
      <4>1. CASE b = "arrow" /\ (w <=> d = 1)
        BY <2>4, <3>1, <3>2, <3>3, <4>1, ZenonT(40)
      <4>2. CASE b = "lshift" /\ d = 0
        BY <2>3, <3>1, <3>2, <3>3, <4>2
      <4> QED
        BY <4>1, <4>2, <2>6
    <3>8. \A k \in 1 .. t : \/ k = 1 /\ n + (k - 1) = n
                            \/ k = 2 /\ n + (k - 1) = n + 1
                            \/ k = 3 /\ n + (k - 1) = n + 2
                            \/ k = 4 /\ n + (k - 1) = n + 3
      BY <3>1
    <3> QED
      BY <3>1, <3>4, <3>5, <3>6, <3>7, <3>8
  <2>7. "lshift" \in Keys /\ "arrow" \in Keys
    BY DEF Keys
  <2>8. CASE down /\ q = << << "e0", TRUE >>, << "lshift", FALSE >>,
                           << "e0", TRUE >>, << "arrow", TRUE >> >>
    BY <2>1, <2>6, <2>7, <2>8
  <2>9. CASE ~down /\ q = << << "e0", TRUE >>, << "arrow", FALSE >>,
                            << "e0", TRUE >>, << "lshift", TRUE >> >>
    <3>1. d = 0
      BY <2>1, <2>9, <1>2
    <3> QED
      BY <3>1, <2>6, <2>7, <2>9
  <2> QED
    BY <2>5, <2>8, <2>9, <1>4
<1> QED
  BY <1>3, <1>4

\* A key is pressed or released.
LEMMA EventExtends ==
  ASSUME KeyInv, NEW key \in Keys, NEW down \in BOOLEAN, KeyEvent(key, down)
  PROVE  KeyInv'
<1>a. PICK q : q = Codes(key, down)
  OBVIOUS
<1>b. PICK d : d = IF down /\ key \in {"arrow", "letter"} THEN 1 ELSE 0
  OBVIOUS
<1>c. PICK c : c = IF key = "arrow" THEN "KEY_UP" ELSE IF ldown \/ rdown THEN "A" ELSE "a"
  OBVIOUS
<1>1. /\ ktodo = << >> /\ ktodo' = q
      /\ ldown' = IF key = "lshift" THEN down ELSE ldown
      /\ rdown' = IF key = "rshift" THEN down ELSE rdown
      /\ UNCHANGED << kring, kext, lshift, rshift, kwrong, klost >>
  BY <1>a DEF KeyEvent
<1>2. /\ d = 1 => kdue' = Append(kdue, c)
      /\ d = 0 => kdue' = kdue
      /\ d \in {0, 1}
  <2>1. kdue' = CASE down /\ key = "arrow" -> Append(kdue, "KEY_UP")
                  [] down /\ key = "letter" -> Append(kdue, IF ldown \/ rdown THEN "A" ELSE "a")
                  [] OTHER -> kdue
    BY DEF KeyEvent
  <2>2. CASE ~down
    <3>1. d = 0
      BY <2>2, <1>b
    <3>2. kdue' = kdue
      BY <2>1, <2>2
    <3> QED
      BY <3>1, <3>2
  <2>3. CASE down /\ key = "arrow"
    BY <2>1, <2>3, <1>b, <1>c
  <2>4. CASE down /\ key = "letter"
    BY <2>1, <2>4, <1>b, <1>c
  <2>5. CASE down /\ key \in {"lshift", "rshift"}
    BY <2>1, <2>5, <1>b
  <2> QED
    BY <2>2, <2>3, <2>4, <2>5 DEF Keys
<1>0. q \in Seq(Scancode) /\ Len(q) \in 1 .. 4
  BY <1>a, CodesOfKey DEF KeyInv
<1>3. /\ key # "arrow" => q = << << key, down >> >>
      /\ key = "arrow" =>
           \/ ~ldown /\ q = << << "e0", TRUE >>, << "arrow", down >> >>
           \/ ldown /\ down /\ q = << << "e0", TRUE >>, << "lshift", FALSE >>,
                                      << "e0", TRUE >>, << "arrow", TRUE >> >>
           \/ ldown /\ ~down /\ q = << << "e0", TRUE >>, << "arrow", FALSE >>,
                                       << "e0", TRUE >>, << "lshift", TRUE >> >>
  BY <1>a, CodesOfKey DEF KeyInv
<1>4. /\ Len(kdue') = Len(kdue) + d /\ Len(kdue) \in Nat
      /\ kdue' \in Seq({"KEY_UP", "A", "a"})
      /\ \A i \in 1 .. Len(kdue) : kdue'[i] = kdue[i]
      /\ d = 1 => kdue'[Len(kdue) + 1] = c
  <2>1. kdue \in Seq({"KEY_UP", "A", "a"}) /\ c \in {"KEY_UP", "A", "a"}
    BY <1>c DEF KeyInv, KeyTypes
  <2>2. CASE d = 1
    BY <2>1, <2>2, <1>2, Appended
  <2>3. CASE d = 0
    BY <2>1, <2>3, <1>2
  <2> QED
    BY <2>2, <2>3, <1>2
<1>5. KeyTypes'
  <2>1. ldown' \in BOOLEAN /\ rdown' \in BOOLEAN
    BY <1>1 DEF KeyInv, KeyTypes
  <2> QED
    BY <1>1, <1>0, <1>4, <2>1 DEF KeyInv, KeyTypes
<1>6. ASSUME ~klost'
      PROVE  ~kwrong' /\ \E ex, le, ri \in [Nat -> BOOLEAN], ow \in [Nat -> Nat] :
                            Runs(ex, le, ri, ow)'
  <2>1. ~klost /\ ~kwrong'
    BY <1>1, <1>6 DEF KeyInv
  <2>2. PICK ex, le, ri \in [Nat -> BOOLEAN], ow \in [Nat -> Nat] : Runs(ex, le, ri, ow)
    BY <2>1 DEF KeyInv
  <2>3. PICK n \in Nat : n = InFlight /\ n = Len(kring)
    <3>1. Len(kring) \in Nat /\ Len(ktodo) = 0
      BY <1>1 DEF KeyInv, KeyTypes
    <3>2. InFlight = Len(kring) /\ InFlight \in Nat
      BY <3>1 DEF InFlight
    <3> QED
      BY <3>2
  <2>4. PICK t \in Nat : t = Len(q) /\ t > 0 /\ t <= 4
    <3>1. Len(q) \in Nat /\ Len(q) > 0 /\ Len(q) <= 4
      <4>1. Len(q) \in 1 .. 4
        BY <1>0
      <4>2. \A l \in 1 .. 4 : l \in Nat /\ l > 0 /\ l <= 4
        OBVIOUS
      <4> QED
        BY <4>1, <4>2
    <3> QED
      BY <3>1
  <2>5. InFlight' = n + t /\ t \in Nat
    <3>1. Len(kring') = n /\ Len(ktodo') = t
      BY <1>1, <2>3, <2>4
    <3> QED
      BY <3>1, <2>4 DEF InFlight
  <2>6. PICK fx \in [Nat -> BOOLEAN] :
          /\ \A j \in Nat : j <= n => fx[j] = ex[j]
          /\ \A k \in 1 .. t : fx[n + k] = (q[k][1] = "e0")
    <3> DEFINE h == [j \in Nat |-> IF j <= n THEN ex[j] ELSE (q[j - n][1] = "e0")]
    <3>1. h \in [Nat -> BOOLEAN]
      OBVIOUS
    <3>2. \A j \in Nat : j <= n => h[j] = ex[j]
      OBVIOUS
    <3>3. ASSUME NEW k \in 1 .. t PROVE h[n + k] = (q[k][1] = "e0")
      <4>1. n + k \in Nat /\ ~(n + k <= n) /\ (n + k) - n = k /\ (n + k < n + t <=> k < t)
        BY <2>5
      <4> QED
        BY <4>1
    <3> HIDE DEF h
    <3> QED
      BY <3>1, <3>2, <3>3
  <2>7. PICK lf \in [Nat -> BOOLEAN] :
          /\ \A j \in Nat : j <= n => lf[j] = le[j]
          /\ \A k \in 1 .. t : lf[n + k] = ldown'
    <3>0. PICK v \in BOOLEAN : v = ldown'
      BY <1>5 DEF KeyTypes
    <3> DEFINE h == [j \in Nat |-> IF j <= n THEN le[j] ELSE v]
    <3>1. h \in [Nat -> BOOLEAN]
      OBVIOUS
    <3>2. \A j \in Nat : j <= n => h[j] = le[j]
      OBVIOUS
    <3>3. ASSUME NEW k \in 1 .. t PROVE h[n + k] = v
      <4>1. n + k \in Nat /\ ~(n + k <= n) /\ (n + k) - n = k /\ (n + k < n + t <=> k < t)
        BY <2>5
      <4> QED
        BY <4>1
    <3> HIDE DEF h
    <3> QED
      BY <3>0, <3>1, <3>2, <3>3
  <2>8. PICK rf \in [Nat -> BOOLEAN] :
          /\ \A j \in Nat : j <= n => rf[j] = ri[j]
          /\ \A k \in 1 .. t : rf[n + k] = rdown'
    <3>0. PICK v \in BOOLEAN : v = rdown'
      BY <1>5 DEF KeyTypes
    <3> DEFINE h == [j \in Nat |-> IF j <= n THEN ri[j] ELSE v]
    <3>1. h \in [Nat -> BOOLEAN]
      OBVIOUS
    <3>2. \A j \in Nat : j <= n => h[j] = ri[j]
      OBVIOUS
    <3>3. ASSUME NEW k \in 1 .. t PROVE h[n + k] = v
      <4>1. n + k \in Nat /\ ~(n + k <= n) /\ (n + k) - n = k /\ (n + k < n + t <=> k < t)
        BY <2>5
      <4> QED
        BY <4>1
    <3> HIDE DEF h
    <3> QED
      BY <3>0, <3>1, <3>2, <3>3
  <2>9. PICK of \in [Nat -> Nat] :
          /\ \A j \in Nat : j <= n => of[j] = ow[j] + d
          /\ \A k \in 1 .. t : of[n + k] = (IF k < t THEN d ELSE 0)
    <3> DEFINE h == [j \in Nat |-> IF j <= n THEN ow[j] + d ELSE IF j < n + t THEN d ELSE 0]
    <3>0. d \in Nat
      BY <1>2
    <3>1. h \in [Nat -> Nat]
      BY <3>0
    <3>2. \A j \in Nat : j <= n => h[j] = ow[j] + d
      OBVIOUS
    <3>3. ASSUME NEW k \in 1 .. t PROVE h[n + k] = (IF k < t THEN d ELSE 0)
      <4>1. n + k \in Nat /\ ~(n + k <= n) /\ (n + k) - n = k /\ (n + k < n + t <=> k < t)
        BY <2>5
      <4> QED
        BY <4>1
    <3> HIDE DEF h
    <3> QED
      BY <3>1, <3>2, <3>3
  <2>10. /\ ~fx[n] /\ (lf[n] <=> ldown) /\ (rf[n] <=> rdown) /\ of[n] = d
         /\ (fx[0] <=> kext') /\ (lf[0] <=> lshift') /\ (rf[0] <=> rshift')
         /\ of[0] = Len(kdue')
    <3>1. /\ ~ex[n] /\ (le[n] <=> ldown) /\ (ri[n] <=> rdown) /\ ow[n] = 0
          /\ (ex[0] <=> kext) /\ (le[0] <=> lshift) /\ (ri[0] <=> rshift)
          /\ ow[0] = Len(kdue)
      BY <2>2, <2>3 DEF Runs
    <3>2. /\ fx[n] = ex[n] /\ lf[n] = le[n] /\ rf[n] = ri[n]
          /\ fx[0] = ex[0] /\ lf[0] = le[0] /\ rf[0] = ri[0]
      <4>1. n \in Nat /\ n <= n /\ 0 \in Nat /\ 0 <= n
        OBVIOUS
      <4> QED
        BY <4>1, <2>6, <2>7, <2>8
    <3>3. of[n] = d /\ of[0] = Len(kdue')
      <4>1. of[n] = ow[n] + d /\ of[0] = ow[0] + d
        BY <2>9
      <4>2. d \in Nat /\ Len(kdue) \in Nat /\ Len(kdue') = Len(kdue) + d
        BY <1>2, <1>4
      <4> QED
        BY <3>1, <4>1, <4>2
    <3> QED
      BY <3>1, <3>2, <3>3, <1>1
  \* The codes that were in flight.
  <2>11. ASSUME NEW i \in 0 .. n - 1, NEW sc, sc = Flight(i + 1)
         PROVE  Decodes(kdue', sc, fx, lf, rf, of, i)
    <3>1. Decodes(kdue, sc, ex, le, ri, ow, i)
      BY <2>2, <2>3, <2>11 DEF Runs
    <3>2. i \in Nat /\ i + 1 \in Nat /\ i <= n /\ i + 1 <= n
      BY <2>3
    <3>3. /\ fx[i] = ex[i] /\ lf[i] = le[i] /\ rf[i] = ri[i] /\ of[i] = ow[i] + d
          /\ fx[i + 1] = ex[i + 1] /\ lf[i + 1] = le[i + 1] /\ rf[i + 1] = ri[i + 1]
          /\ of[i + 1] = ow[i + 1] + d
      BY <3>2, <2>6, <2>7, <2>8, <2>9
    <3>4. ow[i] \in Nat /\ ow[i + 1] \in Nat /\ ow[i] <= Len(kdue)
      <4>1. 0 \in 0 .. InFlight /\ i \in 0 .. InFlight /\ 0 <= i
        BY <2>3, <3>2
      <4>2. ow[i] <= ow[0] /\ ow[0] = Len(kdue)
        BY <4>1, <2>2 DEF Runs
      <4> QED
        BY <4>2, <3>2
    <3>5. Yields(sc, ex[i]) =>
            /\ of[i] > 0 /\ of[i + 1] = of[i] - 1
            /\ kdue'[Len(kdue') - of[i] + 1] = Char(fx[i], lf[i] \/ rf[i])
      <4> SUFFICES ASSUME Yields(sc, ex[i])
                   PROVE  /\ of[i] > 0 /\ of[i + 1] = of[i] - 1
                          /\ kdue'[Len(kdue') - of[i] + 1] = Char(fx[i], lf[i] \/ rf[i])
        OBVIOUS
      <4>1. /\ ow[i] > 0 /\ ow[i + 1] = ow[i] - 1
            /\ kdue[Len(kdue) - ow[i] + 1] = Char(fx[i], lf[i] \/ rf[i])
        BY <3>1, <3>3 DEF Decodes
      <4>2. /\ Len(kdue') - of[i] + 1 = Len(kdue) - ow[i] + 1
            /\ Len(kdue) - ow[i] + 1 \in 1 .. Len(kdue)
        <5>1. \A l, o, e \in Nat : o > 0 /\ o <= l => /\ (l + e) - (o + e) + 1 = l - o + 1
                                                     /\ l - o + 1 \in 1 .. l
          OBVIOUS
        <5>2. Len(kdue) \in Nat /\ Len(kdue') = Len(kdue) + d /\ d \in Nat
          BY <1>2, <1>4
        <5> QED
          <6>1. of[i] = ow[i] + d /\ ow[i] \in Nat /\ ow[i] > 0 /\ ow[i] <= Len(kdue)
            BY <4>1, <3>3, <3>4
          <6>2. /\ (Len(kdue) + d) - (ow[i] + d) + 1 = Len(kdue) - ow[i] + 1
                /\ Len(kdue) - ow[i] + 1 \in 1 .. Len(kdue)
            BY <5>1, <5>2, <6>1, ZenonT(40)
          <6> QED
            BY <5>2, <6>1, <6>2, Zenon
      <4>3. of[i] > 0 /\ of[i + 1] = of[i] - 1
        <5>1. \A o, e \in Nat : o > 0 => o + e > 0 /\ (o - 1) + e = (o + e) - 1
          OBVIOUS
        <5>2. d \in Nat
          BY <1>2
        <5> QED
          BY <5>1, <5>2, <4>1, <3>3, <3>4, ZenonT(40)
      <4> QED
        BY <4>1, <4>2, <4>3, <1>4
    <3>6. ~Yields(sc, ex[i]) => of[i + 1] = of[i]
      BY <3>1, <3>3 DEF Decodes
    <3> QED
      BY <3>1, <3>3, <3>5, <3>6 DEF Decodes, Yields
  \* The codes of this key.
  <2>12. /\ q[t][1] # "e0"
         /\ \A k \in 1 .. t : Decodes(kdue', q[k], fx, lf, rf, of, n + (k - 1))
    <3>1. PICK wasL, wasR, isL, isR \in BOOLEAN :
            wasL = ldown /\ wasR = rdown /\ isL = ldown' /\ isR = rdown'
      BY <1>5 DEF KeyInv, KeyTypes
    <3>2. PICK due : due = kdue'
      OBVIOUS
    <3>3. /\ isL = (IF key = "lshift" THEN down ELSE wasL)
          /\ isR = (IF key = "rshift" THEN down ELSE wasR)
      BY <3>1, <1>1
    <3>4. d = 1 => due[Len(due)]
                     = (IF key = "arrow" THEN "KEY_UP" ELSE IF wasL \/ wasR THEN "A" ELSE "a")
      <4>1. d = 1 => due[Len(due)] = c
        BY <3>2, <1>4
      <4> QED
        BY <4>1, <3>1, <1>c
    <3>5. Len(due) \in Nat
      BY <3>2, <1>4, <1>2
    <3>6. ~fx[n] /\ (lf[n] <=> wasL) /\ (rf[n] <=> wasR) /\ of[n] = d
      BY <2>10, <3>1
    <3>7. \A k \in 1 .. t : /\ fx[n + k] <=> q[k][1] = "e0"
                            /\ lf[n + k] <=> isL
                            /\ rf[n + k] <=> isR
                            /\ of[n + k] = IF k < t THEN d ELSE 0
      BY <2>6, <2>7, <2>8, <2>9, <3>1
    <3>8. \/ key # "arrow" /\ q = << << key, down >> >>
          \/ key = "arrow" /\ q = << << "e0", TRUE >>, << "arrow", down >> >>
          \/ key = "arrow" /\ down /\ q = << << "e0", TRUE >>, << "lshift", FALSE >>,
                                           << "e0", TRUE >>, << "arrow", TRUE >> >>
          \/ key = "arrow" /\ ~down /\ q = << << "e0", TRUE >>, << "arrow", FALSE >>,
                                            << "e0", TRUE >>, << "lshift", TRUE >> >>
      BY <1>3
    <3>9. KeyTyped(key, down, wasL, wasR, isL, isR, d, q, due, n, t, fx, lf, rf, of)
      BY <3>1, <3>3, <3>4, <3>5, <3>6, <3>7, <3>8, <1>b, <2>4 DEF KeyTyped
    <3>10. /\ q[t][1] # "e0"
           /\ \A k \in 1 .. t : Decodes(due, q[k], fx, lf, rf, of, n + (k - 1))
      BY <3>9, KeyDecodes
    <3> QED
      BY <3>2, <3>10
  <2>13. \A i \in 0 .. InFlight' - 1 : Decodes(kdue, Flight(i + 1), fx, lf, rf, of, i)'
    <3> TAKE i \in 0 .. InFlight' - 1
    <3>1. PICK sc : sc = Flight(i + 1)'
      OBVIOUS
    <3>2. i \in Nat /\ (i \in 0 .. n - 1 \/ \E k \in 1 .. t : i = n + (k - 1))
      <4>1. \A m \in 0 .. (n + t) - 1 : m \in 0 .. n - 1
                                     \/ (m - n + 1 \in 1 .. t /\ m = n + ((m - n + 1) - 1))
        BY <2>5
      <4> QED
        BY <4>1, <2>5
    <3>3. CASE i \in 0 .. n - 1
      <4>1. i + 1 <= Len(kring)
        BY <3>3, <2>3
      <4>2. sc = Flight(i + 1)
        BY <4>1, <3>1, <1>1 DEF Flight
      <4>3. Decodes(kdue', sc, fx, lf, rf, of, i)
        BY <3>3, <4>2, <2>11
      <4> QED
        BY <4>3, <3>1 DEF Decodes
    <3>4. CASE \E k \in 1 .. t : i = n + (k - 1)
      <4>1. PICK k \in 1 .. t : i = n + (k - 1)
        BY <3>4
      <4>2. ~(i + 1 <= Len(kring)) /\ (i + 1) - Len(kring) = k
        BY <4>1, <2>3
      <4>3. sc = q[k]
        BY <4>2, <3>1, <1>1 DEF Flight
      <4>4. Decodes(kdue', sc, fx, lf, rf, of, i)
        BY <3>2, <4>1, <4>3, <2>12
      <4> QED
        BY <4>4, <3>1 DEF Decodes
    <3> QED
      BY <3>2, <3>3, <3>4
  <2>14. \A i, j \in 0 .. InFlight' : i <= j => of[j] <= of[i]
    <3> TAKE i, j \in 0 .. InFlight'
    <3> HAVE i <= j
    <3>1. /\ i \in Nat /\ j \in Nat
          /\ i <= n \/ \E k \in 1 .. t : i = n + k
          /\ j <= n \/ \E k \in 1 .. t : j = n + k
      <4>1. \A m \in 0 .. n + t : m <= n \/ (m - n \in 1 .. t /\ m = n + (m - n))
        BY <2>5
      <4> QED
        BY <4>1, <2>5
    <3>2. d \in Nat /\ of[i] \in Nat /\ of[j] \in Nat /\ ow[i] \in Nat /\ ow[j] \in Nat
      BY <3>1, <1>2
    <3>3. CASE j <= n
      <4>1. i <= n /\ i \in 0 .. InFlight /\ j \in 0 .. InFlight
        BY <3>1, <3>3, <2>3
      <4>2. ow[j] <= ow[i]
        BY <4>1, <2>2 DEF Runs
      <4>3. of[j] = ow[j] + d /\ of[i] = ow[i] + d
        BY <3>1, <3>3, <4>1, <2>9
      <4> QED
        BY <3>2, <4>2, <4>3
    <3>4. CASE \E k \in 1 .. t : j = n + k
      <4>1. PICK k \in 1 .. t : j = n + k
        BY <3>4
      <4>2. of[j] = IF k < t THEN d ELSE 0
        BY <4>1, <2>9
      <4>3. CASE i <= n
        <5>1. of[i] = ow[i] + d
          BY <3>1, <4>3, <2>9
        <5> QED
          BY <5>1, <4>2, <3>2
      <4>4. CASE \E l \in 1 .. t : i = n + l
        <5>1. PICK l \in 1 .. t : i = n + l
          BY <4>4
        <5>2. of[i] = IF l < t THEN d ELSE 0
          BY <5>1, <2>9
        <5>3. k < t => l < t
          BY <4>1, <5>1, <2>5
        <5> QED
          BY <5>2, <5>3, <4>2, <3>2
      <4> QED
        BY <4>3, <4>4, <3>1
    <3> QED
      BY <3>1, <3>3, <3>4
  <2>15. /\ ~fx[InFlight'] /\ (lf[InFlight'] <=> ldown') /\ (rf[InFlight'] <=> rdown')
         /\ of[InFlight'] = 0
    <3>1. t \in 1 .. t
      BY <2>4
    <3> QED
      BY <3>1, <2>12, <2>5, <2>6, <2>7, <2>8, <2>9
  <2>16. Runs(fx, lf, rf, of)'
    BY <2>10, <2>13, <2>14, <2>15 DEF Runs
  <2> QED
    BY <2>1, <2>16
<1> QED
  BY <1>5, <1>6 DEF KeyInv

\* Every state the keyboard and its decoder reach.
LEMMA KeyInvariant == KeySpec => []KeyInv
<1>1. InputInit => KeyInv
  <2> SUFFICES ASSUME InputInit PROVE KeyInv
    OBVIOUS
  <2>1. KeyTypes /\ ~kwrong /\ InFlight = 0
    <3>1. kring = << >> /\ ktodo = << >> /\ kdue = << >>
      BY DEF InputInit
    <3>2. KeyTypes
      <4>1. kring \in Seq(Scancode) /\ ktodo \in Seq(Scancode)
        BY <3>1
      <4>2. kdue \in Seq({"KEY_UP", "A", "a"})
        BY <3>1
      <4>3. /\ kext \in BOOLEAN /\ lshift \in BOOLEAN /\ rshift \in BOOLEAN
            /\ ldown \in BOOLEAN /\ rdown \in BOOLEAN
            /\ kwrong \in BOOLEAN /\ klost \in BOOLEAN
        BY DEF InputInit
      <4> QED
        BY <4>1, <4>2, <4>3 DEF KeyTypes
    <3>3. InFlight = 0
      BY <3>1 DEF InFlight
    <3> QED
      BY <3>2, <3>3 DEF InputInit
  <2>2. PICK no \in [Nat -> BOOLEAN] : \A i \in Nat : ~no[i]
    <3>1. [i \in Nat |-> FALSE] \in [Nat -> BOOLEAN]
      OBVIOUS
    <3> QED
      BY <3>1
  <2>3. PICK none \in [Nat -> Nat] : \A i \in Nat : none[i] = 0
    <3>1. [i \in Nat |-> 0] \in [Nat -> Nat]
      OBVIOUS
    <3> QED
      BY <3>1
  <2>4. Runs(no, no, no, none)
    <3>1. /\ (no[0] <=> kext) /\ (no[0] <=> lshift) /\ (no[0] <=> rshift)
          /\ none[0] = Len(kdue)
          /\ ~no[0] /\ (no[0] <=> ldown) /\ (no[0] <=> rdown)
      BY <2>2, <2>3 DEF InputInit
    <3>2. \A i, j \in 0 .. InFlight : none[j] <= none[i]
      BY <2>1, <2>3
    <3>3. \A i \in 0 .. InFlight - 1 : FALSE
      BY <2>1
    <3> QED
      BY <2>1, <2>3, <3>1, <3>2, <3>3 DEF Runs
  <2> QED
    BY <2>1, <2>2, <2>3, <2>4 DEF KeyInv
<1>2. KeyInv /\ [KbdNext]_inputVars => KeyInv'
  <2> SUFFICES ASSUME KeyInv, [KbdNext]_inputVars PROVE KeyInv'
    OBVIOUS
  <2>1. ASSUME NEW k \in KeyMoves, KeyEvent(k[1], k[2]) PROVE KeyInv'
    <3>1. k[1] \in Keys /\ k[2] \in BOOLEAN
      BY InputAssumption DEF Keys
    <3> QED
      BY <2>1, <3>1, EventExtends
  <2>2. CASE KeyIrq
    BY <2>2, IrqKeepsFlight
  <2>3. CASE TakeScancode
    BY <2>3, TakeKeepsFlight
  <2>4. CASE UNCHANGED inputVars
    <3>1. UNCHANGED kbdVars
      BY <2>4 DEF inputVars
    <3>2. KeyTypes' /\ klost' = klost /\ kwrong' = kwrong
      BY <3>1 DEF kbdVars, KeyInv, KeyTypes
    <3>3. ASSUME NEW ex, NEW le, NEW ri, NEW ow, Runs(ex, le, ri, ow)
          PROVE  Runs(ex, le, ri, ow)'
      <4>1. /\ InFlight' = InFlight /\ kdue' = kdue
            /\ \A i \in Int : Flight(i)' = Flight(i)
        BY <3>1 DEF kbdVars, InFlight, Flight
      <4>2. /\ kext' = kext /\ lshift' = lshift /\ rshift' = rshift
            /\ ldown' = ldown /\ rdown' = rdown
        BY <3>1 DEF kbdVars
      <4>3. ASSUME NEW i \in 0 .. InFlight' - 1
            PROVE  Decodes(kdue, Flight(i + 1), ex, le, ri, ow, i)'
        <5>1. i \in 0 .. InFlight - 1 /\ Flight(i + 1)' = Flight(i + 1)
          BY <4>1
        <5>2. Decodes(kdue, Flight(i + 1), ex, le, ri, ow, i)
          BY <3>3, <5>1 DEF Runs
        <5> QED
          BY <4>1, <5>1, <5>2 DEF Decodes
      <4> QED
        BY <3>3, <4>1, <4>2, <4>3 DEF Runs
    <3> QED
      BY <3>2, <3>3 DEF KeyInv
  <2> QED
    BY <2>1, <2>2, <2>3, <2>4 DEF KbdNext
<1> QED
  BY <1>1, <1>2, PTL DEF KeySpec

\* However the interrupts cut its prefixed codes in two, a keyboard that loses
\* nothing gives the frame loop what was typed, and leaves the shift flags as
\* the keys are: once nothing is in flight the history of the decoder has one
\* state, the present one.
THEOREM KeysComeThrough == KeySpec => []TypedAsPressed
<1>1. KeyInv => TypedAsPressed
  <2> SUFFICES ASSUME KeyInv, ~klost
               PROVE  /\ ~kwrong
                      /\ kring = << >> /\ ktodo = << >> => kdue = << >> /\ lshift = ldown
                                                           /\ rshift = rdown
    BY DEF TypedAsPressed
  <2>1. ~kwrong
    BY DEF KeyInv
  <2>2. ASSUME kring = << >>, ktodo = << >>
        PROVE  kdue = << >> /\ lshift = ldown /\ rshift = rdown
    <3>1. PICK ex, le, ri \in [Nat -> BOOLEAN], ow \in [Nat -> Nat] : Runs(ex, le, ri, ow)
      BY DEF KeyInv
    <3>2. InFlight = 0
      BY <2>2 DEF InFlight
    <3>3. Len(kdue) = 0
      BY <3>1, <3>2 DEF Runs
    <3>4. (lshift <=> ldown) /\ (rshift <=> rdown)
      BY <3>1, <3>2, Zenon DEF Runs
    <3>5. kdue = << >>
      BY <3>3 DEF KeyInv, KeyTypes
    <3>6. lshift = ldown /\ rshift = rdown
      BY <3>4 DEF KeyInv, KeyTypes
    <3> QED
      BY <3>5, <3>6
  <2> QED
    BY <2>1, <2>2
<1> QED
  BY <1>1, KeyInvariant, PTL

=============================================================================
