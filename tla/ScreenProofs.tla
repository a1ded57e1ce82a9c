---------------------------- MODULE ScreenProofs ----------------------------
(***************************************************************************)
(* Theorems about what v1's user sees: the lines of a console pane         *)
(* (Console), for every size of its rings and panes, a frame that repaints *)
(* its damage only (Damage), for every screen and set of windows, and the  *)
(* listing in FILES (FilesWindow), for every size of table and names.      *)
(***************************************************************************)
EXTENDS Damage, Console, FilesWindow, NaturalsInduction, SequenceTheorems,
        FiniteSetTheorems, WellFoundedInduction, TLAPS

----------------------------------------------------------------------------
(* Functions defined by recursion over the numbers.                        *)

\* What zero has and every successor inherits, every number has.
LEMMA EveryNat ==
  ASSUME NEW G, 0 \in G, \A n \in Nat : n \in G => n + 1 \in G
  PROVE  \A n \in Nat : n \in G
<1> DEFINE Bad == Nat \ G
<1> SUFFICES ASSUME Bad # {} PROVE FALSE
  OBVIOUS
<1>1. PICK m \in Bad : \A k \in Bad : ~(<< k, m >> \in OpToRel(<, Nat))
  BY WFMin, NatLessThanWellFounded
<1>2. \A k \in Nat : k < m => k \in G
  BY <1>1 DEF OpToRel
<1>3. m # 0 /\ m - 1 \in Nat /\ m - 1 < m /\ (m - 1) + 1 = m
  <2>1. m \in Nat /\ m \notin G
    OBVIOUS
  <2> HIDE DEF Bad
  <2>2. m # 0
    BY <2>1
  <2> QED  BY <2>1, <2>2
<1>4. m - 1 \in G
  BY <1>2, <1>3
<1> QED  BY <1>1, <1>3, <1>4

\* N steps within S, the first from x, and all the places they lead to.
Walk(S, N, x, step) == N \in Nat /\ x \in S /\ step \in [1 .. N -> [S -> S]]
Walked(S, N, x, step, f) ==
  f \in [0 .. N -> S] /\ f[0] = x /\ \A n \in 1 .. N : f[n] = step[n][f[n - 1]]

\* A step taken n times over from x is a function of n.
LEMMA Iterates ==
  ASSUME NEW S, NEW N, NEW x, NEW step, Walk(S, N, x, step)
  PROVE  \E f : Walked(S, N, x, step, f)
<1> SUFFICES ASSUME N \in Nat, x \in S, step \in [1 .. N -> [S -> S]]
             PROVE  \E f \in [0 .. N -> S] :
                      f[0] = x /\ \A n \in 1 .. N : f[n] = step[n][f[n - 1]]
  BY DEF Walk, Walked
<1> DEFINE Run(m, f) == f \in [0 .. m -> S] /\ f[0] = x
                        /\ \A n \in 1 .. m : f[n] = step[n][f[n - 1]]
           G == { m \in Nat : m <= N => \E f : Run(m, f) }
<1>1. 0 \in G
  <2>1. Run(0, [n \in 0 .. 0 |-> x])
    OBVIOUS
  <2> QED  BY <2>1
<1>2. \A m \in Nat : m \in G => m + 1 \in G
  <2> TAKE m \in Nat
  <2> HAVE m \in G
  <2> SUFFICES ASSUME m + 1 <= N PROVE \E f : Run(m + 1, f)
    <3> HIDE DEF Run
    <3> QED  OBVIOUS
  <2>1. PICK f : Run(m, f)
    <3>1. m <= N
      OBVIOUS
    <3> HIDE DEF Run
    <3> QED  BY <3>1
  <2> DEFINE g == [n \in 0 .. m + 1 |-> IF n = m + 1 THEN step[m + 1][f[m]] ELSE f[n]]
  <2>2. m + 1 \in 1 .. N /\ m \in 0 .. m
    OBVIOUS
  <2>3. step[m + 1] \in [S -> S] /\ f[m] \in S
    BY <2>1, <2>2
  <2>4. step[m + 1][f[m]] \in S
    BY <2>3
  <2>5. g \in [0 .. m + 1 -> S]
    <3>1. \A n \in 0 .. m + 1 : n # m + 1 => n \in 0 .. m
      OBVIOUS
    <3> QED  BY <2>1, <2>4, <3>1
  <2>6. g[0] = x
    BY <2>1
  <2>7. \A n \in 1 .. m + 1 : g[n] = step[n][g[n - 1]]
    <3> TAKE n \in 1 .. m + 1
    <3>1. CASE n = m + 1
      <4>1. g[n] = step[m + 1][f[m]]
        BY <3>1
      <4>2. n - 1 = m /\ m \in 0 .. m + 1 /\ m # m + 1
        BY <3>1
      <4>3. g[n - 1] = f[m]
        BY <4>2
      <4> QED  BY <3>1, <4>1, <4>3
    <3>2. CASE n # m + 1
      <4>1. n \in 1 .. m /\ n - 1 \in 0 .. m + 1 /\ n - 1 # m + 1 /\ n \in 0 .. m + 1
        BY <3>2
      <4>2. g[n] = f[n] /\ g[n - 1] = f[n - 1]
        BY <3>2, <4>1
      <4> QED  BY <2>1, <4>1, <4>2
    <3> QED  BY <3>1, <3>2
  <2>8. Run(m + 1, g)
    BY <2>5, <2>6, <2>7
  <2> HIDE DEF Run, g
  <2> QED  BY <2>8
<1>3. N \in G
  <2> HIDE DEF G
  <2> QED  BY <1>1, <1>2, EveryNat
<1> QED  BY <1>3

----------------------------------------------------------------------------
(* A ring that keeps the latest lines.                                     *)

\* The index k lines back from the newest, the next to be written being `next'.
Behind(next, k, max) == IF k < next THEN next - 1 - k ELSE next - 1 - k + max

\* A ring of max lines holds the latest count of all lines.
Ring(ring, next, count, max, all) ==
  /\ next \in 0 .. max - 1
  /\ count = (IF Len(all) < max THEN Len(all) ELSE max)
  /\ \A k \in 0 .. count - 1 : ring[Behind(next, k, max)] = all[Len(all) - k]

\* Both rings compute that index by arithmetic modulo their size.
LEMMA BehindIs ==
  ASSUME NEW max \in Nat \ {0}, NEW next \in 0 .. max - 1, NEW k \in 0 .. max - 1
  PROVE  /\ (next - 1 - k + 2 * max) % max = Behind(next, k, max)
         /\ (next - 1 - k + max * 2) % max = Behind(next, k, max)
         /\ Behind(next, k, max) \in 0 .. max - 1
         /\ (next + 1) % max = IF next + 1 = max THEN 0 ELSE next + 1
<1>1. \A r \in 0 .. max - 1 : (r + max) % max = r /\ (r + 2 * max) % max = r /\ r % max = r
                              /\ max % max = 0
  OBVIOUS
<1>2. Behind(next, k, max) \in 0 .. max - 1
  BY DEF Behind
<1>3. next - 1 - k + 2 * max = Behind(next, k, max) + (IF k < next THEN 2 * max ELSE max)
      /\ next - 1 - k + max * 2 = next - 1 - k + 2 * max
  BY DEF Behind
<1>4. (next - 1 - k + 2 * max) % max = Behind(next, k, max)
  BY <1>1, <1>2, <1>3
<1>5. (next + 1) % max = IF next + 1 = max THEN 0 ELSE next + 1
  BY <1>1
<1> QED  BY <1>2, <1>3, <1>4, <1>5

\* One more line: it takes the place of the oldest, and the others stay in order.
LEMMA RingAppend ==
  ASSUME NEW L, NEW max \in Nat \ {0}, NEW ring \in [0 .. max - 1 -> L], NEW next, NEW count,
         NEW all \in Seq(L), NEW line \in L, Ring(ring, next, count, max, all)
  PROVE  /\ [ring EXCEPT ![next] = line] \in [0 .. max - 1 -> L]
         /\ Ring([ring EXCEPT ![next] = line], (next + 1) % max,
                 IF count < max THEN count + 1 ELSE count, max, Append(all, line))
<1> DEFINE ring1 == [ring EXCEPT ![next] = line]
           next1 == (next + 1) % max
           count1 == IF count < max THEN count + 1 ELSE count
<1>1. next \in 0 .. max - 1 /\ Len(all) \in Nat
      /\ count = (IF Len(all) < max THEN Len(all) ELSE max)
  BY DEF Ring
<1>2. next1 = (IF next + 1 = max THEN 0 ELSE next + 1) /\ next1 \in 0 .. max - 1
  <2>1. 0 \in 0 .. max - 1
    OBVIOUS
  <2>2. (next + 1) % max = IF next + 1 = max THEN 0 ELSE next + 1
    BY <1>1, <2>1, BehindIs, Zenon
  <2>3. (IF next + 1 = max THEN 0 ELSE next + 1) \in 0 .. max - 1
    BY <1>1
  <2> QED  BY <2>2, <2>3, Zenon
<1>3. Len(Append(all, line)) = Len(all) + 1 /\ Append(all, line)[Len(all) + 1] = line
      /\ \A i \in 1 .. Len(all) : Append(all, line)[i] = all[i]
  BY <1>1
<1>4. count1 = IF Len(all) + 1 < max THEN Len(all) + 1 ELSE max
  BY <1>1
<1>5. \A k \in 0 .. count1 - 1 : ring1[Behind(next1, k, max)] = Append(all, line)[Len(all) + 1 - k]
  <2> TAKE k \in 0 .. count1 - 1
  <2>1. k \in 0 .. max - 1
    BY <1>1, <1>4
  <2>2. CASE k = 0
    <3>1. Behind(next1, k, max) = next
      BY <1>1, <1>2, <2>2 DEF Behind
    <3> QED  BY <1>1, <1>3, <2>2, <3>1
  <2>3. CASE k # 0
    <3>1. k - 1 \in 0 .. count - 1 /\ k - 1 \in 0 .. max - 1 /\ Len(all) - (k - 1) \in 1 .. Len(all)
      <4>1. PICK n \in Nat, c \in Nat, c1 \in Nat : n = Len(all) /\ c = count /\ c1 = count1
        BY <1>1, <1>4
      <4>2. /\ c = (IF n < max THEN n ELSE max) /\ c1 = (IF n + 1 < max THEN n + 1 ELSE max)
            /\ k \in 1 .. c1 - 1
        BY <1>1, <1>4, <2>3, <4>1
      <4>3. k - 1 \in 0 .. c - 1 /\ k - 1 \in 0 .. max - 1 /\ n - (k - 1) \in 1 .. n
        BY <4>2
      <4> QED  BY <4>1, <4>3
    <3>2. Behind(next1, k, max) = Behind(next, k - 1, max)
      BY <1>1, <1>2, <2>1, <2>3 DEF Behind
    <3>3. Behind(next, k - 1, max) # next /\ Behind(next, k - 1, max) \in 0 .. max - 1
      <4>1. \A h \in 0 .. max - 2, n \in 0 .. max - 1 :
              Behind(n, h, max) # n /\ Behind(n, h, max) \in 0 .. max - 1
        BY DEF Behind
      <4>2. k - 1 \in 0 .. max - 2
        BY <2>1, <2>3
      <4> QED  BY <1>1, <4>1, <4>2
    <3>4. ring1[Behind(next1, k, max)] = ring[Behind(next, k - 1, max)]
      BY <3>2, <3>3
    <3>5. ring[Behind(next, k - 1, max)] = all[Len(all) - (k - 1)]
      BY <3>1 DEF Ring
    <3>6. Len(all) + 1 - k = Len(all) - (k - 1)
      BY <1>1, <2>1
    <3> QED  BY <1>3, <3>1, <3>4, <3>5, <3>6
  <2> QED  BY <2>2, <2>3
<1>6. ring1 \in [0 .. max - 1 -> L]
  BY <1>1
<1> HIDE DEF ring1, next1, count1
<1>7. Ring(ring1, next1, count1, max, Append(all, line))
  BY <1>2, <1>3, <1>4, <1>5 DEF Ring
<1> QED  BY <1>6, <1>7 DEF ring1, next1, count1

\* The empty ring.
LEMMA RingEmpty ==
  ASSUME NEW max \in Nat \ {0}, NEW ring
  PROVE  Ring(ring, 0, 0, max, << >>)
BY DEF Ring

\* The first elements of a sequence, and one more.
LEMMA Extended ==
  ASSUME NEW L, NEW s \in Seq(L), NEW n \in Nat, n + 1 <= Len(s)
  PROVE  SubSeq(s, 1, n + 1) = Append(SubSeq(s, 1, n), s[n + 1])
OBVIOUS

\* An element behind two sequences put together is one behind the second.
Regroups(a, u, x) == Append(a \o u, x) = a \o Append(u, x)

LEMMA Regrouped ==
  ASSUME NEW L, NEW a \in Seq(L), NEW u \in Seq(L), NEW x \in L
  PROVE  Regroups(a, u, x)
BY SMTT(30) DEF Regroups

\* The first lines appended, and one more.
Grows(all, lines, n) ==
  Append(all \o SubSeq(lines, 1, n), lines[n + 1]) = all \o SubSeq(lines, 1, n + 1)

LEMMA OneMore ==
  ASSUME NEW L, NEW all \in Seq(L), NEW lines \in Seq(L), NEW n \in Nat, n + 1 <= Len(lines)
  PROVE  Grows(all, lines, n)
<1>1. SubSeq(lines, 1, n + 1) = Append(SubSeq(lines, 1, n), lines[n + 1])
  BY Extended
<1>2. SubSeq(lines, 1, n) \in Seq(L) /\ lines[n + 1] \in L
  OBVIOUS
<1>3. PICK u \in Seq(L), x \in L : u = SubSeq(lines, 1, n) /\ x = lines[n + 1]
  BY <1>2, Zenon
<1>4. Regroups(all, u, x)
  BY Regrouped, Zenon
<1> QED  BY <1>1, <1>3, <1>4, Zenon DEF Regroups, Grows

\* Line after line: the ring then holds the latest of them all.
LEMMA RingAppendAll ==
  ASSUME NEW L, NEW o \in [ring : [0 .. OutputMax - 1 -> L], next : Int, count : Int],
         NEW all \in Seq(L), NEW lines \in Seq(L), OutputMax \in Nat \ {0},
         Ring(o.ring, o.next, o.count, OutputMax, all)
  PROVE  /\ AppendAll(o, lines).ring \in [0 .. OutputMax - 1 -> L]
         /\ Ring(AppendAll(o, lines).ring, AppendAll(o, lines).next,
                 AppendAll(o, lines).count, OutputMax, all \o lines)
<1> DEFINE Outs == [ring : [0 .. OutputMax - 1 -> L], next : 0 .. OutputMax - 1, count : Int]
           Holds(u, n) == Ring(u.ring, u.next, u.count, OutputMax, all \o SubSeq(lines, 1, n))
           step == [n \in 1 .. Len(lines) |-> [u \in Outs |-> Append1(u, lines[n])]]
           IsAfter(f) == f = [n \in 0 .. Len(lines) |->
                               IF n = 0 THEN o ELSE Append1(f[n - 1], lines[n])]
<1>1. o \in Outs
  BY DEF Ring
<1>2. \A u \in Outs, line \in L : Append1(u, line) \in Outs
  <2> TAKE u \in Outs, line \in L
  <2>1. PICK r \in [0 .. OutputMax - 1 -> L], k \in 0 .. OutputMax - 1, c \in Int :
          r = u.ring /\ k = u.next /\ c = u.count
    <3> HIDE DEF step
    <3>1. u.ring \in [0 .. OutputMax - 1 -> L] /\ u.next \in 0 .. OutputMax - 1 /\ u.count \in Int
      OBVIOUS
    <3> QED  BY <3>1, Zenon
  <2>2. (k + 1) % OutputMax \in 0 .. OutputMax - 1
    <3>1. \A m \in Nat \ {0}, h \in Nat : h % m \in 0 .. m - 1
      OBVIOUS
    <3>2. k + 1 \in Nat
      OBVIOUS
    <3> QED  BY <3>1, <3>2
  <2>3. [r EXCEPT ![k] = line] \in [0 .. OutputMax - 1 -> L]
    OBVIOUS
  <2>4. (IF c < OutputMax THEN c + 1 ELSE c) \in Int
    OBVIOUS
  <2>5. Append1(u, line) = [ring |-> [r EXCEPT ![k] = line], next |-> (k + 1) % OutputMax,
                            count |-> IF c < OutputMax THEN c + 1 ELSE c]
    <3> HIDE DEF Outs, step
    <3> QED  BY <2>1 DEF Append1
  <2> HIDE DEF step
  <2> QED  BY <2>2, <2>3, <2>4, <2>5
<1>3. step \in [1 .. Len(lines) -> [Outs -> Outs]]
  <2>1. \A n \in 1 .. Len(lines) : lines[n] \in L
    OBVIOUS
  <2> HIDE DEF Outs
  <2> QED  BY <1>2, <2>1
<1>4. PICK f : Walked(Outs, Len(lines), o, step, f)
  <2>1. Len(lines) \in Nat
    OBVIOUS
  <2> HIDE DEF Outs, step
  <2>2. Walk(Outs, Len(lines), o, step)
    BY <1>1, <1>3, <2>1 DEF Walk
  <2> QED  BY <2>2, Iterates
<1>5. \A n \in 1 .. Len(lines) : f[n] = Append1(f[n - 1], lines[n])
  <2> TAKE n \in 1 .. Len(lines)
  <2>1. n - 1 \in 0 .. Len(lines)
    OBVIOUS
  <2>2. f[n - 1] \in Outs
    <3> HIDE DEF Outs, step
    <3> QED  BY <1>4, <2>1 DEF Walked
  <2>3. f[n] = step[n][f[n - 1]]
    <3> HIDE DEF Outs, step
    <3> QED  BY <1>4 DEF Walked
  <2> HIDE DEF Outs
  <2> QED  BY <2>2, <2>3
<1>6. IsAfter(f)
  <2> DEFINE g == [n \in 0 .. Len(lines) |->
                     IF n = 0 THEN o ELSE Append1(f[n - 1], lines[n])]
  <2>1. \A n \in 0 .. Len(lines) : f[n] = g[n]
    <3> TAKE n \in 0 .. Len(lines)
    <3>1. n = 0 \/ n \in 1 .. Len(lines)
      OBVIOUS
    <3> HIDE DEF Outs, step
    <3> QED  BY <1>4, <1>5, <3>1 DEF Walked
  <2>2. g = [n \in 0 .. Len(lines) |-> g[n]] /\ f = [n \in 0 .. Len(lines) |-> f[n]]
    <3> HIDE DEF Outs, step
    <3> QED  BY <1>4 DEF Walked
  <2> HIDE DEF g
  <2>3. f = g
    BY <2>1, <2>2
  <2> QED  BY <2>3 DEF g
<1>7. PICK after : IsAfter(after) /\ AppendAll(o, lines) = after[Len(lines)]
  <2> HIDE DEF Outs, step
  <2> QED  BY <1>6 DEF AppendAll
<1> DEFINE G == { n \in Nat : n <= Len(lines) => after[n] \in Outs /\ Holds(after[n], n) }
<1>8. 0 \in G
  <2>1. after[0] = o
    BY <1>7
  <2>2. all \o SubSeq(lines, 1, 0) = all
    OBVIOUS
  <2>3. Holds(o, 0)
    BY <2>2
  <2> HIDE DEF Outs, Holds
  <2> QED  BY <1>1, <2>1, <2>3
<1>9. \A n \in Nat : n \in G => n + 1 \in G
  <2> TAKE n \in Nat
  <2> HAVE n \in G
  <2> SUFFICES ASSUME n + 1 <= Len(lines) PROVE after[n + 1] \in Outs /\ Holds(after[n + 1], n + 1)
    <3> HIDE DEF Outs, Holds, step
    <3> QED  OBVIOUS
  <2>1. after[n] \in Outs /\ Holds(after[n], n)
    <3>1. n <= Len(lines)
      <4> HIDE DEF G
      <4> QED  OBVIOUS
    <3> HIDE DEF Outs, Holds, step
    <3> QED  BY <3>1
  <2>2. n + 1 \in 0 .. Len(lines) /\ n + 1 # 0 /\ n + 1 - 1 = n /\ lines[n + 1] \in L
    OBVIOUS
  <2>3. after[n + 1] = Append1(after[n], lines[n + 1])
    BY <1>7, <2>2
  <2>4. after[n + 1] \in Outs
    <3> HIDE DEF Outs, Holds
    <3> QED  BY <1>2, <2>1, <2>2, <2>3
  <2> DEFINE sofar == all \o SubSeq(lines, 1, n)
  <2>5. sofar \in Seq(L)
    OBVIOUS
  <2>6. Append(sofar, lines[n + 1]) = all \o SubSeq(lines, 1, n + 1)
    <3>1. Grows(all, lines, n)
      BY OneMore, Zenon
    <3> QED  BY <3>1, Zenon DEF Grows
  <2> DEFINE u == after[n]
  <2>7. u.ring \in [0 .. OutputMax - 1 -> L]
    <3> HIDE DEF Holds
    <3>1. u \in Outs
      BY <2>1, Zenon
    <3> HIDE DEF u
    <3> QED  BY <3>1
  <2>8. Ring([u.ring EXCEPT ![u.next] = lines[n + 1]], (u.next + 1) % OutputMax,
             IF u.count < OutputMax THEN u.count + 1 ELSE u.count, OutputMax,
             Append(sofar, lines[n + 1]))
    <3>1. Ring(u.ring, u.next, u.count, OutputMax, sofar)
      BY <2>1, Zenon
    <3> HIDE DEF u, sofar
    <3> QED  BY <2>2, <2>5, <2>7, <3>1, RingAppend
  <2>9. Holds(after[n + 1], n + 1)
    <3> HIDE DEF sofar
    <3> QED  BY <2>3, <2>6, <2>8 DEF Append1
  <2> QED  BY <2>4, <2>9
<1>10. Len(lines) \in G
  <2>1. Len(lines) \in Nat
    OBVIOUS
  <2> HIDE DEF G
  <2> QED  BY <1>8, <1>9, <2>1, EveryNat
<1>11. all \o SubSeq(lines, 1, Len(lines)) = all \o lines
  BY SubSeqFull
<1>12. AppendAll(o, lines) \in Outs /\ Holds(AppendAll(o, lines), Len(lines))
  <2> HIDE DEF Outs, Holds
  <2> QED  BY <1>7, <1>10
<1> QED  BY <1>11, <1>12

----------------------------------------------------------------------------
(* A console pane.                                                         *)

ConsoleSpec == ConsoleInit /\ [][ConsoleNext]_consoleVars

Line == Seq(Chars) \cup Replies

ConsoleTypes ==
  /\ text \in Seq(Chars) /\ caret \in 0 .. Len(text) /\ browse \in -1 .. pastCount - 1
  /\ kept \in [0 .. HistoryMax - 1 -> Seq(Chars)] /\ typed \in Seq(Seq(Chars))
  /\ out \in [0 .. OutputMax - 1 -> Line] /\ printed \in Seq(Line)

PastRing == Ring(kept, pastNext, pastCount, HistoryMax, typed)
OutRing == Ring(out, outNext, outCount, OutputMax, printed)

ConsoleInv == ConsoleTypes /\ PastRing /\ OutRing /\ RecallInOrder

\* What is in a pane is a line.
LEMMA LinesAre == Greeting \in Line /\ << >> \in Line /\ \A s \in Seq(Chars) : s \in Line
<1>1. << >> \in Seq(Chars)
  OBVIOUS
<1> QED  BY <1>1, ConsoleAssumption DEF Line

\* The line browsed to is the one typed that many lines ago.
LEMMA Recalled ==
  ASSUME ConsoleTypes, PastRing, NEW k \in 0 .. pastCount - 1
  PROVE  /\ kept[HistoryIndex(k)] = typed[Len(typed) - k]
         /\ kept[HistoryIndex(k)] \in Seq(Chars)
<1>1. pastNext \in 0 .. HistoryMax - 1 /\ Len(typed) \in Nat /\ HistoryMax \in Nat \ {0}
      /\ pastCount = (IF Len(typed) < HistoryMax THEN Len(typed) ELSE HistoryMax)
  BY ConsoleAssumption DEF ConsoleTypes, PastRing, Ring
<1>2. k \in 0 .. HistoryMax - 1
  BY <1>1
<1>3. HistoryIndex(k) = Behind(pastNext, k, HistoryMax)
      /\ Behind(pastNext, k, HistoryMax) \in 0 .. HistoryMax - 1
  BY <1>1, <1>2, BehindIs DEF HistoryIndex
<1> QED  BY <1>3 DEF ConsoleTypes, PastRing, Ring

\* The types, at boot.
LEMMA ConsoleStarts == ConsoleInit => ConsoleInv
<1> SUFFICES ASSUME ConsoleInit PROVE ConsoleInv
  OBVIOUS
<1> DEFINE blank == [i \in 0 .. OutputMax - 1 |-> << >>]
<1>1. OutputMax \in Nat \ {0} /\ HistoryMax \in Nat \ {0}
  BY ConsoleAssumption
<1>2. out = [blank EXCEPT ![0] = Greeting] /\ outNext = (0 + 1) % OutputMax
      /\ outCount = (IF 0 < OutputMax THEN 0 + 1 ELSE 0) /\ printed = Append(<< >>, Greeting)
  BY DEF ConsoleInit, Append1
<1>3. blank \in [0 .. OutputMax - 1 -> Line] /\ Greeting \in Line
  BY LinesAre
<1>4. << >> \in Seq(Line) /\ Ring(blank, 0, 0, OutputMax, << >>)
  BY <1>1, RingEmpty
<1>5. out \in [0 .. OutputMax - 1 -> Line] /\ OutRing
  <2> HIDE DEF blank
  <2> QED  BY <1>1, <1>2, <1>3, <1>4, RingAppend DEF OutRing
<1>6. PastRing
  BY <1>1, RingEmpty DEF ConsoleInit, PastRing
<1>7. printed \in Seq(Line)
  BY <1>2, <1>3, <1>4
<1>8. ConsoleTypes
  BY <1>1, <1>5, <1>7 DEF ConsoleInit, ConsoleTypes
<1> QED  BY <1>5, <1>6, <1>8 DEF ConsoleInit, ConsoleInv, RecallInOrder

\* A character more, and the caret behind it.
LEMMA InsertOne ==
  ASSUME NEW S, NEW s \in Seq(S), NEW i \in 0 .. Len(s), NEW c \in S
  PROVE  InsertAt(s, i + 1, c) \in Seq(S) /\ i + 1 \in 0 .. Len(InsertAt(s, i + 1, c))
<1>1. InsertAt(s, i + 1, c)
      = SubSeq(s, 1, (i + 1) - 1) \o << c >> \o SubSeq(s, i + 1, Len(s))
  BY DEF InsertAt
<1>2. SubSeq(s, 1, i) \in Seq(S) /\ Len(SubSeq(s, 1, i)) = i
      /\ SubSeq(s, i + 1, Len(s)) \in Seq(S) /\ (i + 1) - 1 = i
  OBVIOUS
<1> DEFINE a == SubSeq(s, 1, i)
           b == SubSeq(s, i + 1, Len(s))
<1> HIDE DEF a, b
<1>3. InsertAt(s, i + 1, c) = a \o << c >> \o b /\ a \in Seq(S) /\ b \in Seq(S) /\ Len(a) = i
  BY <1>1, <1>2 DEF a, b
<1>4. a \o << c >> \o b \in Seq(S) /\ Len(a \o << c >> \o b) = i + 1 + Len(b) /\ Len(b) \in Nat
  <2>1. a \o << c >> \in Seq(S) /\ Len(a \o << c >>) = i + 1
    <3>1. << c >> \in Seq(S) /\ Len(<< c >>) = 1
      OBVIOUS
    <3> QED  BY <1>3, <3>1
  <2>2. PICK d \in Seq(S) : d = a \o << c >>
    BY <2>1, Zenon
  <2>3. d \o b \in Seq(S) /\ Len(d \o b) = Len(d) + Len(b) /\ Len(b) \in Nat
    BY <1>3
  <2> QED  BY <2>1, <2>2, <2>3
<1>5. \A m, n \in Nat : m + 1 \in 0 .. m + 1 + n
  OBVIOUS
<1>6. i + 1 \in 0 .. i + 1 + Len(b)
  <2>1. i \in Nat /\ Len(b) \in Nat
    BY <1>4
  <2> QED  BY <1>5, <2>1, Zenon
<1> QED  BY <1>3, <1>4, <1>6, Zenon

\* A character less, and the caret before where it was.
LEMMA RemoveOne ==
  ASSUME NEW S, NEW s \in Seq(S), NEW i \in 1 .. Len(s)
  PROVE  RemoveAt(s, i) \in Seq(S) /\ i - 1 \in 0 .. Len(RemoveAt(s, i))
<1>1. RemoveAt(s, i) = SubSeq(s, 1, i - 1) \o SubSeq(s, i + 1, Len(s))
  BY DEF RemoveAt
<1>2. SubSeq(s, 1, i - 1) \in Seq(S) /\ Len(SubSeq(s, 1, i - 1)) = i - 1
      /\ SubSeq(s, i + 1, Len(s)) \in Seq(S)
  OBVIOUS
<1> DEFINE a == SubSeq(s, 1, i - 1)
           b == SubSeq(s, i + 1, Len(s))
<1> HIDE DEF a, b
<1>3. RemoveAt(s, i) = a \o b /\ a \in Seq(S) /\ b \in Seq(S) /\ Len(a) = i - 1
  BY <1>1, <1>2 DEF a, b
<1>4. a \o b \in Seq(S) /\ Len(a \o b) = i - 1 + Len(b) /\ Len(b) \in Nat
  <2>1. a \o b \in Seq(S) /\ Len(a \o b) = Len(a) + Len(b)
    BY <1>3, ConcatProperties, ZenonT(40)
  <2>2. Len(b) \in Nat
    BY <1>3
  <2> QED  BY <1>3, <2>1, <2>2
<1>5. \A m, n \in Nat : m \in 0 .. m + n
  OBVIOUS
<1>6. i - 1 \in Nat
  OBVIOUS
<1>7. i - 1 \in 0 .. i - 1 + Len(b)
  BY <1>4, <1>5, <1>6
<1> QED  BY <1>3, <1>4, <1>7, Zenon

\* The keys that edit and move: the stores stay, and browsing ends or the text stays.
LEMMA EditKeeps ==
  ASSUME ConsoleInv,
         \/ \E c \in Chars : TypeChar(c)
         \/ Backspace
         \/ \E delta \in { -1, 1 } : MoveCursor(delta)
  PROVE  ConsoleInv'
<1>1. /\ ConsoleTypes /\ PastRing /\ OutRing /\ RecallInOrder
      /\ UNCHANGED << kept, pastCount, pastNext, typed, out, outCount, outNext, printed >>
  BY DEF ConsoleInv, TypeChar, Backspace, MoveCursor, PastUnchanged, OutUnchanged
<1>2. PastRing' /\ OutRing'
  BY <1>1 DEF PastRing, OutRing
<1>3. text \in Seq(Chars) /\ caret \in 0 .. Len(text) /\ Len(text) \in Nat
      /\ browse \in -1 .. pastCount - 1 /\ pastCount \in Nat
  BY SMTT(30), <1>1, ConsoleAssumption DEF ConsoleTypes, PastRing, Ring
<1>4. text' \in Seq(Chars) /\ caret' \in 0 .. Len(text')
  <2>1. CASE \E c \in Chars : TypeChar(c)
    <3>1. PICK c \in Chars : TypeChar(c)
      BY <2>1
    <3>2. CASE Len(text) < InputMax
      <4>1. text' = InsertAt(text, caret + 1, c) /\ caret' = caret + 1
        BY <3>1, <3>2 DEF TypeChar
      <4> QED  BY <1>3, <4>1, InsertOne
    <3>3. CASE ~(Len(text) < InputMax)
      BY <1>3, <3>1, <3>3 DEF TypeChar
    <3> QED  BY <3>2, <3>3
  <2>2. CASE Backspace
    <3>1. CASE caret > 0
      <4>1. text' = RemoveAt(text, caret) /\ caret' = caret - 1 /\ caret \in 1 .. Len(text)
        BY <1>3, <2>2, <3>1 DEF Backspace
      <4> QED  BY <1>3, <4>1, RemoveOne
    <3>2. CASE ~(caret > 0)
      BY <1>3, <2>2, <3>2 DEF Backspace
    <3> QED  BY <3>1, <3>2
  <2>3. CASE \E delta \in { -1, 1 } : MoveCursor(delta)
    BY <1>3, <2>3 DEF MoveCursor
  <2> QED  BY <2>1, <2>2, <2>3
<1>5. browse' = -1 \/ (browse' = browse /\ text' = text)
  BY DEF TypeChar, Backspace, MoveCursor
<1>6. ConsoleTypes'
  BY <1>1, <1>3, <1>4, <1>5 DEF ConsoleTypes
<1>7. RecallInOrder'
  BY <1>1, <1>5 DEF RecallInOrder
<1> QED  BY <1>2, <1>6, <1>7 DEF ConsoleInv

\* Up and Down.
LEMMA RecallKeeps ==
  ASSUME ConsoleInv, RecallPrev \/ RecallNext
  PROVE  ConsoleInv'
<1>1. /\ ConsoleTypes /\ PastRing /\ OutRing
      /\ UNCHANGED << kept, pastCount, pastNext, typed, out, outCount, outNext, printed >>
  BY DEF ConsoleInv, RecallPrev, RecallNext, PastUnchanged, OutUnchanged
<1>2. PastRing' /\ OutRing'
  BY <1>1 DEF PastRing, OutRing
<1>3. browse \in -1 .. pastCount - 1 /\ pastCount \in Nat
  BY <1>1, ConsoleAssumption DEF ConsoleTypes, PastRing, Ring
<1>4. /\ browse' \in -1 .. pastCount - 1
      /\ text' = (IF browse' < 0 THEN << >> ELSE kept[HistoryIndex(browse')])
      /\ caret' = Len(text')
  <2>1. CASE RecallPrev
    BY <1>3, <2>1 DEF RecallPrev, SetText
  <2>2. CASE RecallNext
    <3>1. browse >= 0 /\ browse' = browse - 1
          /\ text' = (IF browse = 0 THEN << >> ELSE kept[HistoryIndex(browse')])
          /\ caret' = Len(IF browse = 0 THEN << >> ELSE kept[HistoryIndex(browse')])
      BY <2>2 DEF RecallNext, SetText
    <3>2. (browse' < 0) <=> (browse = 0)
      BY <1>3, <3>1
    <3> QED  BY <1>3, <3>1, <3>2
  <2> QED  BY <2>1, <2>2
<1>5. browse' >= 0 => text' = typed[Len(typed) - browse'] /\ text' \in Seq(Chars)
  <2> SUFFICES ASSUME browse' >= 0
               PROVE  text' = typed[Len(typed) - browse'] /\ text' \in Seq(Chars)
    OBVIOUS
  <2>1. PICK k \in 0 .. pastCount - 1 : k = browse'
    BY <1>3, <1>4
  <2>2. text' = kept[HistoryIndex(k)]
    BY <1>4, <2>1
  <2>3. kept[HistoryIndex(k)] = typed[Len(typed) - k] /\ kept[HistoryIndex(k)] \in Seq(Chars)
    BY <1>1, Recalled
  <2> QED  BY <2>1, <2>2, <2>3
<1>6. text' \in Seq(Chars) /\ caret' \in 0 .. Len(text')
  <2>1. text' \in Seq(Chars)
    <3>1. CASE browse' >= 0
      BY <1>5, <3>1
    <3>2. CASE ~(browse' >= 0)
      BY <1>3, <1>4, <3>2
    <3> QED  BY <3>1, <3>2
  <2> QED  BY <1>4, <2>1
<1>7. ConsoleTypes'
  BY <1>1, <1>4, <1>6 DEF ConsoleTypes
<1>8. RecallInOrder'
  BY <1>1, <1>5 DEF RecallInOrder
<1> QED  BY <1>2, <1>7, <1>8 DEF ConsoleInv

\* Enter: both rings take what they are given.
LEMMA SubmitKeeps ==
  ASSUME ConsoleInv, NEW answer \in Answers, Submit(answer)
  PROVE  ConsoleInv'
<1>1. ConsoleTypes /\ PastRing /\ OutRing /\ OutputMax \in Nat \ {0} /\ HistoryMax \in Nat \ {0}
  BY ConsoleAssumption DEF ConsoleInv
<1> DEFINE lines == << text >> \o answer
           o == [ring |-> out, next |-> outNext, count |-> outCount]
<1>2. lines \in Seq(Line)
  <2>1. answer \in Seq(Line)
    <3>1. answer \in Seq(Replies)
      BY ConsoleAssumption
    <3>2. \A i \in 1 .. Len(answer) : answer[i] \in Replies
      BY <3>1
    <3>3. \A i \in 1 .. Len(answer) : answer[i] \in Line
      BY <3>2 DEF Line
    <3> QED  BY <3>1, <3>3
  <2>2. << text >> \in Seq(Line)
    <3>1. text \in Line
      BY <1>1, LinesAre DEF ConsoleTypes
    <3> QED  BY <3>1
  <2> QED  BY <2>1, <2>2
<1>3. outNext \in Int /\ outCount \in Int
  <2>1. Len(printed) \in Nat
    BY <1>1 DEF ConsoleTypes
  <2> QED  BY <1>1, <2>1 DEF OutRing, Ring
<1>4. /\ AppendAll(o, lines).ring \in [0 .. OutputMax - 1 -> Line]
      /\ Ring(AppendAll(o, lines).ring, AppendAll(o, lines).next,
              AppendAll(o, lines).count, OutputMax, printed \o lines)
  <2>1. o \in [ring : [0 .. OutputMax - 1 -> Line], next : Int, count : Int]
    BY <1>1, <1>3 DEF ConsoleTypes
  <2>2. printed \in Seq(Line)
    BY <1>1 DEF ConsoleTypes
  <2>3. Ring(o.ring, o.next, o.count, OutputMax, printed)
    BY <1>1 DEF OutRing
  <2> HIDE DEF o, lines
  <2> QED  BY <1>1, <1>2, <2>1, <2>2, <2>3, RingAppendAll
<1>5. /\ out' = AppendAll(o, lines).ring /\ outNext' = AppendAll(o, lines).next
      /\ outCount' = AppendAll(o, lines).count /\ printed' = printed \o lines
  BY DEF Submit, PrintLines
<1>6. OutRing' /\ out' \in [0 .. OutputMax - 1 -> Line] /\ printed' \in Seq(Line)
  <2>1. printed \o lines \in Seq(Line)
    <3> HIDE DEF lines
    <3> QED  BY <1>1, <1>2 DEF ConsoleTypes
  <2> HIDE DEF o, lines
  <2> QED  BY <1>4, <1>5, <2>1 DEF OutRing
<1>7. PastRing' /\ kept' \in [0 .. HistoryMax - 1 -> Seq(Chars)] /\ typed' \in Seq(Seq(Chars))
  <2>1. CASE text = << >>
    BY <1>1, <2>1 DEF Submit, PushHistory, PastUnchanged, PastRing, ConsoleTypes
  <2>2. CASE text # << >>
    <3>1. /\ kept' = [kept EXCEPT ![pastNext] = text] /\ pastNext' = (pastNext + 1) % HistoryMax
          /\ pastCount' = (IF pastCount < HistoryMax THEN pastCount + 1 ELSE pastCount)
          /\ typed' = Append(typed, text)
      BY <2>2 DEF Submit, PushHistory
    <3>2. text \in Seq(Chars) /\ kept \in [0 .. HistoryMax - 1 -> Seq(Chars)]
          /\ typed \in Seq(Seq(Chars))
      BY <1>1 DEF ConsoleTypes
    <3>3. Ring(kept, pastNext, pastCount, HistoryMax, typed)
      BY <1>1 DEF PastRing
    <3>4. /\ [kept EXCEPT ![pastNext] = text] \in [0 .. HistoryMax - 1 -> Seq(Chars)]
          /\ Ring([kept EXCEPT ![pastNext] = text], (pastNext + 1) % HistoryMax,
                  IF pastCount < HistoryMax THEN pastCount + 1 ELSE pastCount,
                  HistoryMax, Append(typed, text))
      BY <1>1, <3>2, <3>3, RingAppend
    <3>5. Append(typed, text) \in Seq(Seq(Chars))
      BY <3>2
    <3> QED  BY <3>1, <3>4, <3>5 DEF PastRing
  <2> QED  BY <2>1, <2>2
<1>8. text' = << >> /\ caret' = 0 /\ browse' = -1
  BY DEF Submit
<1>9. pastCount' \in Nat
  <2>1. Len(typed') \in Nat
    BY <1>7
  <2> QED  BY <1>1, <1>7, <2>1 DEF PastRing, Ring
<1>10. ConsoleTypes'
  <2> HIDE DEF o, lines
  <2>1. text' \in Seq(Chars) /\ caret' \in 0 .. Len(text')
    BY <1>8
  <2>2. browse' \in -1 .. pastCount' - 1
    <3>1. \A n \in Nat : -1 \in -1 .. n - 1
      OBVIOUS
    <3> QED  BY <1>8, <1>9, <3>1
  <2> QED  BY <1>6, <1>7, <2>1, <2>2 DEF ConsoleTypes
<1> QED  BY <1>6, <1>7, <1>8, <1>10 DEF ConsoleInv, RecallInOrder

\* The rows of a pane are the latest lines printed, when the ring has them.
LEMMA PaneShows ==
  ASSUME ConsoleInv
  PROVE  ConsoleInOrder
<1>1. /\ Len(printed) \in Nat /\ outNext \in 0 .. OutputMax - 1 /\ OutputMax \in Nat \ {0}
      /\ outCount = (IF Len(printed) < OutputMax THEN Len(printed) ELSE OutputMax)
      /\ VisibleRows \in Nat
  BY ConsoleAssumption DEF ConsoleInv, ConsoleTypes, OutRing, Ring
<1>2. Shown \in Nat /\ Shown <= outCount /\ Shown <= Len(printed)
  BY <1>1 DEF Shown
<1>3. \A i \in 0 .. Shown - 1 : ShownRow(i) = printed[Len(printed) - (Shown - 1 - i)]
  <2> TAKE i \in 0 .. Shown - 1
  <2>1. PICK k \in 0 .. outCount - 1 : k = Shown - 1 - i
    BY <1>1, <1>2
  <2>2. k \in 0 .. OutputMax - 1
    BY <1>1
  <2>3. ShownRow(i) = out[(outNext - 1 - k + 2 * OutputMax) % OutputMax]
    BY <2>1 DEF ShownRow
  <2>4. (outNext - 1 - k + 2 * OutputMax) % OutputMax = Behind(outNext, k, OutputMax)
    BY <1>1, <2>2, BehindIs
  <2>5. out[Behind(outNext, k, OutputMax)] = printed[Len(printed) - k]
    BY DEF ConsoleInv, OutRing, Ring
  <2> QED  BY <2>1, <2>3, <2>4, <2>5
<1>4. AllRecallable
  BY DEF ConsoleInv, PastRing, Ring, AllRecallable
<1> QED  BY <1>2, <1>3, <1>4 DEF ConsoleInv, ConsoleInOrder, ShowsLatest

\* Up and Down walk the lines typed in their order, past the point where the
\* history ring has wrapped too, and the pane shows the latest lines printed
\* (console_history.c, console_output.c).
THEOREM LinesStayInOrder == ConsoleSpec => []ConsoleInOrder
<1>1. ConsoleInv /\ [ConsoleNext]_consoleVars => ConsoleInv'
  <2> SUFFICES ASSUME ConsoleInv, [ConsoleNext]_consoleVars PROVE ConsoleInv'
    OBVIOUS
  <2>1. CASE UNCHANGED consoleVars
    BY <2>1 DEF ConsoleInv, ConsoleTypes, PastRing, OutRing, RecallInOrder, consoleVars
  <2>2. CASE \/ \E c \in Chars : TypeChar(c)
             \/ Backspace
             \/ \E delta \in { -1, 1 } : MoveCursor(delta)
    BY <2>2, EditKeeps
  <2>3. CASE RecallPrev \/ RecallNext
    BY <2>3, RecallKeeps
  <2>4. ASSUME NEW answer \in Answers, Submit(answer) PROVE ConsoleInv'
    BY <2>4, SubmitKeeps
  <2> QED  BY <2>1, <2>2, <2>3, <2>4 DEF ConsoleNext
<1>2. ConsoleInv => ConsoleInOrder
  BY PaneShows
<1> QED  BY ConsoleStarts, <1>1, <1>2, PTL DEF ConsoleSpec

----------------------------------------------------------------------------
(* Rectangles.                                                             *)

IntRect == [x0 : Int, y0 : Int, x1 : Int, y1 : Int]
Inside(a, b) == b.x0 <= a.x0 /\ b.y0 <= a.y0 /\ a.x1 <= b.x1 /\ a.y1 <= b.y1

\* Finitely many arguments have finitely many results.
LEMMA FiniteResults ==
  ASSUME NEW S, IsFiniteSet(S), NEW f, DOMAIN f = S
  PROVE  IsFiniteSet({ f[x] : x \in S })
<1> DEFINE T == { f[x] : x \in S }
           g == [x \in S |-> f[x]]
<1>1. g \in Surjection(S, T)
  BY DEF Surjection
<1> HIDE DEF T, g
<1>2. IsFiniteSet(T)
  BY <1>1, FS_Surjection
<1> QED  BY <1>2 DEF T

\* Among finitely many things weighed by integers one weighs most.
LEMMA FiniteMaximum ==
  ASSUME NEW S, IsFiniteSet(S), S # {}, NEW f, \A s \in S : f[s] \in Int
  PROVE  \E s \in S : \A r \in S : f[r] <= f[s]
<1> DEFINE Bad == { T \in SUBSET S : T # {} /\ \A s \in T : \E r \in T : ~(f[r] <= f[s]) }
<1> SUFFICES ASSUME Bad # {} PROVE FALSE
  OBVIOUS
<1>1. Bad \subseteq FiniteSubsetsOf(S)
  BY FS_Subset DEF FiniteSubsetsOf
<1>2. PICK T \in Bad : \A U \in Bad : ~(<< U, T >> \in StrictSubsetOrdering(S))
  BY <1>1, WFMin, FS_StrictSubsetOrderingWellFounded
<1>3. PICK e \in T : TRUE
  OBVIOUS
<1>4. T \ {e} \notin Bad
  BY <1>2, <1>3 DEF StrictSubsetOrdering
<1>5. CASE T \ {e} = {}
  BY <1>3, <1>5
<1>6. CASE T \ {e} # {}
  <2>1. PICK m \in T \ {e} : \A r \in T \ {e} : f[r] <= f[m]
    BY <1>4, <1>6
  <2>2. f[m] \in Int /\ f[e] \in Int /\ \A r \in T : f[r] \in Int
    BY <2>1, <1>3
  <2>3. PICK r1 \in T : ~(f[r1] <= f[m])
    BY <2>1
  <2>4. r1 = e
    BY <2>1, <2>3
  <2>5. PICK r2 \in T : ~(f[r2] <= f[e])
    BY <1>3
  <2>6. CASE r2 = e
    BY <2>2, <2>5, <2>6
  <2>7. CASE r2 # e
    <3>1. f[r2] <= f[m]
      BY <2>1, <2>5, <2>7
    <3> QED  BY <2>2, <2>3, <2>4, <2>5, <3>1
  <2> QED  BY <2>6, <2>7
<1> QED  BY <1>5, <1>6

\* Of finitely many integers there is a least and a greatest.
LEMMA Extremes ==
  ASSUME NEW S, IsFiniteSet(S), S # {}, S \subseteq Int
  PROVE  /\ Least(S) \in S /\ \A a \in S : Least(S) <= a
         /\ Most(S) \in S /\ \A a \in S : a <= Most(S)
<1> DEFINE up == [a \in S |-> a]
           down == [a \in S |-> -a]
<1>1. \A a \in S : a \in Int /\ up[a] = a /\ up[a] \in Int /\ down[a] = -a /\ down[a] \in Int
  OBVIOUS
<1>2. PICK m \in S : \A a \in S : up[a] <= up[m]
  <2> HIDE DEF up, down
  <2> QED  BY <1>1, FiniteMaximum
<1>3. PICK n \in S : \A a \in S : down[a] <= down[n]
  <2> HIDE DEF up, down
  <2> QED  BY <1>1, FiniteMaximum
<1>4. (\A a \in S : m >= a) /\ \A a \in S : n <= a
  BY <1>1, <1>2, <1>3
<1>5. Most(S) \in S /\ \A a \in S : Most(S) >= a
  BY <1>4 DEF Most
<1>6. Least(S) \in S /\ \A a \in S : Least(S) <= a
  BY <1>4 DEF Least
<1> QED  BY <1>5, <1>6

\* The union of rectangles holds each of them, and is the one that holds the others.
LEMMA UnionHolds ==
  ASSUME NEW rs, IsFiniteSet(rs), rs # {}, rs \subseteq IntRect
  PROVE  /\ RectUnion(rs) \in IntRect
         /\ \A r \in rs : Inside(r, RectUnion(rs))
         /\ \A d \in rs : (\A r \in rs : Inside(r, d)) => RectUnion(rs) = d
<1> DEFINE X0 == { r.x0 : r \in rs }
           Y0 == { r.y0 : r \in rs }
           X1 == { r.x1 : r \in rs }
           Y1 == { r.y1 : r \in rs }
<1>1. \A r \in rs : /\ r.x0 \in Int /\ r.y0 \in Int /\ r.x1 \in Int /\ r.y1 \in Int
                    /\ r = [x0 |-> r.x0, y0 |-> r.y0, x1 |-> r.x1, y1 |-> r.y1]
  BY DEF IntRect
<1>2. /\ IsFiniteSet(X0) /\ X0 # {} /\ X0 \subseteq Int
      /\ IsFiniteSet(Y0) /\ Y0 # {} /\ Y0 \subseteq Int
      /\ IsFiniteSet(X1) /\ X1 # {} /\ X1 \subseteq Int
      /\ IsFiniteSet(Y1) /\ Y1 # {} /\ Y1 \subseteq Int
  <2> DEFINE f0 == [r \in rs |-> r.x0]
             g0 == [r \in rs |-> r.y0]
             f1 == [r \in rs |-> r.x1]
             g1 == [r \in rs |-> r.y1]
  <2>1. /\ X0 = { f0[r] : r \in rs } /\ Y0 = { g0[r] : r \in rs }
        /\ X1 = { f1[r] : r \in rs } /\ Y1 = { g1[r] : r \in rs }
    OBVIOUS
  <2>2. DOMAIN f0 = rs /\ DOMAIN g0 = rs /\ DOMAIN f1 = rs /\ DOMAIN g1 = rs
    OBVIOUS
  <2>3. IsFiniteSet(X0) /\ IsFiniteSet(Y0) /\ IsFiniteSet(X1) /\ IsFiniteSet(Y1)
    <3> HIDE DEF f0, g0, f1, g1, X0, Y0, X1, Y1
    <3> QED  BY <2>1, <2>2, FiniteResults
  <2>4. X0 \subseteq Int /\ Y0 \subseteq Int /\ X1 \subseteq Int /\ Y1 \subseteq Int
    BY <1>1
  <2>5. X0 # {} /\ Y0 # {} /\ X1 # {} /\ Y1 # {}
    OBVIOUS
  <2> QED  BY <2>3, <2>4, <2>5
<1>3. /\ Least(X0) \in X0 /\ \A a \in X0 : Least(X0) <= a
      /\ Least(Y0) \in Y0 /\ \A a \in Y0 : Least(Y0) <= a
      /\ Most(X1) \in X1 /\ \A a \in X1 : a <= Most(X1)
      /\ Most(Y1) \in Y1 /\ \A a \in Y1 : a <= Most(Y1)
  <2> HIDE DEF X0, Y0, X1, Y1
  <2> QED  BY <1>2, Extremes
<1>4. RectUnion(rs) = [x0 |-> Least(X0), y0 |-> Least(Y0), x1 |-> Most(X1), y1 |-> Most(Y1)]
  BY DEF RectUnion
<1>5. \A r \in rs : r.x0 \in X0 /\ r.y0 \in Y0 /\ r.x1 \in X1 /\ r.y1 \in Y1
  OBVIOUS
<1>6. ASSUME NEW d \in rs, \A r \in rs : Inside(r, d)
      PROVE  RectUnion(rs) = d
  <2>1. /\ \A a \in X0 : d.x0 <= a
        /\ \A a \in Y0 : d.y0 <= a
        /\ \A a \in X1 : a <= d.x1
        /\ \A a \in Y1 : a <= d.y1
    BY <1>6 DEF Inside
  <2> HIDE DEF X0, Y0, X1, Y1
  <2>2. Least(X0) = d.x0 /\ Least(Y0) = d.y0 /\ Most(X1) = d.x1 /\ Most(Y1) = d.y1
    <3>1. \A a, b \in Int : a <= b /\ b <= a => a = b
      OBVIOUS
    <3>2. d.x0 <= Least(X0) /\ Least(X0) <= d.x0 /\ Least(X0) \in Int /\ d.x0 \in Int
      BY <1>1, <1>2, <1>3, <1>5, <2>1
    <3>3. d.y0 <= Least(Y0) /\ Least(Y0) <= d.y0 /\ Least(Y0) \in Int /\ d.y0 \in Int
      BY <1>1, <1>2, <1>3, <1>5, <2>1
    <3>4. d.x1 <= Most(X1) /\ Most(X1) <= d.x1 /\ Most(X1) \in Int /\ d.x1 \in Int
      BY <1>1, <1>2, <1>3, <1>5, <2>1
    <3>5. d.y1 <= Most(Y1) /\ Most(Y1) <= d.y1 /\ Most(Y1) \in Int /\ d.y1 \in Int
      BY <1>1, <1>2, <1>3, <1>5, <2>1
    <3> QED  BY <3>1, <3>2, <3>3, <3>4, <3>5
  <2> QED  BY <1>1, <1>4, <2>2
<1> HIDE DEF X0, Y0, X1, Y1
<1>7. RectUnion(rs) \in IntRect
  <2>1. Least(X0) \in Int /\ Least(Y0) \in Int /\ Most(X1) \in Int /\ Most(Y1) \in Int
    BY <1>2, <1>3
  <2> QED  BY <1>4, <2>1 DEF IntRect
<1>8. \A r \in rs : Inside(r, RectUnion(rs))
  BY <1>3, <1>4, <1>5 DEF Inside
<1> QED  BY <1>6, <1>7, <1>8

\* What holds a rectangle shows its cells, and sharing a cell is overlapping.
LEMMA Sharing ==
  ASSUME NEW a \in IntRect, NEW b \in IntRect, NEW c \in Int \X Int, In(c, a)
  PROVE  (Inside(a, b) => In(c, b)) /\ (In(c, b) => Overlap(a, b) /\ Overlap(b, a))
<1>1. /\ a.x0 \in Int /\ a.y0 \in Int /\ a.x1 \in Int /\ a.y1 \in Int
      /\ b.x0 \in Int /\ b.y0 \in Int /\ b.x1 \in Int /\ b.y1 \in Int
      /\ c[1] \in Int /\ c[2] \in Int
  BY DEF IntRect
<1>2. Inside(a, b) => In(c, b)
  BY <1>1 DEF In, Inside
<1>3. In(c, b) => Overlap(a, b) /\ Overlap(b, a)
  BY <1>1 DEF In, Overlap
<1> QED  BY <1>2, <1>3

Desks == [place : [Wins -> Int \X Int], shown : [Wins -> BOOLEAN], look : [Wins -> { 0, 1 }],
          stack : Seq(Wins), pointer : Cells, menu : BOOLEAN, fx : BOOLEAN, banner : BOOLEAN]

\* A rectangle of integers.
LEMMA RectIs ==
  ASSUME NEW x \in Int, NEW y \in Int, NEW w \in Int, NEW h \in Int
  PROVE  Rect(x, y, w, h) \in IntRect
BY DEF Rect, IntRect

\* The popup and the button are parts of the menu's region.
LEMMA MenuHolds ==
  /\ PopupRect \in IntRect /\ ButtonRect \in IntRect /\ MenuRect \in IntRect
  /\ Inside(PopupRect, MenuRect) /\ Inside(ButtonRect, MenuRect)
<1>1. ScreenH \in Int
  BY DamageAssumption
<1>2. PopupRect \in IntRect /\ ButtonRect \in IntRect
  BY <1>1, RectIs DEF PopupRect, ButtonRect
<1> DEFINE rs == { PopupRect, ButtonRect }
<1>3. IsFiniteSet(rs) /\ rs # {} /\ rs \subseteq IntRect
  <2>1. IsFiniteSet({ PopupRect }) /\ IsFiniteSet({ PopupRect } \cup { ButtonRect })
    BY FS_Singleton, FS_AddElement
  <2>2. rs = { PopupRect } \cup { ButtonRect }
    OBVIOUS
  <2> QED  BY <1>2, <2>1, <2>2
<1>4. PopupRect \in rs /\ ButtonRect \in rs /\ MenuRect = RectUnion(rs)
  BY DEF MenuRect
<1> HIDE DEF rs
<1> QED  BY <1>2, <1>3, <1>4, UnionHolds

\* Windows are not the other regions, and those are three.
LEMMA RegionsAre ==
  /\ IsFiniteSet(Regions) /\ Wins \subseteq Regions
  /\ { "title", "bar", "menu" } \subseteq Regions
  /\ \A k \in Wins : k \notin { "title", "bar", "menu", "popup", "button" }
<1>1. IsFiniteSet(Wins) /\ IsFiniteSet({ "title", "bar", "menu" })
  <2>1. IsFiniteSet({ "title" }) /\ IsFiniteSet({ "title" } \cup { "bar" })
    BY FS_Singleton, FS_AddElement
  <2>2. IsFiniteSet(({ "title" } \cup { "bar" }) \cup { "menu" })
    BY <2>1, FS_AddElement
  <2>3. ({ "title" } \cup { "bar" }) \cup { "menu" } = { "title", "bar", "menu" }
    OBVIOUS
  <2> QED  BY <2>2, <2>3, DamageAssumption
<1>2. IsFiniteSet(Regions)
  BY <1>1, FS_Union DEF Regions
<1>3. \A k \in Wins : k \notin { "title", "bar", "menu", "popup", "button" }
  BY DamageAssumption
<1> QED  BY <1>2, <1>3 DEF Regions

\* Every region has its rectangle.
LEMMA RegionRects ==
  ASSUME NEW s \in Desks, NEW r \in Regions
  PROVE  /\ RegionRect(s, r) \in IntRect
         /\ r \in Wins => RegionRect(s, r) = WinRect(s.place[r])
         /\ r = "menu" => RegionRect(s, r) = MenuRect
<1>1. ScreenW \in Int /\ ScreenH \in Int /\ WinW \in Int /\ WinH \in Int
  BY DamageAssumption
<1>2. TitleRect \in IntRect /\ BarRect \in IntRect
  BY <1>1, RectIs DEF TitleRect, BarRect
<1>3. ASSUME r \in Wins PROVE RegionRect(s, r) = WinRect(s.place[r]) /\ WinRect(s.place[r]) \in IntRect
  <2>1. s.place[r] \in Int \X Int
    BY <1>3 DEF Desks
  <2>2. s.place[r][1] \in Int /\ s.place[r][2] \in Int
    BY <2>1
  <2>3. WinRect(s.place[r]) \in IntRect
    BY <1>1, <2>2, RectIs DEF WinRect
  <2> QED  BY <1>3, <2>3, RegionsAre DEF RegionRect
<1>4. CASE r = "title"
  BY <1>2, <1>4, RegionsAre DEF RegionRect
<1>5. CASE r = "bar"
  BY <1>2, <1>5, RegionsAre DEF RegionRect
<1>6. CASE r = "menu"
  BY <1>6, RegionsAre, MenuHolds DEF RegionRect
<1> QED  BY <1>3, <1>4, <1>5, <1>6 DEF Regions

\* The rectangles of some regions, of one and of where windows were, are finitely many.
LEMMA FiniteRects ==
  ASSUME NEW s \in Desks, NEW rs \in SUBSET Regions
  PROVE  /\ IsFiniteSet({ RegionRect(s, r) : r \in rs })
         /\ { RegionRect(s, r) : r \in rs } \subseteq IntRect
<1> DEFINE f == [r \in rs |-> RegionRect(s, r)]
<1>1. IsFiniteSet(rs)
  BY RegionsAre, FS_Subset
<1>2. DOMAIN f = rs /\ { RegionRect(s, r) : r \in rs } = { f[r] : r \in rs }
  OBVIOUS
<1>3. IsFiniteSet({ f[r] : r \in rs })
  <2> HIDE DEF f
  <2> QED  BY <1>1, <1>2, FiniteResults
<1>4. { RegionRect(s, r) : r \in rs } \subseteq IntRect
  BY RegionRects
<1> QED  BY <1>2, <1>3, <1>4

----------------------------------------------------------------------------
(* The fixed-point loop.                                                   *)

\* What the loop works on: the regions to redraw, and the damage.
Fronts == (SUBSET Regions) \X IntRect

Covers(s, g) == \A r \in g[1] : Inside(RegionRect(s, r), g[2])
Settled(s, g) == \A r \in Regions : Overlap(g[2], RegionRect(s, r)) => r \in g[1]

\* One round: it only adds, keeps covering what it redraws, and adds nothing only
\* when nothing is left to add.
LEMMA WidenGrows ==
  ASSUME NEW s \in Desks, NEW g \in Fronts, Covers(s, g)
  PROVE  /\ Widen(s, g) \in Fronts /\ Covers(s, Widen(s, g))
         /\ g[1] \subseteq Widen(s, g)[1] /\ Inside(g[2], Widen(s, g)[2])
         /\ Settled(s, g) => Widen(s, g) = g
         /\ ~Settled(s, g) => g[1] # Widen(s, g)[1]
<1> DEFINE more == { r \in Regions : r \in g[1] \/ Overlap(g[2], RegionRect(s, r)) }
           rects == { RegionRect(s, r) : r \in more }
           all == rects \cup { g[2] }
<1>1. g = << g[1], g[2] >> /\ g[1] \subseteq Regions /\ g[2] \in IntRect
  BY DEF Fronts
<1>2. Widen(s, g) = << more, RectUnion(all) >> /\ more \in SUBSET Regions
  BY DEF Widen
<1>3. IsFiniteSet(all) /\ all # {} /\ all \subseteq IntRect
  <2>1. IsFiniteSet(rects) /\ rects \subseteq IntRect
    <3> HIDE DEF more
    <3> QED  BY <1>2, FiniteRects
  <2> HIDE DEF rects
  <2>2. IsFiniteSet(all)
    BY <2>1, FS_AddElement
  <2> QED  BY <1>1, <2>1, <2>2
<1>4. /\ RectUnion(all) \in IntRect
      /\ \A a \in all : Inside(a, RectUnion(all))
      /\ \A d \in all : (\A a \in all : Inside(a, d)) => RectUnion(all) = d
  <2> HIDE DEF all
  <2> QED  BY <1>3, UnionHolds
<1>5. g[2] \in all /\ \A r \in more : RegionRect(s, r) \in all
  OBVIOUS
<1>6. g[1] \subseteq more
  BY <1>1
<1>7. ASSUME Settled(s, g) PROVE Widen(s, g) = g
  <2>1. more = g[1]
    BY <1>6, <1>7 DEF Settled
  <2>2. Inside(g[2], g[2])
    BY <1>1 DEF Inside, IntRect
  <2>3. \A a \in all : Inside(a, g[2])
    BY <2>1, <2>2 DEF Covers
  <2>4. RectUnion(all) = g[2]
    BY <1>4, <1>5, <2>3
  <2> QED  BY <1>1, <1>2, <2>1, <2>4
<1>8. ASSUME ~Settled(s, g) PROVE g[1] # more
  BY <1>8 DEF Settled
<1> HIDE DEF more, rects, all
<1>9. Widen(s, g) \in Fronts
  BY <1>2, <1>4 DEF Fronts
<1>10. Covers(s, Widen(s, g))
  BY <1>2, <1>4, <1>5 DEF Covers
<1> QED  BY <1>2, <1>4, <1>5, <1>6, <1>7, <1>8, <1>9, <1>10

\* A subset that grows within a finite set has one element more at least.
LEMMA OneMoreRegion ==
  ASSUME NEW A \in SUBSET Regions, NEW B \in SUBSET Regions, A \subseteq B, A # B
  PROVE  Cardinality(A) \in Nat /\ Cardinality(B) \in Nat /\ Cardinality(B) >= Cardinality(A) + 1
<1>1. IsFiniteSet(A) /\ IsFiniteSet(B)
  BY RegionsAre, FS_Subset
<1>2. Cardinality(A) \in Nat /\ Cardinality(B) \in Nat
  BY <1>1, FS_CardinalityType
<1>3. Cardinality(A) <= Cardinality(B) /\ Cardinality(A) # Cardinality(B)
  BY <1>1, FS_Subset
<1> QED  BY <1>2, <1>3

\* Once for each region is often enough for the loop to settle.
LEMMA SpreadSettles ==
  ASSUME NEW s \in Desks, NEW rs \in SUBSET Regions, NEW dmg \in IntRect,
         Covers(s, << rs, dmg >>)
  PROVE  /\ Spread(s, rs, dmg) \in Fronts /\ Settled(s, Spread(s, rs, dmg))
         /\ Inside(dmg, Spread(s, rs, dmg)[2])
<1> DEFINE N == Cardinality(Regions)
           S == { g \in Fronts : Covers(s, g) }
           x == << rs, dmg >>
           step == [n \in 1 .. N |-> [g \in S |-> Widen(s, g)]]
           IsGrow(f) == f = [n \in 0 .. N |-> IF n = 0 THEN x ELSE Widen(s, f[n - 1])]
<1>1. N \in Nat
  BY RegionsAre, FS_CardinalityType
<1>2. x \in S
  BY DEF Fronts
<1>3. \A g \in S : Widen(s, g) \in S
  BY WidenGrows
<1> HIDE DEF N, x
<1>4. PICK f : Walked(S, N, x, step, f)
  <2>1. step \in [1 .. N -> [S -> S]]
    <3> HIDE DEF S
    <3> QED  BY <1>3
  <2> HIDE DEF S, step
  <2>2. Walk(S, N, x, step)
    BY <1>1, <1>2, <2>1 DEF Walk
  <2> QED  BY <2>2, Iterates
<1>5. f = [n \in 0 .. N |-> f[n]] /\ f[0] = x /\ \A n \in 0 .. N : f[n] \in S
  <2> HIDE DEF S, step
  <2> QED  BY <1>4 DEF Walked
<1>6. \A n \in 1 .. N : f[n] = Widen(s, f[n - 1])
  <2> TAKE n \in 1 .. N
  <2>1. n - 1 \in 0 .. N
    BY <1>1
  <2>2. f[n - 1] \in S
    BY <1>5, <2>1
  <2>3. f[n] = step[n][f[n - 1]]
    <3> HIDE DEF S, step
    <3> QED  BY <1>4 DEF Walked
  <2> HIDE DEF S
  <2> QED  BY <2>2, <2>3
<1>7. IsGrow(f)
  <2> DEFINE h == [n \in 0 .. N |-> IF n = 0 THEN x ELSE Widen(s, f[n - 1])]
  <2>1. \A n \in 0 .. N : f[n] = h[n]
    <3> TAKE n \in 0 .. N
    <3>1. n = 0 \/ n \in 1 .. N
      BY <1>1
    <3> HIDE DEF S, step
    <3> QED  BY <1>5, <1>6, <3>1
  <2>2. h = [n \in 0 .. N |-> h[n]]
    OBVIOUS
  <2>3. f = h
    <3> HIDE DEF h, S, step
    <3> QED  BY <1>5, <2>1, <2>2
  <2> QED  BY <2>3
<1>8. PICK grow : IsGrow(grow) /\ Spread(s, rs, dmg) = grow[N]
  <2> HIDE DEF S, step
  <2> QED  BY <1>7 DEF Spread, N, x
<1>81. \A n \in 0 .. N : grow[n] = IF n = 0 THEN x ELSE Widen(s, grow[n - 1])
  <2> DEFINE h == [n \in 0 .. N |-> IF n = 0 THEN x ELSE Widen(s, grow[n - 1])]
  <2>1. grow = h
    BY <1>8
  <2>2. \A n \in 0 .. N : h[n] = IF n = 0 THEN x ELSE Widen(s, grow[n - 1])
    OBVIOUS
  <2> HIDE DEF h
  <2> QED  BY <2>1, <2>2
<1> DEFINE Good(g, n) == g \in S /\ Inside(dmg, g[2]) /\ (Settled(s, g) \/ Cardinality(g[1]) >= n)
           G == { n \in Nat : n <= N => Good(grow[n], n) }
<1>9. 0 \in G
  <2>1. grow[0] = x
    BY <1>1, <1>8
  <2>2. Inside(dmg, x[2])
    BY DEF Inside, IntRect, x
  <2>3. Cardinality(x[1]) >= 0
    <3>1. x[1] = rs /\ IsFiniteSet(rs)
      BY RegionsAre, FS_Subset DEF x
    <3>2. Cardinality(rs) \in Nat
      BY <3>1, FS_CardinalityType
    <3> QED  BY <3>1, <3>2
  <2> HIDE DEF S
  <2> QED  BY <1>2, <2>1, <2>2, <2>3
<1>10. \A n \in Nat : n \in G => n + 1 \in G
  <2> TAKE n \in Nat
  <2> HAVE n \in G
  <2> SUFFICES ASSUME n + 1 <= N PROVE Good(grow[n + 1], n + 1)
    OBVIOUS
  <2>1. Good(grow[n], n)
    BY <1>1
  <2>2. n + 1 \in 0 .. N /\ n + 1 # 0 /\ n + 1 - 1 = n
    BY <1>1
  <2>3. grow[n + 1] = Widen(s, grow[n])
    <3> HIDE DEF S, step, Good, G, IsGrow
    <3> QED  BY <2>2, <1>81
  <2>4. PICK g : g = grow[n]
    OBVIOUS
  <2>5. g \in Fronts /\ Covers(s, g) /\ Inside(dmg, g[2]) /\ (Settled(s, g) \/ Cardinality(g[1]) >= n)
    BY <2>1, <2>4
  <2> HIDE DEF G, IsGrow, step
  <2>6. /\ Widen(s, g) \in S /\ g[1] \subseteq Widen(s, g)[1] /\ Inside(g[2], Widen(s, g)[2])
        /\ Settled(s, g) => Widen(s, g) = g
        /\ ~Settled(s, g) => g[1] # Widen(s, g)[1]
        /\ Widen(s, g) \in Fronts
    BY <2>5, WidenGrows
  <2>7. Inside(dmg, Widen(s, g)[2])
    <3>1. dmg \in IntRect /\ g[2] \in IntRect /\ Widen(s, g)[2] \in IntRect
      BY <2>5, <2>6 DEF Fronts
    <3>2. \A a, b, c \in IntRect : Inside(a, b) /\ Inside(b, c) => Inside(a, c)
      BY DEF IntRect, Inside
    <3> QED  BY <2>5, <2>6, <3>1, <3>2
  <2>8. Settled(s, Widen(s, g)) \/ Cardinality(Widen(s, g)[1]) >= n + 1
    <3>1. CASE Settled(s, g)
      BY <2>6, <3>1
    <3>2. CASE ~Settled(s, g)
      <4>1. g[1] \in SUBSET Regions /\ Widen(s, g)[1] \in SUBSET Regions
        BY <2>5, <2>6 DEF Fronts
      <4>2. /\ Cardinality(g[1]) \in Nat /\ Cardinality(Widen(s, g)[1]) \in Nat
            /\ Cardinality(Widen(s, g)[1]) >= Cardinality(g[1]) + 1
        BY <2>6, <3>2, <4>1, OneMoreRegion
      <4>3. Cardinality(g[1]) >= n
        BY <2>5, <3>2
      <4> QED  BY <4>2, <4>3
    <3> QED  BY <3>1, <3>2
  <2> HIDE DEF S
  <2> QED  BY <2>3, <2>4, <2>6, <2>7, <2>8
<1>11. Good(grow[N], N)
  <2>1. N \in G
    <3> HIDE DEF G
    <3> QED  BY <1>1, <1>9, <1>10, EveryNat
  <2> HIDE DEF S, step, Good
  <2> QED  BY <1>1, <2>1
<1>12. PICK g : g = grow[N]
  OBVIOUS
<1>13. g \in Fronts /\ Inside(dmg, g[2]) /\ (Settled(s, g) \/ Cardinality(g[1]) >= N)
  BY <1>11, <1>12
<1>14. Settled(s, g)
  <2>1. CASE Cardinality(g[1]) >= N
    <3>1. g[1] \in SUBSET Regions
      BY <1>13 DEF Fronts
    <3>2. Cardinality(g[1]) \in Nat /\ Cardinality(g[1]) <= Cardinality(Regions)
      <4>1. IsFiniteSet(g[1])
        BY <3>1, RegionsAre, FS_Subset
      <4> QED  BY <3>1, <4>1, RegionsAre, FS_Subset, FS_CardinalityType
    <3>3. Cardinality(Regions) = Cardinality(g[1])
      BY <1>1, <2>1, <3>2 DEF N
    <3>4. Regions = g[1]
      BY <3>1, <3>3, RegionsAre, FS_Subset
    <3> QED  BY <3>4 DEF Settled
  <2> QED  BY <1>13, <2>1
<1> QED  BY <1>8, <1>12, <1>13, <1>14

----------------------------------------------------------------------------
(* What a cell shows.                                                      *)

Seen(s, rs, c) ==
  { i \in DOMAIN Pieces(s) : /\ RegionOf(Pieces(s)[i]) \in rs
                             /\ Visible(s, Pieces(s)[i])
                             /\ In(c, PieceRect(s, Pieces(s)[i])) }

Frontmost(s, on, c) ==
  IF c = s.pointer THEN << "cursor" >>
  ELSE IF on = {} THEN << "backdrop", s.fx >>
  ELSE PieceLook(s, Pieces(s)[Least(on)])

\* The cell shows the frontmost of what is painted on it, the cursor before all.
LEMMA PaintedCell ==
  ASSUME NEW s \in Desks, NEW rs, NEW c \in Cells
  PROVE  Painted(s, rs)[c] = Frontmost(s, Seen(s, rs, c), c)
<1> DEFINE rects == [i \in Drawn(s, rs) |-> PieceRect(s, Pieces(s)[i])]
           on == { i \in Drawn(s, rs) : In(c, rects[i]) }
<1>1. on = Seen(s, rs, c)
  BY DEF Drawn, Seen
<1>2. Painted(s, rs)[c] = IF c = s.pointer THEN << "cursor" >>
                          ELSE IF on = {} THEN << "backdrop", s.fx >>
                          ELSE PieceLook(s, Pieces(s)[Least(on)])
  BY DEF Painted
<1> HIDE DEF on
<1> QED  BY <1>1, <1>2 DEF Frontmost

\* The pieces, front to back.
LEMMA PiecesAre ==
  ASSUME NEW s \in Desks
  PROVE  /\ Len(s.stack) \in Nat /\ DOMAIN Pieces(s) = 1 .. Len(s.stack) + 4
         /\ Pieces(s)[1] = "popup" /\ Pieces(s)[2] = "button" /\ Pieces(s)[3] = "bar"
         /\ \A i \in 4 .. Len(s.stack) + 3 : Pieces(s)[i] = s.stack[i - 3] /\ s.stack[i - 3] \in Wins
         /\ Pieces(s)[Len(s.stack) + 4] = "title"
<1> DEFINE Name == Wins \cup { "popup", "button", "bar", "title" }
           a == << "popup", "button", "bar" >>
           z == << "title" >>
<1>1. PICK st : st = s.stack
  OBVIOUS
<1>2. st \in Seq(Wins) /\ Len(st) \in Nat /\ \A i \in 1 .. Len(st) : st[i] \in Wins
  BY <1>1 DEF Desks
<1>3. st \in Seq(Name)
  <2>1. \A i \in 1 .. Len(st) : st[i] \in Name
    BY <1>2
  <2> QED  BY <1>2, <2>1
<1>4. a \in Seq(Name) /\ Len(a) = 3 /\ z \in Seq(Name) /\ Len(z) = 1
      /\ a[1] = "popup" /\ a[2] = "button" /\ a[3] = "bar" /\ z[1] = "title"
  OBVIOUS
<1>5. Pieces(s) = (a \o st) \o z
  BY <1>1 DEF Pieces
<1> HIDE DEF Name, a, z
<1>6. /\ a \o st \in Seq(Name) /\ Len(a \o st) = 3 + Len(st)
      /\ \A i \in 1 .. 3 : (a \o st)[i] = a[i]
      /\ \A i \in 4 .. Len(st) + 3 : (a \o st)[i] = st[i - 3]
  <2>1. /\ a \o st \in Seq(Name) /\ Len(a \o st) = Len(a) + Len(st)
        /\ \A i \in 1 .. Len(a) + Len(st) :
             (a \o st)[i] = IF i <= Len(a) THEN a[i] ELSE st[i - Len(a)]
    BY <1>3, <1>4, ConcatProperties
  <2> QED  BY <1>2, <1>4, <2>1
<1> DEFINE b == a \o st
<1> HIDE DEF b
<1>7. /\ b \o z \in Seq(Name) /\ Len(b \o z) = Len(st) + 4
      /\ \A i \in 1 .. Len(st) + 3 : (b \o z)[i] = b[i]
      /\ (b \o z)[Len(st) + 4] = z[1]
  <2>1. b \in Seq(Name) /\ Len(b) = Len(st) + 3 /\ Len(z) = 1 /\ z \in Seq(Name)
    BY <1>2, <1>4, <1>6 DEF b
  <2>2. /\ b \o z \in Seq(Name) /\ Len(b \o z) = Len(b) + Len(z)
        /\ \A i \in 1 .. Len(b) + Len(z) :
             (b \o z)[i] = IF i <= Len(b) THEN b[i] ELSE z[i - Len(b)]
    BY <2>1, ConcatProperties
  <2> QED  BY <1>2, <2>1, <2>2
<1>8. DOMAIN Pieces(s) = 1 .. Len(st) + 4
  BY <1>5, <1>7 DEF b
<1>9. /\ \A i \in 1 .. 3 : Pieces(s)[i] = a[i]
      /\ \A i \in 4 .. Len(st) + 3 : Pieces(s)[i] = st[i - 3] /\ st[i - 3] \in Wins
      /\ Pieces(s)[Len(st) + 4] = "title"
  <2>1. \A i \in 1 .. 3 : i \in 1 .. Len(st) + 3
    BY <1>2
  <2>2. \A i \in 4 .. Len(st) + 3 : i \in 1 .. Len(st) + 3 /\ i - 3 \in 1 .. Len(st)
    BY <1>2
  <2> QED  BY <1>2, <1>4, <1>5, <1>6, <1>7, <2>1, <2>2 DEF b
<1> QED  BY <1>1, <1>2, <1>4, <1>8, <1>9

\* A piece is part of its region.
LEMMA PieceInRegion ==
  ASSUME NEW s \in Desks, NEW i \in DOMAIN Pieces(s), NEW c \in Cells,
         In(c, PieceRect(s, Pieces(s)[i]))
  PROVE  /\ RegionOf(Pieces(s)[i]) \in Regions
         /\ In(c, RegionRect(s, RegionOf(Pieces(s)[i])))
<1>1. c \in Int \X Int
  BY DEF Cells
<1>2. PICK p : p = Pieces(s)[i]
  OBVIOUS
<1>3. p \in { "popup", "button", "bar", "title" } \/ p \in Wins
  <2>1. i \in 1 .. Len(s.stack) + 4 /\ Len(s.stack) \in Nat
    BY PiecesAre
  <2>2. i = 1 \/ i = 2 \/ i = 3 \/ i \in 4 .. Len(s.stack) + 3 \/ i = Len(s.stack) + 4
    BY <2>1
  <2> QED  BY <1>2, <2>2, PiecesAre
<1>4. CASE p = "popup"
  <2>1. In(c, PopupRect)
    BY <1>2, <1>4 DEF PieceRect
  <2>2. In(c, MenuRect)
    BY <1>1, <2>1, MenuHolds, Sharing
  <2> QED  BY <1>2, <1>4, <2>2, RegionRects, RegionsAre DEF RegionOf
<1>5. CASE p = "button"
  <2>1. In(c, ButtonRect)
    BY <1>2, <1>5 DEF PieceRect
  <2>2. In(c, MenuRect)
    BY <1>1, <2>1, MenuHolds, Sharing
  <2> QED  BY <1>2, <1>5, <2>2, RegionRects, RegionsAre DEF RegionOf
<1>6. CASE p \in { "bar", "title" } \/ p \in Wins
  <2>1. p # "popup" /\ p # "button" /\ p \in Regions
    BY <1>6, RegionsAre
  <2>2. RegionOf(p) = p /\ PieceRect(s, p) = RegionRect(s, p)
    BY <2>1 DEF RegionOf, PieceRect
  <2> QED  BY <1>2, <2>1, <2>2
<1> QED  BY <1>3, <1>4, <1>5, <1>6

\* Within the damage of a settled loop, everything is redrawn.
LEMMA DamagedCell ==
  ASSUME NEW s \in Desks, NEW all \in Fronts, Settled(s, all), NEW c \in Cells, In(c, all[2])
  PROVE  Painted(s, all[1])[c] = Scene(s)[c]
<1>1. \A i \in DOMAIN Pieces(s) : In(c, PieceRect(s, Pieces(s)[i])) =>
         RegionOf(Pieces(s)[i]) \in all[1] /\ RegionOf(Pieces(s)[i]) \in Regions
  <2> TAKE i \in DOMAIN Pieces(s)
  <2> HAVE In(c, PieceRect(s, Pieces(s)[i]))
  <2>1. PICK r : r = RegionOf(Pieces(s)[i])
    OBVIOUS
  <2>2. r \in Regions /\ In(c, RegionRect(s, r))
    BY <2>1, PieceInRegion
  <2>3. c \in Int \X Int /\ all[2] \in IntRect /\ RegionRect(s, r) \in IntRect
    BY <2>2, RegionRects DEF Cells, Fronts
  <2>4. Overlap(all[2], RegionRect(s, r))
    BY <2>2, <2>3, Sharing
  <2> QED  BY <2>1, <2>2, <2>4 DEF Settled
<1>2. Seen(s, all[1], c) = Seen(s, Regions, c)
  BY <1>1 DEF Seen
<1>3. PICK rs : rs = all[1]
  OBVIOUS
<1>4. Painted(s, rs)[c] = Painted(s, Regions)[c]
  <2>1. Seen(s, rs, c) = Seen(s, Regions, c)
    BY <1>2, <1>3
  <2> QED  BY <2>1, PaintedCell
<1> QED  BY <1>3, <1>4 DEF Scene

\* The damage a frame starts with holds all that changed.
LEMMA FirstDamageHolds ==
  ASSUME NEW o \in Desks, NEW s \in Desks
  PROVE  /\ FirstDamage(o, s) \in IntRect /\ Redraw(o, s) \in SUBSET Regions
         /\ Covers(s, << Redraw(o, s), FirstDamage(o, s) >>)
         /\ \A k \in Touched(o, s) : Inside(WinRect(o.place[k]), FirstDamage(o, s))
         /\ s.fx # o.fx => Inside(Rect(0, 0, ScreenW, ScreenH), FirstDamage(o, s))
         /\ s.fx = o.fx => /\ Inside(CursorRect(o.pointer), FirstDamage(o, s))
                          /\ Inside(CursorRect(s.pointer), FirstDamage(o, s))
<1> DEFINE seeds == IF s.fx # o.fx THEN { Rect(0, 0, ScreenW, ScreenH) }
                    ELSE { CursorRect(o.pointer), CursorRect(s.pointer) }
           olds == { WinRect(o.place[k]) : k \in Touched(o, s) }
           news == { RegionRect(s, r) : r \in Redraw(o, s) }
           all == (seeds \cup olds) \cup news
<1>1. FirstDamage(o, s) = RectUnion(all)
  BY DEF FirstDamage
<1>2. Touched(o, s) \in SUBSET Wins /\ Redraw(o, s) \in SUBSET Regions
  BY RegionsAre DEF Touched, Redraw
<1>3. IsFiniteSet(seeds) /\ seeds # {} /\ seeds \subseteq IntRect
  <2>1. ScreenW \in Int /\ ScreenH \in Int
    BY DamageAssumption
  <2>2. Rect(0, 0, ScreenW, ScreenH) \in IntRect
    BY <2>1, RectIs
  <2>3. CursorRect(o.pointer) \in IntRect /\ CursorRect(s.pointer) \in IntRect
    <3>1. \A d \in Desks : d.pointer[1] \in Int /\ d.pointer[2] \in Int
      BY DEF Desks, Cells
    <3> QED  BY <3>1, RectIs DEF CursorRect
  <2>4. \A a, b : IsFiniteSet({ a }) /\ IsFiniteSet({ a, b })
    <3> TAKE a, b
    <3>1. IsFiniteSet({ a }) /\ IsFiniteSet({ a } \cup { b })
      BY FS_Singleton, FS_AddElement
    <3>2. { a } \cup { b } = { a, b }
      OBVIOUS
    <3> QED  BY <3>1, <3>2
  <2> QED  BY <2>2, <2>3, <2>4
<1>4. IsFiniteSet(olds) /\ olds \subseteq IntRect
  <2>1. Touched(o, s) \in SUBSET Regions
    BY <1>2, RegionsAre
  <2>2. olds = { RegionRect(o, k) : k \in Touched(o, s) }
    <3>1. \A k \in Touched(o, s) : RegionRect(o, k) = WinRect(o.place[k])
      BY <1>2, <2>1, RegionRects
    <3> QED  BY <3>1
  <2> QED  BY <2>1, <2>2, FiniteRects
<1>5. IsFiniteSet(news) /\ news \subseteq IntRect
  BY <1>2, FiniteRects
<1>6. /\ \A k \in Touched(o, s) : WinRect(o.place[k]) \in all
      /\ \A r \in Redraw(o, s) : RegionRect(s, r) \in all
      /\ s.fx # o.fx => Rect(0, 0, ScreenW, ScreenH) \in all
      /\ s.fx = o.fx => CursorRect(o.pointer) \in all /\ CursorRect(s.pointer) \in all
  OBVIOUS
<1> HIDE DEF seeds, olds, news
<1>7. IsFiniteSet(all) /\ all # {} /\ all \subseteq IntRect
  BY <1>3, <1>4, <1>5, FS_Union
<1> HIDE DEF all
<1>8. RectUnion(all) \in IntRect /\ \A r \in all : Inside(r, RectUnion(all))
  BY <1>7, UnionHolds
<1>9. Covers(s, << Redraw(o, s), FirstDamage(o, s) >>)
  BY <1>1, <1>6, <1>8 DEF Covers
<1> QED  BY <1>1, <1>2, <1>6, <1>8, <1>9

\* What is outside a rectangle is outside those inside it.
LEMMA OutsideBoth ==
  ASSUME NEW a \in IntRect, NEW b \in IntRect, NEW c \in Int \X Int, Inside(a, b), ~In(c, b)
  PROVE  ~In(c, a)
BY Sharing

\* The FX item repaints the whole screen.
LEMMA FullScreen ==
  ASSUME NEW o \in Desks, NEW s \in Desks, NEW c \in Cells, ~In(c, FirstDamage(o, s))
  PROVE  s.fx = o.fx
<1> SUFFICES ASSUME s.fx # o.fx PROVE FALSE
  OBVIOUS
<1>1. ScreenW \in Int /\ ScreenH \in Int
  BY DamageAssumption
<1>2. In(c, Rect(0, 0, ScreenW, ScreenH))
  BY <1>1 DEF In, Rect, Cells
<1>3. Rect(0, 0, ScreenW, ScreenH) \in IntRect /\ c \in Int \X Int
  BY <1>1, RectIs DEF Cells
<1> QED  BY <1>2, <1>3, FirstDamageHolds, Sharing

\* Outside the damage a piece is on the cell if it was, and looks as it did.
LEMMA SamePiece ==
  ASSUME NEW o \in Desks, NEW s \in Desks, Len(o.stack) = Len(s.stack), NEW c \in Cells,
         ~In(c, FirstDamage(o, s)), NEW i \in DOMAIN Pieces(s)
  PROVE  LET p == Pieces(s)[i] q == Pieces(o)[i] IN
         LET now == Visible(s, p) /\ In(c, PieceRect(s, p))
             was == Visible(o, q) /\ In(c, PieceRect(o, q))
         IN (now <=> was) /\ (now => PieceLook(s, p) = PieceLook(o, q))
<1> DEFINE p == Pieces(s)[i]
           q == Pieces(o)[i]
           now == Visible(s, p) /\ In(c, PieceRect(s, p))
           was == Visible(o, q) /\ In(c, PieceRect(o, q))
<1> SUFFICES (now <=> was) /\ (now => PieceLook(s, p) = PieceLook(o, q))
  OBVIOUS
<1>1. c \in Int \X Int /\ FirstDamage(o, s) \in IntRect
  <2>1. c \in Int \X Int
    BY DEF Cells
  <2>2. FirstDamage(o, s) \in IntRect
    BY FirstDamageHolds
  <2> QED  BY <2>1, <2>2
<1>2. \A r \in Redraw(o, s) : ~In(c, RegionRect(s, r))
  <2> TAKE r \in Redraw(o, s)
  <2>1. r \in Regions /\ Inside(RegionRect(s, r), FirstDamage(o, s))
    BY FirstDamageHolds DEF Covers
  <2>2. RegionRect(s, r) \in IntRect
    BY <2>1, RegionRects
  <2> QED  BY <1>1, <2>1, <2>2, OutsideBoth
<1>3. \A k \in Wins : k \in Touched(o, s) =>
         ~In(c, WinRect(s.place[k])) /\ ~In(c, WinRect(o.place[k]))
  <2> TAKE k \in Wins
  <2> HAVE k \in Touched(o, s)
  <2>1. k \in Regions /\ k \in Redraw(o, s)
    BY RegionsAre DEF Redraw
  <2>2. RegionRect(s, k) = WinRect(s.place[k]) /\ RegionRect(o, k) = WinRect(o.place[k])
        /\ RegionRect(o, k) \in IntRect
    BY <2>1, RegionRects
  <2>3. ~In(c, WinRect(s.place[k]))
    BY <1>2, <2>1, <2>2
  <2>4. Inside(WinRect(o.place[k]), FirstDamage(o, s))
    BY FirstDamageHolds
  <2> QED  BY <1>1, <2>2, <2>3, <2>4, OutsideBoth
<1>4. \A k \in Wins : k \notin Touched(o, s) =>
         s.place[k] = o.place[k] /\ s.shown[k] = o.shown[k] /\ s.look[k] = o.look[k]
  BY DEF Touched
<1>5. Len(s.stack) \in Nat /\ i \in 1 .. Len(s.stack) + 4
  BY PiecesAre
<1>6. CASE i = 1
  <2>1. p = "popup" /\ q = "popup"
    BY <1>6, PiecesAre
  <2>2. PieceRect(s, p) = PopupRect /\ PieceRect(o, q) = PopupRect
        /\ (Visible(s, p) = s.menu) /\ (Visible(o, q) = o.menu)
    BY <2>1 DEF PieceRect, Visible
  <2>3. CASE s.menu # o.menu
    <3>1. "menu" \in Redraw(o, s) /\ "menu" \in Regions
      BY <2>3, RegionsAre DEF Redraw
    <3>2. ~In(c, MenuRect)
      BY <1>2, <3>1, RegionRects
    <3>3. ~In(c, PopupRect)
      BY <1>1, <3>2, MenuHolds, OutsideBoth
    <3> QED  BY <2>2, <3>3
  <2>4. CASE s.menu = o.menu
    <3>1. In(c, PopupRect) => s.fx = o.fx
      BY FullScreen
    <3>2. PieceLook(s, p) = << "popup", s.fx >> /\ PieceLook(o, q) = << "popup", o.fx >>
      BY <2>1 DEF PieceLook
    <3> QED  BY <2>2, <2>4, <3>1, <3>2
  <2> QED  BY <2>3, <2>4
<1>7. CASE i = 2
  <2>1. p = "button" /\ q = "button"
    BY <1>7, PiecesAre
  <2> QED  BY <2>1 DEF PieceRect, Visible, PieceLook
<1>8. CASE i = 3
  <2>1. p = "bar" /\ q = "bar"
    BY <1>8, PiecesAre
  <2>2. PieceRect(s, p) = BarRect /\ PieceRect(o, q) = BarRect /\ Visible(s, p) /\ Visible(o, q)
        /\ RegionRect(s, "bar") = BarRect
    BY <2>1 DEF PieceRect, RegionRect, Visible
  <2>3. CASE "bar" \in Redraw(o, s)
    BY <1>2, <2>2, <2>3
  <2>4. CASE "bar" \notin Redraw(o, s)
    <3>1. Touched(o, s) = {} /\ s.stack = o.stack
      BY <2>4 DEF Redraw
    <3>2. { k \in Wins : s.shown[k] } = { k \in Wins : o.shown[k] }
      BY <1>4, <3>1
    <3>3. PieceLook(s, p) = PieceLook(o, q)
      BY <2>1, <3>1, <3>2 DEF PieceLook
    <3> QED  BY <2>2, <3>3
  <2> QED  BY <2>3, <2>4
<1>9. CASE i = Len(s.stack) + 4
  <2>1. p = "title" /\ q = "title"
    BY <1>9, PiecesAre
  <2>2. PieceRect(s, p) = TitleRect /\ PieceRect(o, q) = TitleRect
        /\ (Visible(s, p) = s.banner) /\ (Visible(o, q) = o.banner)
        /\ RegionRect(s, "title") = TitleRect /\ PieceLook(s, p) = PieceLook(o, q)
    BY <2>1 DEF PieceRect, RegionRect, Visible, PieceLook
  <2>3. CASE s.banner # o.banner
    <3>1. "title" \in Redraw(o, s)
      BY <2>3 DEF Redraw
    <3> QED  BY <1>2, <2>2, <3>1
  <2>4. CASE s.banner = o.banner
    BY <2>2, <2>4
  <2> QED  BY <2>3, <2>4
<1>10. CASE i \in 4 .. Len(s.stack) + 3
  <2>1. p \in Wins /\ q \in Wins /\ p = s.stack[i - 3] /\ q = o.stack[i - 3]
    BY <1>10, PiecesAre
  <2>2. ASSUME NEW d \in Desks, NEW k \in Wins
        PROVE  /\ PieceRect(d, k) = WinRect(d.place[k]) /\ (Visible(d, k) = d.shown[k])
               /\ PieceLook(d, k) = << k, d.look[k] >>
    <3>1. k \notin { "title", "bar", "menu", "popup", "button" }
      BY RegionsAre
    <3> QED  BY <3>1 DEF PieceRect, RegionRect, Visible, PieceLook
  <2>3. CASE s.stack # o.stack
    <3>1. \A k \in Wins : k \in Redraw(o, s) /\ k \in Regions
      BY <2>3, RegionsAre DEF Redraw
    <3>2. \A k \in Wins : ~In(c, WinRect(s.place[k]))
      BY <1>2, <3>1, RegionRects
    <3>3. \A k \in Wins : ~In(c, WinRect(o.place[k]))
      BY <1>3, <1>4, <3>2
    <3> QED  BY <2>1, <2>2, <3>2, <3>3
  <2>4. CASE s.stack = o.stack
    <3>1. p = q
      BY <2>1, <2>4
    <3>2. CASE p \in Touched(o, s)
      BY <1>3, <2>1, <2>2, <3>1, <3>2
    <3>3. CASE p \notin Touched(o, s)
      BY <1>4, <2>1, <2>2, <3>1, <3>3
    <3> QED  BY <3>2, <3>3
  <2> QED  BY <2>3, <2>4
<1> QED  BY <1>5, <1>6, <1>7, <1>8, <1>9, <1>10

\* Outside the damage a full redraw would change nothing.
LEMMA UntouchedCell ==
  ASSUME NEW o \in Desks, NEW s \in Desks, Len(o.stack) = Len(s.stack), NEW c \in Cells,
         ~In(c, FirstDamage(o, s))
  PROVE  Scene(o)[c] = Scene(s)[c]
<1>1. s.fx = o.fx
  BY FullScreen
<1>2. c # o.pointer /\ c # s.pointer
  <2>1. c \in Int \X Int /\ c[1] \in Int /\ c[2] \in Int
    BY DEF Cells
  <2>2. In(c, CursorRect(c)) /\ CursorRect(c) \in IntRect
    BY <2>1, RectIs DEF In, CursorRect, Rect
  <2>3. FirstDamage(o, s) \in IntRect
    BY FirstDamageHolds
  <2>4. ~Inside(CursorRect(c), FirstDamage(o, s))
    BY <2>1, <2>2, <2>3, OutsideBoth
  <2>5. Inside(CursorRect(o.pointer), FirstDamage(o, s))
        /\ Inside(CursorRect(s.pointer), FirstDamage(o, s))
    BY <1>1, FirstDamageHolds
  <2> QED  BY <2>4, <2>5
<1>3. DOMAIN Pieces(s) = DOMAIN Pieces(o) /\ Len(s.stack) \in Nat
      /\ DOMAIN Pieces(s) = 1 .. Len(s.stack) + 4
  BY PiecesAre
<1>4. ASSUME NEW d \in Desks
      PROVE  Seen(d, Regions, c) = { i \in DOMAIN Pieces(d) : /\ Visible(d, Pieces(d)[i])
                                                            /\ In(c, PieceRect(d, Pieces(d)[i])) }
  BY PieceInRegion DEF Seen
<1>5. Seen(s, Regions, c) = Seen(o, Regions, c)
  <2>1. \A i \in DOMAIN Pieces(s) :
          (Visible(s, Pieces(s)[i]) /\ In(c, PieceRect(s, Pieces(s)[i])))
          <=> (Visible(o, Pieces(o)[i]) /\ In(c, PieceRect(o, Pieces(o)[i])))
    BY SamePiece
  <2> QED  BY <1>3, <1>4, <2>1
<1>6. \A i \in Seen(s, Regions, c) : PieceLook(s, Pieces(s)[i]) = PieceLook(o, Pieces(o)[i])
  BY <1>4, SamePiece
<1>7. Seen(s, Regions, c) # {} => Least(Seen(s, Regions, c)) \in Seen(s, Regions, c)
  <2>1. Seen(s, Regions, c) \in SUBSET (1 .. Len(s.stack) + 4)
    BY <1>3 DEF Seen
  <2>2. IsFiniteSet(1 .. Len(s.stack) + 4)
    BY <1>3, FS_Interval
  <2>3. IsFiniteSet(Seen(s, Regions, c)) /\ Seen(s, Regions, c) \subseteq Int
    BY <2>1, <2>2, FS_Subset
  <2> QED  BY <2>3, Extremes
<1>8. Frontmost(s, Seen(s, Regions, c), c) = Frontmost(o, Seen(o, Regions, c), c)
  BY <1>1, <1>2, <1>5, <1>6, <1>7 DEF Frontmost
<1> QED  BY <1>8, PaintedCell DEF Scene

\* A frame that starts from a complete screen leaves a complete one.
LEMMA FrameIsScene ==
  ASSUME NEW o \in Desks, NEW s \in Desks, Len(o.stack) = Len(s.stack), screen = Scene(o)
  PROVE  Present(o, s) = Scene(s)
<1> DEFINE all == Spread(s, Redraw(o, s), FirstDamage(o, s))
<1>1. FirstDamage(o, s) \in IntRect /\ Redraw(o, s) \in SUBSET Regions
      /\ Covers(s, << Redraw(o, s), FirstDamage(o, s) >>)
  BY FirstDamageHolds
<1>2. all \in Fronts /\ Settled(s, all) /\ Inside(FirstDamage(o, s), all[2])
  BY <1>1, SpreadSettles
<1>3. Present(o, s) = [c \in Cells |-> IF In(c, all[2]) THEN Painted(s, all[1])[c] ELSE screen[c]]
  BY DEF Present
<1>4. PICK a : a = all
  OBVIOUS
<1> HIDE DEF all
<1>5. ASSUME NEW c \in Cells
      PROVE  (IF In(c, a[2]) THEN Painted(s, a[1])[c] ELSE screen[c]) = Scene(s)[c]
  <2>1. CASE In(c, a[2])
    BY <1>2, <1>4, <2>1, DamagedCell
  <2>2. CASE ~In(c, a[2])
    <3>1. c \in Int \X Int /\ a[2] \in IntRect
      BY <1>2, <1>4 DEF Cells, Fronts
    <3>2. ~In(c, FirstDamage(o, s))
      BY <1>1, <1>2, <1>4, <2>2, <3>1, OutsideBoth
    <3>3. Scene(o)[c] = Scene(s)[c]
      BY <3>2, UntouchedCell
    <3> QED  BY <2>2, <3>3
  <2> QED  BY <2>1, <2>2
<1>6. Scene(s) = [c \in Cells |-> Scene(s)[c]]
  BY DEF Scene, Painted
<1>7. Present(o, s) = [c \in Cells |-> IF In(c, a[2]) THEN Painted(s, a[1])[c] ELSE screen[c]]
  BY <1>3, <1>4
<1> QED  BY <1>5, <1>6, <1>7

----------------------------------------------------------------------------
(* The frames of the desktop.                                              *)

DamageSpec == DamageInit /\ [][DamageFrame]_damageVars

DamageInv == desk \in Desks /\ ScreenComplete

\* What a frame's input makes of a desktop is a desktop with as many windows stacked.
LEMMA ChangesKeep ==
  ASSUME NEW o \in Desks, NEW s \in Changes(o)
  PROVE  s \in Desks /\ Len(s.stack) = Len(o.stack)
<1>1. /\ o.place \in [Wins -> Int \X Int] /\ o.shown \in [Wins -> BOOLEAN]
      /\ o.look \in [Wins -> { 0, 1 }] /\ o.stack \in Seq(Wins)
  BY DEF Desks
<1>2. CASE s = o
  BY <1>2
<1>3. ASSUME NEW k \in Wins, s = Raise(o, k) PROVE s \in Desks /\ Len(s.stack) = Len(o.stack)
  <2>1. Restacked(o.stack, k) \in Seq(Wins) /\ Len(Restacked(o.stack, k)) = Len(o.stack)
    <3>1. PICK st : st = o.stack
      OBVIOUS
    <3>2. st \in Seq(Wins) /\ Len(st) \in Nat /\ \A i \in 1 .. Len(st) : st[i] \in Wins
      BY <1>1, <3>1
    <3> DEFINE at == { i \in DOMAIN st : st[i] = k }
               up == [i \in DOMAIN st |-> IF i = 1 THEN k
                                          ELSE IF i <= Least(at) THEN st[i - 1] ELSE st[i]]
    <3>3. \A i \in 1 .. Len(st) : up[i] \in Wins
      <4> TAKE i \in 1 .. Len(st)
      <4>1. i # 1 => i - 1 \in 1 .. Len(st)
        BY <3>2
      <4> HIDE DEF at
      <4> QED  BY <3>2, <4>1
    <3>4. up \in Seq(Wins) /\ Len(up) = Len(st)
      <4>1. DOMAIN up = 1 .. Len(st) /\ up = [i \in 1 .. Len(st) |-> up[i]]
        BY <3>2
      <4> HIDE DEF up
      <4> QED  BY <3>2, <3>3, <4>1
    <3>5. Restacked(st, k) = st \/ Restacked(st, k) = up
      BY DEF Restacked
    <3> HIDE DEF up
    <3> QED  BY <3>1, <3>2, <3>4, <3>5
  <2>2. s = [o EXCEPT !.shown = [o.shown EXCEPT ![k] = TRUE], !.stack = Restacked(o.stack, k)]
    BY <1>3 DEF Raise, Desks
  <2> QED  BY <1>1, <2>1, <2>2 DEF Desks
<1>4. ASSUME NEW k \in Wins, s = Hide(o, k) \/ s = Edit(o, k)
      PROVE  s \in Desks /\ Len(s.stack) = Len(o.stack)
  <2>1. o.look[k] \in { 0, 1 }
    BY <1>1
  <2>2. 1 - o.look[k] \in { 0, 1 }
    BY <2>1
  <2>3. CASE s = Hide(o, k)
    BY <1>1, <2>3 DEF Hide, Desks
  <2>4. CASE s = Edit(o, k)
    BY <1>1, <2>2, <2>4 DEF Edit, Desks
  <2> QED  BY <1>4, <2>3, <2>4
<1>5. ASSUME NEW k \in Wins, NEW d \in Drags, s = Drag(o, k, d)
      PROVE  s \in Desks /\ Len(s.stack) = Len(o.stack)
  <2>1. ScreenW \in Int /\ ScreenH \in Int /\ WinW \in Int /\ WinH \in Int
        /\ d[1] \in Int /\ d[2] \in Int
    BY DamageAssumption
  <2>2. o.place[k][1] \in Int /\ o.place[k][2] \in Int
    BY <1>1
  <2>3. \A v, hi \in Int : Bound(0, v, hi) \in Int
    BY DEF Bound
  <2> DEFINE x == Bound(0, o.place[k][1] + d[1], ScreenW - WinW)
             y == Bound(0, o.place[k][2] + d[2], ScreenH - 1 - WinH)
  <2>4. x \in Int /\ y \in Int
    <3>1. /\ o.place[k][1] + d[1] \in Int /\ o.place[k][2] + d[2] \in Int
          /\ ScreenW - WinW \in Int /\ ScreenH - 1 - WinH \in Int
      BY <2>1, <2>2
    <3> QED  BY <2>3, <3>1
  <2> HIDE DEF x, y
  <2>5. s = o \/ s = [o EXCEPT !.place = [o.place EXCEPT ![k] = << x, y >>]]
    BY <1>5 DEF Drag, x, y, Desks
  <2>6. [o.place EXCEPT ![k] = << x, y >>] \in [Wins -> Int \X Int]
    BY <1>1, <2>4
  <2> QED  BY <1>1, <2>5, <2>6 DEF Desks
<1> QED  BY <1>2, <1>3, <1>4, <1>5 DEF Changes

\* The menu, the banner and the cursor leave the windows as they are.
LEMMA ChromeKeeps ==
  ASSUME NEW s \in Desks, NEW t \in Chrome(s), NEW p \in Pointers
  PROVE  [t EXCEPT !.pointer = p] \in Desks /\ Len([t EXCEPT !.pointer = p].stack) = Len(s.stack)
<1>1. p \in Cells
  BY DamageAssumption
<1>2. s.menu \in BOOLEAN /\ s.fx \in BOOLEAN /\ s.banner \in BOOLEAN
  BY DEF Desks
<1>3. t \in Desks /\ t.stack = s.stack
  <2>1. \/ t = s
        \/ t = [s EXCEPT !.menu = ~s.menu]
        \/ t = [s EXCEPT !.banner = FALSE]
        \/ t = [s EXCEPT !.fx = ~s.fx, !.menu = FALSE]
    BY DEF Chrome
  <2> QED  BY <1>2, <2>1 DEF Desks
<1>4. [t EXCEPT !.pointer = p] \in Desks /\ [t EXCEPT !.pointer = p].stack = t.stack
  BY <1>1, <1>3 DEF Desks
<1> QED  BY <1>3, <1>4

\* A frame that repaints its damage and, whole, every region that touches it leaves
\* the screen as a full redraw would, wherever windows were, go, open, close or rise
\* (update_and_present).
THEOREM ScreenStaysComplete == DamageSpec => []ScreenComplete
<1>1. DamageInit => DamageInv
  <2> SUFFICES ASSUME DamageInit PROVE desk \in Desks
    BY DEF DamageInv, DamageInit, ScreenComplete
  <2>1. /\ desk = [place |-> desk.place, shown |-> desk.shown, look |-> desk.look,
                   stack |-> desk.stack, pointer |-> desk.pointer, menu |-> desk.menu,
                   fx |-> desk.fx, banner |-> desk.banner]
        /\ desk.place = BootPlace /\ desk.shown = [k \in Wins |-> FALSE]
        /\ desk.look = [k \in Wins |-> 0] /\ desk.stack = BootStack
        /\ desk.pointer = BootPointer /\ desk.menu = FALSE /\ desk.fx = FALSE
        /\ desk.banner = TRUE
    BY DEF DamageInit
  <2>2. BootPlace \in [Wins -> Int \X Int]
    BY DamageAssumption DEF Corner
  <2>3. BootPointer \in Cells
    <3>1. \A n \in Nat \ {0} : n \div 2 \in 0 .. n - 1
      OBVIOUS
    <3> QED  BY <3>1, DamageAssumption DEF BootPointer, Cells
  <2> QED  BY <2>1, <2>2, <2>3, DamageAssumption DEF Desks
<1>2. DamageInv /\ [DamageFrame]_damageVars => DamageInv'
  <2> SUFFICES ASSUME DamageInv, [DamageFrame]_damageVars PROVE DamageInv'
    OBVIOUS
  <2>1. CASE UNCHANGED damageVars
    BY <2>1 DEF DamageInv, ScreenComplete, damageVars, Scene, Painted
  <2>2. CASE DamageFrame
    <3>1. PICK s \in Changes(desk), p \in Pointers : \E t \in Chrome(s) :
            desk' = [t EXCEPT !.pointer = p] /\ screen' = Present(desk, desk')
      BY <2>2 DEF DamageFrame
    <3>2. PICK t \in Chrome(s) :
            desk' = [t EXCEPT !.pointer = p] /\ screen' = Present(desk, desk')
      BY <3>1
    <3>3. s \in Desks /\ Len(s.stack) = Len(desk.stack)
      BY ChangesKeep DEF DamageInv
    <3>4. PICK n : n = desk'
      OBVIOUS
    <3>5. n \in Desks /\ Len(n.stack) = Len(desk.stack)
      BY <3>2, <3>3, <3>4, ChromeKeeps
    <3>6. Present(desk, n) = Scene(n)
      BY <3>5, FrameIsScene DEF DamageInv, ScreenComplete
    <3>7. screen' = Scene(n)
      BY <3>2, <3>4, <3>6
    <3> QED  BY <3>4, <3>5, <3>7 DEF DamageInv, ScreenComplete
  <2> QED  BY <2>1, <2>2
<1>3. DamageInv => ScreenComplete
  BY DEF DamageInv
<1> QED  BY <1>1, <1>2, <1>3, PTL DEF DamageSpec

----------------------------------------------------------------------------
(* The FILES window.                                                       *)

Slot  == {Unused} \cup {FileEntry(n) : n \in FileNames} \cup {DirEntry(n) : n \in FileNames}
Place == 1 .. TableSize
Tab   == [Place -> Slot]
Disks == [top : Tab, sub : Tab]
Paths == {"/"} \cup FileNames
Two   == {"top", "sub"}

\* A path that is there: the root's, or that of a directory of the root's table.
Here(d, path) == path = "/" \/ \E s \in Place : d.top[s] = DirEntry(path)

Used(e) == e.type # "unused"
Once(tab) == \A r, s \in Place : Used(tab[r]) /\ Used(tab[s]) /\ tab[r].name = tab[s].name => r = s

\* A disk whose tables have each name once.
Sound(d) == d \in Disks /\ Once(d.top) /\ Once(d.sub)

\* What a slot may hold.
LEMMA SlotParts ==
  /\ Unused \in Slot /\ ~Used(Unused) /\ \A e \in Slot : Used(e) <=> e # Unused
  /\ \A n \in FileNames : FileEntry(n) \in Slot /\ FileEntry(n).name = n /\ Used(FileEntry(n))
                          /\ FileEntry(n).type = "file"
  /\ \A n \in FileNames : DirEntry(n) \in Slot /\ DirEntry(n).name = n /\ Used(DirEntry(n))
                          /\ DirEntry(n).type = "dir"
  /\ \A e \in Slot : Used(e) =>
       e.name \in FileNames /\ (e = FileEntry(e.name) \/ e = DirEntry(e.name))
  /\ \A e \in Slot : e.type = "dir" => e.name \in FileNames /\ e = DirEntry(e.name)
  /\ \A e \in Slot : e.type = "file" => e.name \in FileNames /\ e = FileEntry(e.name)
  /\ \A n, m : FileEntry(n) # DirEntry(m)
<1>1. Unused.type = "unused"
  BY Zenon DEF Unused
<1>2. \A n : /\ FileEntry(n).name = n /\ FileEntry(n).type = "file"
             /\ DirEntry(n).name = n /\ DirEntry(n).type = "dir"
  BY DEF FileEntry, DirEntry
<1>3. \A e \in Slot : \/ e = Unused
                      \/ e.name \in FileNames /\ e = FileEntry(e.name)
                      \/ e.name \in FileNames /\ e = DirEntry(e.name)
  BY <1>2 DEF Slot
<1>4. \A e \in Slot : (e.type = "file" \/ e.type = "dir" \/ e.type = "unused")
  BY <1>1, <1>2 DEF Slot
<1>5. /\ "unused" # "file" /\ "unused" # "dir" /\ "file" # "dir"
  OBVIOUS
<1>6. \A n \in FileNames : FileEntry(n) \in Slot /\ DirEntry(n) \in Slot
  BY DEF Slot
<1>7. \A n, m : FileEntry(n) # DirEntry(m)
  BY <1>2, <1>5
<1>8. Unused \in Slot
  BY DEF Slot
<1>9. \A e \in Slot : Used(e) <=> e # Unused
  BY <1>1, <1>2, <1>3 DEF Used
<1>10. \A n \in FileNames : Used(FileEntry(n)) /\ Used(DirEntry(n))
  BY <1>2, <1>5 DEF Used
<1>11. \A e \in Slot : Used(e) =>
         e.name \in FileNames /\ (e = FileEntry(e.name) \/ e = DirEntry(e.name))
  BY <1>3, <1>9
<1>12. \A e \in Slot : e.type = "dir" => e.name \in FileNames /\ e = DirEntry(e.name)
  BY <1>1, <1>2, <1>3, <1>5
<1>13. \A e \in Slot : e.type = "file" => e.name \in FileNames /\ e = FileEntry(e.name)
  BY <1>1, <1>2, <1>3, <1>5
<1> QED  BY <1>1, <1>2, <1>6, <1>7, <1>8, <1>9, <1>10, <1>11, <1>12, <1>13 DEF Used

\* The two tables of a disk.
LEMMA TablesIs ==
  ASSUME NEW d \in Disks
  PROVE  /\ d["top"] = d.top /\ d["sub"] = d.sub /\ d.top \in Tab /\ d.sub \in Tab
         /\ \A t \in Two : d[t] \in Tab
BY DEF Disks, Two

\* The table of a path that is there.
LEMMA TableOf ==
  ASSUME NEW d \in Disks, NEW path
  PROVE  /\ TableAt(d, path) = IF path = "/" THEN {"top"}
                                ELSE IF Here(d, path) THEN {"sub"} ELSE {}
         /\ Here(d, path) => TheTable(d, path) = IF path = "/" THEN "top" ELSE "sub"
<1>1. DirEntry(path) \in ToSet(d.top) <=> \E s \in Place : d.top[s] = DirEntry(path)
  BY TablesIs DEF ToSet, Tab
<1>2. TableAt(d, path) = IF path = "/" THEN {"top"} ELSE IF Here(d, path) THEN {"sub"} ELSE {}
  BY <1>1 DEF TableAt, Here
<1> QED  BY <1>2 DEF TheTable, Here

\* r is d with another table at t.
Retabled(d, r, t, tab) == r[t] = tab /\ \A u \in Two : u # t => r[u] = d[u]

\* Its names are once in a table if those of the new one are.
LEMMA RetabledIs ==
  ASSUME NEW d \in Disks, Once(d.top), Once(d.sub), NEW t \in Two, NEW tab \in Tab, Once(tab)
  PROVE  Sound([d EXCEPT ![t] = tab]) /\ Retabled(d, [d EXCEPT ![t] = tab], t, tab)
<1>1. CASE t = "top"
  <2>1. PICK r : r = [d EXCEPT !["top"] = tab]
    OBVIOUS
  <2>2. r \in Disks /\ r.top = tab /\ r.sub = d.sub
    BY <2>1, TablesIs DEF Disks
  <2>3. r["top"] = tab /\ r["sub"] = d["sub"]
    BY <2>2, TablesIs
  <2> QED  BY <1>1, <2>1, <2>2, <2>3 DEF Sound, Retabled, Two
<1>2. CASE t = "sub"
  <2>1. PICK r : r = [d EXCEPT !["sub"] = tab]
    OBVIOUS
  <2>2. r \in Disks /\ r.sub = tab /\ r.top = d.top
    BY <2>1, TablesIs DEF Disks
  <2>3. r["sub"] = tab /\ r["top"] = d["top"]
    BY <2>2, TablesIs
  <2> QED  BY <1>2, <2>1, <2>2, <2>3 DEF Sound, Retabled, Two
<1> QED  BY <1>1, <1>2 DEF Two

\* A directory stays where it is when its table does, or keeps its entry.
LEMMA HereStays ==
  ASSUME NEW d \in Disks, NEW r \in Disks, NEW t \in Two, NEW tab, Retabled(d, r, t, tab),
         NEW path, Here(d, path),
         t = "top" => \A s \in Place : d.top[s] = DirEntry(path) => tab[s] = d.top[s]
  PROVE  Here(r, path)
<1>1. r["top"] = r.top /\ d["top"] = d.top
  BY TablesIs
<1>2. t = "top" => r.top = tab
  BY <1>1 DEF Retabled
<1>3. t # "top" => r.top = d.top
  BY <1>1 DEF Retabled, Two
<1> QED  BY <1>2, <1>3 DEF Here

\* Of slots there is a first.
LEMMA FirstSlot ==
  ASSUME NEW S \in SUBSET Place, S # {}
  PROVE  \E s \in S : \A r \in S : s <= r
<1>1. S \subseteq Nat
  BY FilesAssumption DEF Place
<1>2. PICK m \in S : \A k \in S : ~(<< k, m >> \in OpToRel(<, Nat))
  BY <1>1, WFMin, NatLessThanWellFounded
<1>3. \A r \in S : ~(r < m)
  BY <1>1, <1>2 DEF OpToRel
<1>4. \A r \in S : m <= r
  <2>1. \A r \in S : r \in Nat /\ m \in Nat
    BY <1>1
  <2> QED  BY <1>3, <2>1
<1> QED  BY <1>4

\* A new entry takes a free slot, and no other entry's name.
LEMMA PutIs ==
  ASSUME NEW d, Sound(d), NEW t \in Two, NEW e \in Slot, Used(e), CanPut(d, t, e)
  PROVE  /\ Sound(Put(d, t, e))
         /\ \A u \in Two : u # t => Put(d, t, e)[u] = d[u]
         /\ \A path : Here(d, path) => Here(Put(d, t, e), path)
<1>1. d \in Disks /\ Once(d.top) /\ Once(d.sub) /\ d[t] \in Tab
  BY TablesIs DEF Sound
<1>2. PICK F : F = FreeSlots(d, t)
  OBVIOUS
<1>3. F \in SUBSET Place /\ F # {} /\ \A s \in F : d[t][s] = Unused
  BY <1>2 DEF CanPut, FreeSlots, Place
<1>4. \E s \in F : \A r \in F : s <= r
  BY <1>3, FirstSlot
<1>5. PICK s \in F : s = CHOOSE x \in F : \A r \in F : x <= r
  BY <1>4
<1>6. PICK tab : tab = [d[t] EXCEPT ![s] = e]
  OBVIOUS
<1>7. Put(d, t, e) = [d EXCEPT ![t] = tab]
  BY <1>2, <1>5, <1>6 DEF Put
<1>8. tab \in Tab /\ tab[s] = e /\ \A q \in Place : q # s => tab[q] = d[t][q]
  BY <1>1, <1>3, <1>6 DEF Tab
<1>9. Once(d[t])
  BY <1>1, TablesIs DEF Two
<1>10. \A q \in Place : Used(d[t][q]) => d[t][q].name # e.name
  BY DEF CanPut, Slots, Used, Place
<1>11. Once(tab)
  BY <1>3, <1>8, <1>9, <1>10 DEF Once
<1>12. PICK r : r = [d EXCEPT ![t] = tab]
  OBVIOUS
<1>13. Sound(r) /\ Retabled(d, r, t, tab)
  BY <1>1, <1>8, <1>11, <1>12, RetabledIs
<1>14. ASSUME NEW path, Here(d, path) PROVE Here(r, path)
  <2>1. Unused # DirEntry(path)
    <3>1. DirEntry(path).type = "dir" /\ "dir" # "unused"
      BY DEF DirEntry
    <3>2. Unused.type = "unused"
      BY Zenon DEF Unused
    <3> QED  BY <3>1, <3>2
  <2>2. t = "top" => \A q \in Place : d.top[q] = DirEntry(path) => tab[q] = d.top[q]
    <3>1. d["top"] = d.top
      BY <1>1, TablesIs
    <3> QED  BY <1>3, <1>8, <2>1, <3>1
  <2>3. r \in Disks
    BY <1>13 DEF Sound
  <2> QED  BY <1>1, <1>13, <1>14, <2>2, <2>3, HereStays
<1> QED  BY <1>7, <1>12, <1>13, <1>14 DEF Retabled

\* A name is taken out of one table, and a directory of another name stays.
LEMMA DeletedIs ==
  ASSUME NEW d, Sound(d), NEW t \in Two, NEW n
  PROVE  /\ Sound(Deleted(d, t, n))
         /\ \A path : /\ Here(d, path) /\ (path # "/" /\ t = "top" => DirEntry(path).name # n)
                      => Here(Deleted(d, t, n), path)
<1>1. d \in Disks /\ Once(d.top) /\ Once(d.sub) /\ d[t] \in Tab
  BY TablesIs DEF Sound
<1>2. PICK tab : tab = [s \in Place |->
         IF s \in Slots(d, t, n) /\ (d[t][s].type = "dir" => d.sub = EmptyTable)
           THEN Unused ELSE d[t][s]]
  OBVIOUS
<1>3. Deleted(d, t, n) = [d EXCEPT ![t] = tab]
  BY <1>2 DEF Deleted, Place
<1>4. \A s \in Place : (tab[s] = Unused /\ d[t][s].name = n) \/ tab[s] = d[t][s]
  BY <1>2 DEF Slots
<1>5. tab \in Tab
  <2>1. \A s \in Place : tab[s] \in Slot
    BY <1>1, <1>4, SlotParts DEF Tab
  <2>2. tab = [s \in Place |-> tab[s]]
    BY <1>2
  <2> QED  BY <2>1, <2>2 DEF Tab
<1>6. Once(d[t])
  BY <1>1, TablesIs DEF Two
<1>7. Once(tab)
  BY <1>4, <1>6, SlotParts DEF Once
<1>8. PICK r : r = [d EXCEPT ![t] = tab]
  OBVIOUS
<1>9. Sound(r) /\ Retabled(d, r, t, tab)
  BY <1>1, <1>5, <1>7, <1>8, RetabledIs
<1>10. ASSUME NEW path, Here(d, path), path # "/" /\ t = "top" => DirEntry(path).name # n
       PROVE  Here(r, path)
  <2>1. r \in Disks
    BY <1>9 DEF Sound
  <2>2. CASE path = "/"
    BY <2>2 DEF Here
  <2>3. CASE path # "/"
    <3>1. d["top"] = d.top
      BY <1>1, TablesIs
    <3>2. t = "top" => \A s \in Place : d.top[s] = DirEntry(path) => tab[s] = d.top[s]
      BY <1>4, <1>10, <2>3, <3>1
    <3> QED  BY <1>1, <1>9, <1>10, <2>1, <3>2, HereStays
  <2> QED  BY <2>2, <2>3
<1> QED  BY <1>3, <1>8, <1>9, <1>10

\* A file taken out leaves every directory where it is: no two entries of a table have
\* the same name.
LEMMA FileGone ==
  ASSUME NEW d, Sound(d), NEW t \in Two, NEW n, FileEntry(n) \in ToSet(d[t])
  PROVE  /\ Sound(Deleted(d, t, n))
         /\ \A path : Here(d, path) => Here(Deleted(d, t, n), path)
<1>1. d \in Disks /\ Once(d.top) /\ d["top"] = d.top /\ d[t] \in Tab
  BY TablesIs DEF Sound
<1>2. PICK r \in Place : d[t][r] = FileEntry(n)
  BY <1>1 DEF ToSet, Tab
<1>3. FileEntry(n).name = n /\ FileEntry(n).type = "file"
  BY DEF FileEntry
<1>4. \A p : DirEntry(p).name = p /\ DirEntry(p).type = "dir"
  BY DEF DirEntry
<1>5. ASSUME NEW path, Here(d, path), path # "/", t = "top", DirEntry(path).name = n
      PROVE  FALSE
  <2>1. PICK s \in Place : d.top[s] = DirEntry(path)
    BY <1>5 DEF Here
  <2>2. d.top[r] = FileEntry(n)
    BY <1>1, <1>2, <1>5
  <2>3. Used(d.top[s]) /\ Used(d.top[r]) /\ d.top[s].name = d.top[r].name
    BY <1>3, <1>4, <1>5, <2>1, <2>2 DEF Used
  <2>4. r = s
    BY <1>1, <2>3 DEF Once
  <2> QED  BY <1>3, <1>4, <2>1, <2>2, <2>4
<1> QED  BY <1>5, DeletedIs

\* An entry renamed to a name no other entry of its table has.
LEMMA RenamedIs ==
  ASSUME NEW d, Sound(d), NEW t \in Two, NEW n \in FileNames, NEW m, NEW s \in Slots(d, t, m),
         Slots(d, t, n) \subseteq {s}
  PROVE  /\ Sound([d EXCEPT ![t][s].name = n])
         /\ t = "sub" => \A path : Here(d, path) => Here([d EXCEPT ![t][s].name = n], path)
<1>1. d \in Disks /\ Once(d.top) /\ Once(d.sub) /\ d[t] \in Tab
  BY TablesIs DEF Sound
<1>2. s \in Place /\ Used(d[t][s]) /\ d[t][s] \in Slot
  BY <1>1 DEF Slots, Place, Used, Tab
<1>3. PICK e : e = [d[t][s] EXCEPT !.name = n]
  OBVIOUS
<1>4. e \in Slot /\ e.name = n /\ Used(e)
  <2>1. e = FileEntry(n) \/ e = DirEntry(n)
    BY <1>2, <1>3, SlotParts DEF FileEntry, DirEntry
  <2> QED  BY <2>1, SlotParts
<1>5. PICK tab : tab = [d[t] EXCEPT ![s] = e]
  OBVIOUS
<1>6. tab \in Tab /\ tab[s] = e /\ \A q \in Place : q # s => tab[q] = d[t][q]
  BY <1>1, <1>2, <1>4, <1>5 DEF Tab
<1>7. Once(tab)
  <2>1. \A q \in Place : q # s /\ Used(d[t][q]) => d[t][q].name # n
    BY DEF Slots, Used, Place
  <2>2. Once(d[t])
    BY <1>1, TablesIs DEF Two
  <2> QED  BY <1>2, <1>4, <1>6, <2>1, <2>2 DEF Once
<1>8. PICK r : r = [d EXCEPT ![t] = tab]
  OBVIOUS
<1>9. Sound(r) /\ Retabled(d, r, t, tab) /\ r \in Disks
  BY <1>1, <1>6, <1>7, <1>8, RetabledIs DEF Sound
<1>10. [d EXCEPT ![t][s].name = n] = r
  BY <1>3, <1>5, <1>8
<1>11. t = "sub" => \A path : Here(d, path) => Here(r, path)
  BY <1>1, <1>9, HereStays
<1> QED  BY <1>9, <1>10, <1>11

\* What is left of a list has what it has left, in a list.
LEMMA WithoutIs ==
  ASSUME NEW N \in Nat, NEW s, DOMAIN s = 1 .. N, Len(s) = N, NEW x
  PROVE  Without(s, x) \in Seq({ s[k] : k \in { j \in 1 .. N : s[j] # x } })
<1> DEFINE G == Seq({ s[k] : k \in { j \in 1 .. N : s[j] # x } })
           Next(r, k) == IF s[k] = x THEN r ELSE Append(r, s[k])
           step == [k \in 1 .. N |-> [r \in G |-> Next(r, k)]]
           IsUpTo(f) == f = [k \in 0 .. N |-> IF k = 0 THEN << >> ELSE Next(f[k - 1], k)]
<1>1. << >> \in G
  OBVIOUS
<1>2. \A r \in G, k \in 1 .. N : Next(r, k) \in G
  <2> TAKE r \in G, k \in 1 .. N
  <2>1. CASE s[k] = x
    BY <2>1
  <2>2. CASE s[k] # x
    <3> DEFINE T == { s[j] : j \in { i \in 1 .. N : s[i] # x } }
    <3>1. s[k] \in T
      BY <2>2
    <3> HIDE DEF T
    <3>2. r \in Seq(T)
      BY DEF T
    <3>3. Append(r, s[k]) \in Seq(T)
      BY <3>1, <3>2
    <3> QED  BY <2>2, <3>3 DEF T
  <2> QED  BY <2>1, <2>2
<1> HIDE DEF G, Next
<1>3. step \in [1 .. N -> [G -> G]]
  BY <1>2
<1>4. PICK f : Walked(G, N, << >>, step, f)
  <2> HIDE DEF step
  <2>1. Walk(G, N, << >>, step)
    BY <1>1, <1>3 DEF Walk
  <2> QED  BY <2>1, Iterates
<1>5. f = [k \in 0 .. N |-> f[k]] /\ f[0] = << >> /\ \A k \in 0 .. N : f[k] \in G
  <2> HIDE DEF step
  <2> QED  BY <1>4 DEF Walked
<1>6. \A k \in 1 .. N : f[k] = Next(f[k - 1], k)
  <2> TAKE k \in 1 .. N
  <2>1. f[k - 1] \in G
    BY <1>5
  <2>2. f[k] = step[k][f[k - 1]]
    <3> HIDE DEF step
    <3> QED  BY <1>4 DEF Walked
  <2> QED  BY <2>1, <2>2
<1>7. IsUpTo(f)
  <2> DEFINE h == [k \in 0 .. N |-> IF k = 0 THEN << >> ELSE Next(f[k - 1], k)]
  <2>1. \A k \in 0 .. N : f[k] = h[k]
    <3> TAKE k \in 0 .. N
    <3>1. k = 0 \/ k \in 1 .. N
      OBVIOUS
    <3> QED  BY <1>5, <1>6, <3>1
  <2>2. h = [k \in 0 .. N |-> h[k]]
    OBVIOUS
  <2> HIDE DEF h
  <2>3. f = h
    BY <1>5, <2>1, <2>2
  <2> QED  BY <2>3 DEF h
<1>8. PICK up : IsUpTo(up) /\ Without(s, x) = up[N]
  <2> HIDE DEF step
  <2> QED  BY <1>7 DEF Without, Next
<1>9. \A k \in 0 .. N : up[k] = IF k = 0 THEN << >> ELSE Next(up[k - 1], k)
  <2> DEFINE h == [k \in 0 .. N |-> IF k = 0 THEN << >> ELSE Next(up[k - 1], k)]
  <2>1. up = h
    BY <1>8
  <2>2. \A k \in 0 .. N : h[k] = IF k = 0 THEN << >> ELSE Next(up[k - 1], k)
    OBVIOUS
  <2> HIDE DEF h
  <2> QED  BY <2>1, <2>2
<1> DEFINE H == { k \in Nat : k <= N => up[k] \in G }
<1>10. 0 \in H
  BY <1>1, <1>9
<1>11. \A k \in Nat : k \in H => k + 1 \in H
  <2> TAKE k \in Nat
  <2> HAVE k \in H
  <2> SUFFICES ASSUME k + 1 <= N PROVE up[k + 1] \in G
    OBVIOUS
  <2>1. up[k] \in G /\ k + 1 \in 0 .. N /\ k + 1 # 0 /\ (k + 1) - 1 = k /\ k + 1 \in 1 .. N
    OBVIOUS
  <2>2. up[k + 1] = Next(up[k], k + 1)
    BY <1>9, <2>1
  <2> QED  BY <1>2, <2>1, <2>2
<1>12. N \in H
  <2> HIDE DEF H
  <2> QED  BY <1>10, <1>11, EveryNat
<1> QED  BY <1>8, <1>12 DEF G

\* DELETE of a row in the directory shown does not take that directory.
LEMMA RowDeleted ==
  ASSUME NEW d, Sound(d), Here(d, cwd), NEW i
  PROVE  Sound(DeleteRow(d, i)) /\ Here(DeleteRow(d, i), cwd)
<1>1. PICK t \in Two : t = TheTable(d, cwd) /\ (cwd # "/" => t # "top")
  BY TableOf DEF Two, Sound
<1>2. CASE DeleteRow(d, i) = d
  BY <1>2
<1>3. CASE DeleteRow(d, i) = Deleted(d, t, rows[i].name)
  BY <1>1, <1>3, DeletedIs
<1> QED  BY <1>1, <1>2, <1>3 DEF DeleteRow

\* Nor does PASTE of a name, which may be one that it moves out of the directory above.
LEMMA NamePasted ==
  ASSUME NEW d, Sound(d), Here(d, cwd), NEW n
  PROVE  Sound(PasteOne(d, n)) /\ Here(PasteOne(d, n), cwd)
<1>1. PICK from, to, copied : from = TheTable(d, clipboard.dir) /\ to = TheTable(d, cwd)
                              /\ copied = Put(d, to, FileEntry(n))
  OBVIOUS
<1>2. CASE /\ TableAt(d, clipboard.dir) # {} /\ TableAt(d, cwd) # {}
           /\ CanPaste(d, from, to, n)
  <2>1. from \in Two /\ to \in Two
    <3>1. Here(d, clipboard.dir)
      <4>1. d \in Disks
        BY DEF Sound
      <4>2. PICK dir : dir = clipboard.dir
        OBVIOUS
      <4>3. TableAt(d, dir) # {}
        BY <1>2, <4>2
      <4>4. Here(d, dir)
        BY <4>1, <4>3, TableOf DEF Here
      <4> QED  BY <4>2, <4>4
    <3> QED  BY <1>1, <3>1, TableOf DEF Two, Sound
  <2>2. FileEntry(n) \in ToSet(d[from]) /\ CanPut(d, to, FileEntry(n))
    BY <1>2 DEF CanPaste
  <2>3. PICK s \in Place : d[from][s] = FileEntry(n) /\ d[from][s] \in Slot
    BY <2>1, <2>2, TablesIs DEF ToSet, Sound, Tab
  <2>4. FileEntry(n).type = "file" /\ FileEntry(n).name = n
    BY DEF FileEntry
  <2>5. FileEntry(n) \in Slot /\ Used(FileEntry(n))
    BY <2>3, <2>4 DEF Used
  <2>6. /\ Sound(copied) /\ Here(copied, cwd)
        /\ \A u \in Two : u # to => copied[u] = d[u]
    BY <1>1, <2>1, <2>2, <2>5, PutIs
  <2>7. from # to
    <3>1. s \in Slots(d, from, FileEntry(n).name)
      BY <2>3, <2>4 DEF Slots, Place
    <3> QED  BY <2>2, <3>1 DEF CanPut
  <2>8. FileEntry(n) \in ToSet(copied[from])
    BY <2>1, <2>2, <2>6, <2>7
  <2>9. Sound(Deleted(copied, from, n)) /\ Here(Deleted(copied, from, n), cwd)
    BY <2>1, <2>6, <2>8, FileGone
  <2>10. PasteOne(d, n) = IF clipboard.cut THEN Deleted(copied, from, n) ELSE copied
    BY <1>1, <1>2 DEF PasteOne
  <2> QED  BY <2>6, <2>9, <2>10
<1>3. CASE ~(/\ TableAt(d, clipboard.dir) # {} /\ TableAt(d, cwd) # {}
             /\ CanPaste(d, from, to, n))
  <2>1. PasteOne(d, n) = d
    BY <1>1, <1>3 DEF PasteOne
  <2> QED  BY <2>1
<1> QED  BY <1>2, <1>3

\* The directory shown is there after a DELETE of any rows.
LEMMA AllDeleted ==
  ASSUME Sound(disk), Here(disk, cwd), Len(rows) \in Nat
  PROVE  Sound(AfterDelete) /\ Here(AfterDelete, cwd)
<1> DEFINE G == { d \in Disks : Sound(d) /\ Here(d, cwd) }
           N == Len(rows)
           Next(d, k) == DeleteRow(d, k)
           step == [k \in 1 .. N |-> [d \in G |-> Next(d, k)]]
           IsUpTo(f) == f = [k \in 0 .. N |-> IF k = 0 THEN disk ELSE Next(f[k - 1], k)]
<1>1. disk \in G /\ N \in Nat
  BY DEF Sound
<1>2. \A d \in G, k \in 1 .. N : Next(d, k) \in G
  BY RowDeleted DEF Sound
<1> HIDE DEF G, Next, N
<1>3. step \in [1 .. N -> [G -> G]]
  BY <1>2
<1>4. PICK f : Walked(G, N, disk, step, f)
  <2> HIDE DEF step
  <2>1. Walk(G, N, disk, step)
    BY <1>1, <1>3 DEF Walk
  <2> QED  BY <2>1, Iterates
<1>5. f = [k \in 0 .. N |-> f[k]] /\ f[0] = disk /\ \A k \in 0 .. N : f[k] \in G
  <2> HIDE DEF step
  <2> QED  BY <1>4 DEF Walked
<1>6. \A k \in 1 .. N : f[k] = Next(f[k - 1], k)
  <2> TAKE k \in 1 .. N
  <2>1. f[k - 1] \in G
    BY <1>1, <1>5
  <2>2. f[k] = step[k][f[k - 1]]
    <3> HIDE DEF step
    <3> QED  BY <1>4 DEF Walked
  <2> QED  BY <2>1, <2>2
<1>7. IsUpTo(f)
  <2> DEFINE h == [k \in 0 .. N |-> IF k = 0 THEN disk ELSE Next(f[k - 1], k)]
  <2>1. \A k \in 0 .. N : f[k] = h[k]
    <3> TAKE k \in 0 .. N
    <3>1. k = 0 \/ k \in 1 .. N
      BY <1>1
    <3> QED  BY <1>5, <1>6, <3>1
  <2>2. h = [k \in 0 .. N |-> h[k]]
    OBVIOUS
  <2> HIDE DEF h
  <2>3. f = h
    BY <1>5, <2>1, <2>2
  <2> QED  BY <2>3 DEF h
<1>8. PICK up : IsUpTo(up) /\ AfterDelete = up[N]
  <2> HIDE DEF step
  <2> QED  BY <1>7 DEF AfterDelete, Next, N
<1>9. \A k \in 0 .. N : up[k] = IF k = 0 THEN disk ELSE Next(up[k - 1], k)
  <2> DEFINE h == [k \in 0 .. N |-> IF k = 0 THEN disk ELSE Next(up[k - 1], k)]
  <2>1. up = h
    BY <1>8
  <2>2. \A k \in 0 .. N : h[k] = IF k = 0 THEN disk ELSE Next(up[k - 1], k)
    OBVIOUS
  <2> HIDE DEF h
  <2> QED  BY <2>1, <2>2
<1> DEFINE H == { k \in Nat : k <= N => up[k] \in G }
<1>10. 0 \in H
  BY <1>1, <1>9
<1>11. \A k \in Nat : k \in H => k + 1 \in H
  <2> TAKE k \in Nat
  <2> HAVE k \in H
  <2> SUFFICES ASSUME k + 1 <= N PROVE up[k + 1] \in G
    OBVIOUS
  <2>1. up[k] \in G /\ k + 1 \in 0 .. N /\ k + 1 # 0 /\ (k + 1) - 1 = k /\ k + 1 \in 1 .. N
    BY <1>1
  <2>2. up[k + 1] = Next(up[k], k + 1)
    BY <1>9, <2>1
  <2> QED  BY <1>2, <2>1, <2>2
<1>12. N \in H
  <2> HIDE DEF H
  <2> QED  BY <1>1, <1>10, <1>11, EveryNat
<1> QED  BY <1>8, <1>12 DEF G

\* And after a PASTE of any names.
LEMMA AllPasted ==
  ASSUME Sound(disk), Here(disk, cwd), Len(clipboard.names) \in Nat
  PROVE  Sound(AfterPaste) /\ Here(AfterPaste, cwd)
<1> DEFINE G == { d \in Disks : Sound(d) /\ Here(d, cwd) }
           N == Len(clipboard.names)
           Next(d, k) == PasteOne(d, clipboard.names[k])
           step == [k \in 1 .. N |-> [d \in G |-> Next(d, k)]]
           IsUpTo(f) == f = [k \in 0 .. N |-> IF k = 0 THEN disk ELSE Next(f[k - 1], k)]
<1>1. disk \in G /\ N \in Nat
  BY DEF Sound
<1>2. \A d \in G, k \in 1 .. N : Next(d, k) \in G
  BY NamePasted DEF Sound
<1> HIDE DEF G, Next, N
<1>3. step \in [1 .. N -> [G -> G]]
  BY <1>2
<1>4. PICK f : Walked(G, N, disk, step, f)
  <2> HIDE DEF step
  <2>1. Walk(G, N, disk, step)
    BY <1>1, <1>3 DEF Walk
  <2> QED  BY <2>1, Iterates
<1>5. f = [k \in 0 .. N |-> f[k]] /\ f[0] = disk /\ \A k \in 0 .. N : f[k] \in G
  <2> HIDE DEF step
  <2> QED  BY <1>4 DEF Walked
<1>6. \A k \in 1 .. N : f[k] = Next(f[k - 1], k)
  <2> TAKE k \in 1 .. N
  <2>1. f[k - 1] \in G
    BY <1>1, <1>5
  <2>2. f[k] = step[k][f[k - 1]]
    <3> HIDE DEF step
    <3> QED  BY <1>4 DEF Walked
  <2> QED  BY <2>1, <2>2
<1>7. IsUpTo(f)
  <2> DEFINE h == [k \in 0 .. N |-> IF k = 0 THEN disk ELSE Next(f[k - 1], k)]
  <2>1. \A k \in 0 .. N : f[k] = h[k]
    <3> TAKE k \in 0 .. N
    <3>1. k = 0 \/ k \in 1 .. N
      BY <1>1
    <3> QED  BY <1>5, <1>6, <3>1
  <2>2. h = [k \in 0 .. N |-> h[k]]
    OBVIOUS
  <2> HIDE DEF h
  <2>3. f = h
    BY <1>5, <2>1, <2>2
  <2> QED  BY <2>3 DEF h
<1>8. PICK up : IsUpTo(up) /\ AfterPaste = up[N]
  <2> HIDE DEF step
  <2> QED  BY <1>7 DEF AfterPaste, Next, N
<1>9. \A k \in 0 .. N : up[k] = IF k = 0 THEN disk ELSE Next(up[k - 1], k)
  <2> DEFINE h == [k \in 0 .. N |-> IF k = 0 THEN disk ELSE Next(up[k - 1], k)]
  <2>1. up = h
    BY <1>8
  <2>2. \A k \in 0 .. N : h[k] = IF k = 0 THEN disk ELSE Next(up[k - 1], k)
    OBVIOUS
  <2> HIDE DEF h
  <2> QED  BY <2>1, <2>2
<1> DEFINE H == { k \in Nat : k <= N => up[k] \in G }
<1>10. 0 \in H
  BY <1>1, <1>9
<1>11. \A k \in Nat : k \in H => k + 1 \in H
  <2> TAKE k \in Nat
  <2> HAVE k \in H
  <2> SUFFICES ASSUME k + 1 <= N PROVE up[k + 1] \in G
    OBVIOUS
  <2>1. up[k] \in G /\ k + 1 \in 0 .. N /\ k + 1 # 0 /\ (k + 1) - 1 = k /\ k + 1 \in 1 .. N
    BY <1>1
  <2>2. up[k + 1] = Next(up[k], k + 1)
    BY <1>9, <2>1
  <2> QED  BY <1>2, <2>1, <2>2
<1>12. N \in H
  <2> HIDE DEF H
  <2> QED  BY <1>1, <1>10, <1>11, EveryNat
<1> QED  BY <1>8, <1>12 DEF G

Text == FileNames \cup {""}

\* The disk's tables are sound, and the directory shown is one; a directory in a row is
\* one, though the rows may be old.
FilesInv ==
  /\ Sound(disk) /\ cwd \in Paths /\ Here(disk, cwd)
  /\ rows \in Seq(Slot)
  /\ \A i \in DOMAIN rows : cwd = "/" /\ rows[i].type = "dir" => Here(disk, rows[i].name)
  /\ clipboard \in [dir : Paths, names : Seq(Text), cut : BOOLEAN]
  /\ unbroken => rows = Listing(disk, cwd)

\* What the listing of a directory that is there holds.
LEMMA ListingIs ==
  ASSUME NEW d, Sound(d), NEW path, Here(d, path)
  PROVE  /\ Listing(d, path) \in Seq(Slot)
         /\ \A i \in DOMAIN Listing(d, path) :
              path = "/" /\ Listing(d, path)[i].type = "dir" => Here(d, Listing(d, path)[i].name)
<1>1. PICK t \in Two : t = TheTable(d, path) /\ (path = "/" => t = "top")
  BY TableOf DEF Two, Sound
<1>2. d \in Disks /\ d[t] \in Tab /\ d["top"] = d.top
  BY TablesIs DEF Sound
<1>3. TableAt(d, path) # {}
  BY <1>2, TableOf DEF Here
<1>4. PICK r : r = Without(d[t], Unused)
  OBVIOUS
<1>5. Listing(d, path) = r
  BY <1>1, <1>3, <1>4 DEF Listing
<1>6. PICK T : T = { d[t][k] : k \in { j \in 1 .. TableSize : d[t][j] # Unused } }
  OBVIOUS
<1>7. r \in Seq(T)
  <2>1. TableSize \in Nat /\ DOMAIN d[t] = 1 .. TableSize
    BY <1>2, FilesAssumption DEF Tab, Place
  <2>2. Len(d[t]) = TableSize
    BY <1>2, <2>1 DEF Tab, Place
  <2>3. Without(d[t], Unused) \in Seq({ d[t][k] : k \in { j \in 1 .. TableSize : d[t][j] # Unused } })
    BY <2>1, <2>2, WithoutIs
  <2> QED  BY <1>4, <1>6, <2>3
<1>8. \A e \in T : e \in Slot /\ \E s \in Place : e = d[t][s]
  BY <1>2, <1>6 DEF Tab, Place
<1>9. T \subseteq Slot
  BY <1>8
<1>10. r \in Seq(Slot)
  BY <1>7, <1>9
<1>11. ASSUME NEW i \in DOMAIN r, path = "/", r[i].type = "dir" PROVE Here(d, r[i].name)
  <2>1. PICK e \in T : e = r[i]
    BY <1>7
  <2>2. PICK s \in Place : e = d.top[s]
    BY <1>1, <1>2, <1>8, <1>11
  <2>3. e = DirEntry(e.name)
    BY <1>8, <1>11, <2>1, SlotParts
  <2> QED  BY <2>1, <2>2, <2>3 DEF Here
<1> QED  BY <1>5, <1>10, <1>11

\* Reading the listing again makes the rows true.
LEMMA RereadIs ==
  ASSUME Sound(disk)', Here(disk, cwd)', cwd' \in Paths, Reread,
         clipboard' \in [dir : Paths, names : Seq(Text), cut : BOOLEAN]
  PROVE  FilesInv'
<1>1. PICK d, path, r : d = disk' /\ path = cwd' /\ r = rows'
  OBVIOUS
<1>2. Sound(d) /\ Here(d, path) /\ r = Listing(d, path)
  BY <1>1 DEF Reread
<1>3. /\ r \in Seq(Slot)
      /\ \A i \in DOMAIN r : path = "/" /\ r[i].type = "dir" => Here(d, r[i].name)
  BY <1>2, ListingIs
<1> QED  BY <1>1, <1>2, <1>3 DEF FilesInv

\* At the start both tables are empty, and so are the rows.
LEMMA FilesStart == FilesInit => FilesInv
<1> SUFFICES ASSUME FilesInit PROVE FilesInv
  OBVIOUS
<1>1. EmptyTable \in Tab /\ \A s \in Place : EmptyTable[s] = Unused
  BY SlotParts DEF EmptyTable, Tab, Place
<1>2. disk = [top |-> EmptyTable, sub |-> EmptyTable] /\ cwd = "/" /\ rows = << >>
  BY Zenon DEF FilesInit
<1>3. Sound(disk)
  <2>1. Once(EmptyTable)
    BY <1>1, SlotParts DEF Once
  <2> QED  BY <1>1, <1>2, <2>1 DEF Sound, Disks
<1>4. Here(disk, cwd) /\ cwd \in Paths
  BY <1>2 DEF Here, Paths
<1>5. rows \in Seq(Slot) /\ DOMAIN rows = {}
  <2>1. << >> \in Seq(Slot)
    OBVIOUS
  <2>2. DOMAIN << >> = {}
    OBVIOUS
  <2> QED  BY <1>2, <2>1, <2>2
<1>6. clipboard \in [dir : Paths, names : Seq(Text), cut : BOOLEAN]
  <2>1. << >> \in Seq(Text)
    <3> HIDE DEF Text
    <3> QED  OBVIOUS
  <2>2. clipboard = [dir |-> "/", names |-> << >>, cut |-> FALSE]
    BY Zenon DEF FilesInit
  <2>3. "/" \in Paths
    BY DEF Paths
  <2> QED  BY <2>1, <2>2, <2>3
<1>7. rows = Listing(disk, cwd)
  <2>1. TableAt(disk, cwd) = {"top"} /\ TheTable(disk, cwd) = "top"
    BY <1>2, <1>3, <1>4, TableOf DEF Sound
  <2>2. disk["top"] = EmptyTable
    BY <1>2
  <2>3. Listing(disk, cwd) = Without(EmptyTable, Unused)
    BY <2>1, <2>2 DEF Listing
  <2>4. Without(EmptyTable, Unused) \in
          Seq({ EmptyTable[k] : k \in { j \in 1 .. TableSize : EmptyTable[j] # Unused } })
    <3>1. TableSize \in Nat /\ DOMAIN EmptyTable = 1 .. TableSize /\ Len(EmptyTable) = TableSize
      BY <1>1, FilesAssumption DEF Tab, Place
    <3> QED  BY <3>1, WithoutIs
  <2>5. { EmptyTable[k] : k \in { j \in 1 .. TableSize : EmptyTable[j] # Unused } } = {}
    BY <1>1 DEF Place
  <2>6. \A r \in Seq({}) : r = << >>
    OBVIOUS
  <2> QED  BY <1>2, <2>3, <2>4, <2>5, <2>6
<1> QED  BY <1>3, <1>4, <1>5, <1>6, <1>7 DEF FilesInv

\* What only selects or stages rows leaves the rest.
LEMMA SelectKeeps ==
  ASSUME FilesInv, NEW i \in DOMAIN rows, ToggleRow(i)
  PROVE  FilesInv'
BY Zenon DEF ToggleRow, FilesInv

\* CUT and COPY put names into the clipboard.
LEMMA StageKeeps ==
  ASSUME FilesInv, NEW cut \in BOOLEAN, Stage(cut)
  PROVE  FilesInv'
<1>1. PICK names : names = [i \in DOMAIN rows |->
                             IF i \in mask /\ rows[i].type = "file" THEN rows[i].name ELSE ""]
  OBVIOUS
<1>2. clipboard' = [dir |-> cwd, names |-> Without(names, ""), cut |-> cut]
      /\ UNCHANGED << disk, cwd, rows, mask, unbroken >>
  BY <1>1, Zenon DEF Stage
<1>3. PICK N \in Nat : DOMAIN rows = 1 .. N /\ rows \in [1 .. N -> Slot]
  <2>1. rows \in Seq(Slot)
    BY DEF FilesInv
  <2> QED  BY <2>1
<1>4. \A i \in 1 .. N : rows[i].type = "file" => rows[i].name \in FileNames
  BY <1>3, SlotParts
<1>5. DOMAIN names = 1 .. N
  BY <1>1, <1>3, Zenon
<1>6. \A i \in 1 .. N : names[i] \in Text
  <2> TAKE i \in 1 .. N
  <2>1. names[i] = IF i \in mask /\ rows[i].type = "file" THEN rows[i].name ELSE ""
    BY <1>1, <1>3, Zenon
  <2>2. CASE i \in mask /\ rows[i].type = "file"
    <3>1. names[i] = rows[i].name
      BY <2>1, <2>2, Zenon
    <3>2. rows[i].name \in FileNames
      BY <1>4, <2>2
    <3> QED  BY <3>1, <3>2, Zenon DEF Text
  <2>3. CASE ~(i \in mask /\ rows[i].type = "file")
    <3>1. names[i] = ""
      BY <2>1, <2>3, Zenon
    <3> QED  BY <3>1, Zenon DEF Text
  <2> QED  BY <2>2, <2>3, Zenon
<1>7. PICK x : x = ""
  OBVIOUS
<1>8. Without(names, x) \in Seq(Text)
  <2> DEFINE T == { names[k] : k \in { j \in 1 .. N : names[j] # x } }
  <2>1. names = [i \in 1 .. N |-> names[i]]
    <3>1. names = [i \in DOMAIN names |-> names[i]]
      BY <1>1, Zenon
    <3> QED  BY <1>5, <3>1, Zenon
  <2>2. Len(names) = N
    <3> HIDE <1>1, <1>7
    <3>1. names \in [1 .. N -> Text]
      BY <1>6, <2>1
    <3> QED  BY <3>1
  <2>3. Without(names, x) \in Seq(T)
    <3> HIDE <1>1, <1>7
    <3> QED  BY <1>5, <2>2, WithoutIs
  <2>4. T \subseteq Text
    <3> HIDE <1>1, <1>7
    <3> QED  BY <1>6
  <2> HIDE DEF T
  <2> QED  BY <2>3, <2>4
<1>9. clipboard' = [dir |-> cwd, names |-> Without(names, x), cut |-> cut]
  BY <1>2, <1>7, Zenon
<1>10. cwd \in Paths
  BY DEF FilesInv
<1>11. clipboard' \in [dir : Paths, names : Seq(Text), cut : BOOLEAN]
  <2> HIDE <1>1, <1>7
  <2> QED  BY <1>8, <1>9, <1>10
<1> QED  BY <1>2, <1>11, Zenon DEF FilesInv

\* The window shows only directories that are there.
LEMMA ShowKeeps ==
  ASSUME FilesInv, NEW path \in Paths, Here(disk, path), ShowDirectory(path)
  PROVE  FilesInv'
<1>1. disk' = disk /\ cwd' = path /\ Reread /\ clipboard' = clipboard
  BY DEF ShowDirectory
<1>2. Sound(disk)' /\ Here(disk, cwd)'
  BY <1>1 DEF FilesInv
<1> QED  BY <1>1, <1>2, RereadIs DEF FilesInv

\* A row that was a directory when the rows were read still is one.
LEMMA OpenRowKeeps ==
  ASSUME FilesInv, NEW i \in DOMAIN rows, OpenRow(i)
  PROVE  FilesInv'
<1>1. cwd = "/" /\ rows[i].type = "dir" /\ ShowDirectory(rows[i].name)
  BY DEF OpenRow
<1>2. PICK path : path = rows[i].name
  OBVIOUS
<1>3. path \in Paths /\ Here(disk, path)
  <2>1. rows[i] \in Slot
    BY DEF FilesInv
  <2> QED  BY <1>1, <1>2, <2>1, SlotParts DEF FilesInv, Paths
<1> QED  BY <1>1, <1>2, <1>3, ShowKeeps

\* The parent and the directory itself are there.
LEMMA OpenKeeps ==
  ASSUME FilesInv, OpenParent \/ OpenAt
  PROVE  FilesInv'
<1>1. PICK path \in { "/", cwd } : ShowDirectory(path)
  BY DEF OpenParent, OpenAt
<1>2. path \in Paths /\ Here(disk, path)
  BY DEF FilesInv, Paths, Here
<1> QED  BY <1>1, <1>2, ShowKeeps

\* DELETE.
LEMMA DeleteKeeps ==
  ASSUME FilesInv, DeleteSelected
  PROVE  FilesInv'
<1>1. disk' = AfterDelete /\ cwd' = cwd /\ clipboard' = clipboard /\ Reread
  BY DEF DeleteSelected
<1>2. Sound(AfterDelete) /\ Here(AfterDelete, cwd)
  <2>1. rows \in Seq(Slot)
    BY DEF FilesInv
  <2>2. Len(rows) \in Nat
    BY <2>1
  <2> QED  BY <2>2, AllDeleted DEF FilesInv
<1> QED  BY <1>1, <1>2, RereadIs DEF FilesInv

\* PASTE, and what it leaves of the clipboard.
LEMMA PasteKeeps ==
  ASSUME FilesInv, Paste
  PROVE  FilesInv'
<1>1. disk' = AfterPaste /\ cwd' = cwd /\ Reread
      /\ clipboard' = IF clipboard.cut /\ disk' # disk
                        THEN [clipboard EXCEPT !.names = << >>] ELSE clipboard
  BY DEF Paste
<1>2. clipboard \in [dir : Paths, names : Seq(Text), cut : BOOLEAN]
  BY DEF FilesInv
<1> HIDE DEF Text
<1>3. Len(clipboard.names) \in Nat
  BY <1>2
<1>4. Sound(AfterPaste) /\ Here(AfterPaste, cwd)
  BY <1>3, AllPasted DEF FilesInv
<1>5. clipboard' \in [dir : Paths, names : Seq(Text), cut : BOOLEAN]
  <2>1. << >> \in Seq(Text)
    OBVIOUS
  <2>2. [clipboard EXCEPT !.names = << >>] \in [dir : Paths, names : Seq(Text), cut : BOOLEAN]
    BY <1>2, <2>1
  <2> QED  BY <1>1, <1>2, <2>2
<1> QED  BY <1>1, <1>4, <1>5, RereadIs DEF FilesInv

\* NEW DIR, and Enter with nothing selected.
LEMMA CreateKeeps ==
  ASSUME FilesInv, NEW e \in Slot, Used(e), Create(e)
  PROVE  FilesInv'
<1>1. PICK t \in TableAt(disk, cwd) : CanPut(disk, t, e) /\ disk' = Put(disk, t, e)
  BY DEF Create
<1>2. cwd' = cwd /\ clipboard' = clipboard /\ Reread
  BY DEF Create
<1>3. t \in Two
  BY <1>1, TableOf DEF FilesInv, Sound, Two
<1>4. Sound(Put(disk, t, e)) /\ Here(Put(disk, t, e), cwd)
  BY <1>1, <1>3, PutIs DEF FilesInv
<1> QED  BY <1>1, <1>2, <1>4, RereadIs DEF FilesInv

\* Enter with a row selected: in the directory shown, which is not its own entry.
LEMMA RenameKeeps ==
  ASSUME FilesInv, NEW n \in FileNames, EnterRenames(n)
  PROVE  FilesInv'
<1>1. cwd' = cwd /\ clipboard' = clipboard /\ Reread
  BY DEF EnterRenames
<1>2. PICK i, t, s :
        /\ t \in TableAt(disk, cwd) /\ s \in Slots(disk, t, rows[i].name)
        /\ Slots(disk, t, n) \subseteq {s} /\ disk' = [disk EXCEPT ![t][s].name = n]
  BY DEF EnterRenames
<1>3. t \in Two /\ (cwd # "/" => t = "sub")
  BY <1>2, TableOf DEF FilesInv, Sound, Two
<1>4. PICK d : d = [disk EXCEPT ![t][s].name = n]
  OBVIOUS
<1>5. Sound(d) /\ (t = "sub" => \A path : Here(disk, path) => Here(d, path))
  BY <1>2, <1>3, <1>4, RenamedIs DEF FilesInv
<1>6. Here(d, cwd)
  BY <1>3, <1>5 DEF FilesInv, Here
<1> QED  BY <1>1, <1>2, <1>4, <1>5, <1>6, RereadIs DEF FilesInv

\* What comes and goes elsewhere are files: no directory shown or listed goes.
LEMMA ElsewhereKeeps ==
  ASSUME FilesInv, Elsewhere
  PROVE  FilesInv'
<1>1. PICK t \in DOMAIN disk, n \in FileNames :
        \/ CanPut(disk, t, FileEntry(n)) /\ disk' = Put(disk, t, FileEntry(n))
        \/ FileEntry(n) \in ToSet(disk[t]) /\ disk' = Deleted(disk, t, n)
  BY DEF Elsewhere
<1>2. unbroken' = FALSE /\ cwd' = cwd /\ rows' = rows /\ clipboard' = clipboard
  BY DEF Elsewhere
<1>3. t \in Two
  BY DEF FilesInv, Sound, Disks, Two
<1>4. PICK d : d = disk'
  OBVIOUS
<1>5. Sound(disk)
  BY DEF FilesInv
<1>6. Sound(d) /\ \A path : Here(disk, path) => Here(d, path)
  <2>1. CASE CanPut(disk, t, FileEntry(n)) /\ disk' = Put(disk, t, FileEntry(n))
    <3>1. FileEntry(n) \in Slot /\ Used(FileEntry(n))
      BY SlotParts
    <3> QED  BY <1>3, <1>4, <1>5, <2>1, <3>1, PutIs
  <2>2. CASE FileEntry(n) \in ToSet(disk[t]) /\ disk' = Deleted(disk, t, n)
    BY <1>3, <1>4, <1>5, <2>2, FileGone
  <2> QED  BY <1>1, <2>1, <2>2
<1> QED  BY <1>2, <1>4, <1>6 DEF FilesInv

\* FILES never shows a listing that it could have known to be old: every button that
\* changes a directory reads it again, and the directory it shows exists, whatever rows
\* were deleted by the names of an old snapshot and whatever was pasted or moved away.
THEOREM ListingStaysFresh == FilesSpec => []ListingFresh
<1>1. FilesInv /\ [FilesNext]_filesVars => FilesInv'
  <2> SUFFICES ASSUME FilesInv, [FilesNext]_filesVars PROVE FilesInv'
    OBVIOUS
  <2>1. CASE UNCHANGED filesVars
    BY <2>1, Zenon DEF filesVars, FilesInv
  <2>2. ASSUME NEW i \in DOMAIN rows, ToggleRow(i) \/ OpenRow(i) PROVE FilesInv'
    BY <2>2, SelectKeeps, OpenRowKeeps
  <2>3. CASE OpenParent \/ OpenAt
    BY <2>3, OpenKeeps
  <2>4. CASE DeleteSelected
    BY <2>4, DeleteKeeps
  <2>5. CASE Paste
    BY <2>5, PasteKeeps
  <2>6. CASE Elsewhere
    BY <2>6, ElsewhereKeeps
  <2>7. ASSUME NEW n \in FileNames, NewDir(n) \/ EnterCreates(n) \/ EnterRenames(n)
        PROVE  FilesInv'
    <3>1. CASE NewDir(n)
      <4>1. Create(DirEntry(n))
        BY <3>1 DEF NewDir
      <4> QED  BY <4>1, SlotParts, CreateKeeps
    <3>2. CASE EnterCreates(n)
      <4>1. Create(FileEntry(n))
        BY <3>2 DEF EnterCreates
      <4> QED  BY <4>1, SlotParts, CreateKeeps
    <3>3. CASE EnterRenames(n)
      BY <3>3, RenameKeeps
    <3> QED  BY <2>7, <3>1, <3>2, <3>3
  <2>8. ASSUME NEW cut \in BOOLEAN, Stage(cut) PROVE FilesInv'
    BY <2>8, StageKeeps
  <2> QED  BY <2>1, <2>2, <2>3, <2>4, <2>5, <2>6, <2>7, <2>8, Zenon DEF FilesNext
<1>2. FilesInv => ListingFresh
  <2> SUFFICES ASSUME FilesInv, unbroken
               PROVE  TableAt(disk, cwd) # {} /\ rows = Listing(disk, cwd)
    BY DEF ListingFresh
  <2>1. disk \in Disks /\ Here(disk, cwd)
    BY DEF FilesInv, Sound
  <2>2. TableAt(disk, cwd) # {}
    BY <2>1, TableOf
  <2> QED  BY <2>2 DEF FilesInv
<1> QED  BY <1>1, <1>2, FilesStart, PTL DEF FilesSpec
=============================================================================
