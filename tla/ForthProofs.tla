---------------------------- MODULE ForthProofs ----------------------------
(***************************************************************************)
(* Theorems about the Forth interpreter (ForthVM), for every size of its   *)
(* code, dictionary and stacks and every vocabulary: what is compiled      *)
(* stays within itself, whatever failed to compile before it, and no word  *)
(* goes back without yielding.  The data stack plays no part.              *)
(***************************************************************************)
EXTENDS ForthVM, SequenceTheorems, NaturalsInduction, WellFoundedInduction, TLAPS

ForthSpec == ForthInit /\ [][ForthNext]_forthVars

----------------------------------------------------------------------------
(* Code, words and drafts.                                                 *)

Jumps == { "branch", "zbranch" }
Ops == Jumps \cup { "literal", "primitive", "word", "yield", "exit" }
Instrs == [op : Ops, arg : Int \cup Compiled]
Codes == Seq(Instrs)
Called == Names \cup { "" }
Words == [name : Called, code_start : Nat \ {0}]
Entries == [kind : { "if", "begin" }, value : Nat \ {0}]

\* A jump at i that stays within s .. e goes on, or back right after a yield.
Lands(cd, i, s, e) ==
  cd[i].arg \in s .. e /\ (cd[i].arg > i \/ (i > s /\ cd[i - 1].op = "yield"))

\* Words d, each from its start to an exit of its own at fin, one behind the other
\* in the code and all below the floor: jumps stay within, calls go to earlier words.
Shelf(cd, d, fin, floor) ==
  /\ fin \in [1 .. Len(d) -> Nat]
  /\ \A w \in 1 .. Len(d) :
       /\ fin[w] \in d[w].code_start .. floor - 1 /\ cd[fin[w]].op = "exit"
       /\ \A i \in d[w].code_start .. fin[w] - 1 : cd[i].op # "exit"
       /\ \A i \in d[w].code_start .. fin[w] :
            /\ cd[i].op \in Jumps => Lands(cd, i, d[w].code_start, fin[w])
            /\ cd[i].op = "word" => cd[i].arg \in 1 .. w - 1
  /\ \A v, w \in 1 .. Len(d) : v < w => fin[v] < d[w].code_start

\* Addresses at, innermost last, each in a word earlier than the one before.
Running(at, d, fin) ==
  \E ow \in [1 .. Len(at) -> 1 .. Len(d)] :
    /\ \A i \in 1 .. Len(at) : at[i] \in d[ow[i]].code_start .. fin[ow[i]]
    /\ \A i \in 1 .. Len(at) - 1 : ow[i + 1] < ow[i]

\* What is being compiled from cs on: a jump is waiting for its target in ct, or has
\* one up to hi; nothing ends the word, and what it calls is among the nd there are.
Waiting(ct, i) == \E j \in 1 .. Len(ct) : ct[j].kind = "if" /\ ct[j].value = i
Draft(cd, cs, ct, nd, hi) ==
  /\ cs \in 1 .. Len(cd) + 1
  /\ \A i \in cs .. Len(cd) :
       /\ cd[i].op # "exit"
       /\ cd[i].op = "word" => cd[i].arg \in 1 .. nd
       /\ cd[i].op \in Jumps => Waiting(ct, i) \/ Lands(cd, i, cs, hi)
  /\ \A j \in 1 .. Len(ct) :
       /\ ct[j].kind = "if" => ct[j].value \in cs .. Len(cd) /\ cd[ct[j].value].op \in Jumps
       /\ ct[j].kind = "begin" => ct[j].value \in cs .. Len(cd) + 1

Floor == IF mode \in { "name", "body" } THEN cstart ELSE Len(code) + 1

ForthTypes ==
  /\ code \in Codes /\ Len(code) <= CodeSize /\ dict \in Seq(Words) /\ ctrl \in Seq(Entries)
  /\ rstack \in Seq(Nat) /\ mode \in { "run", "name", "body", "exec" }
  /\ cname \in Called /\ cstart \in 1 .. Len(code) + 1 /\ ip \in Nat
  /\ (mode # "body" => ctrl = << >>) /\ (mode # "exec" => rstack = << >>)
  /\ (mode = "name" => cstart = Len(code) + 1)

ForthInv ==
  /\ ForthTypes
  /\ \E fin : /\ Shelf(code, dict, fin, Floor)
              /\ mode = "exec" => Running(Append(rstack, ip), dict, fin)
  /\ mode = "body" => Draft(code, cstart, ctrl, Len(dict), Len(code) + 1)

\* What a field of an instruction, a word or an entry is.
LEMMA FieldsAre ==
  /\ \A cd \in Codes : /\ Len(cd) \in Nat
                       /\ \A i \in 1 .. Len(cd) : cd[i].op \in Ops
  /\ \A d \in Seq(Words) : /\ Len(d) \in Nat
                           /\ \A w \in 1 .. Len(d) : d[w].code_start \in Nat \ {0}
  /\ \A ct \in Seq(Entries) : /\ Len(ct) \in Nat
                              /\ \A j \in 1 .. Len(ct) : /\ ct[j].kind \in { "if", "begin" }
                                                        /\ ct[j].value \in Nat \ {0}
<1>1. ASSUME NEW cd \in Codes
      PROVE  /\ Len(cd) \in Nat
             /\ \A i \in 1 .. Len(cd) : cd[i].op \in Ops
  <2>1. Len(cd) \in Nat /\ \A i \in 1 .. Len(cd) : cd[i] \in Instrs
    BY <1>1 DEF Codes
  <2> QED  BY <2>1 DEF Instrs
<1>2. ASSUME NEW d \in Seq(Words)
      PROVE  Len(d) \in Nat /\ \A w \in 1 .. Len(d) : d[w].code_start \in Nat \ {0}
  <2>1. Len(d) \in Nat /\ \A w \in 1 .. Len(d) : d[w] \in Words
    BY <1>2
  <2> QED  BY <2>1 DEF Words
<1>3. ASSUME NEW ct \in Seq(Entries)
      PROVE  /\ Len(ct) \in Nat
             /\ \A j \in 1 .. Len(ct) : ct[j].kind \in { "if", "begin" } /\ ct[j].value \in Nat \ {0}
  <2>1. Len(ct) \in Nat /\ \A j \in 1 .. Len(ct) : ct[j] \in Entries
    BY <1>3
  <2> QED  BY <2>1 DEF Entries
<1> QED  BY <1>1, <1>2, <1>3

\* What follows from the types of the state.
LEMMA SizesAre ==
  ASSUME ForthTypes
  PROVE  /\ Len(dict) \in Nat /\ DOMAIN dict = 1 .. Len(dict)
         /\ \A w \in 1 .. Len(dict) : dict[w].code_start \in Nat \ {0}
         /\ Len(code) \in Nat /\ Floor \in Nat \ {0} /\ Floor <= Len(code) + 1
<1>1. /\ dict \in Seq(Words) /\ code \in Codes /\ cstart \in 1 .. Len(code) + 1
  BY DEF ForthTypes
<1>2. Len(code) \in Nat
  BY <1>1 DEF Codes
<1>3. /\ Len(dict) \in Nat /\ DOMAIN dict = 1 .. Len(dict)
      /\ \A w \in 1 .. Len(dict) : dict[w].code_start \in Nat \ {0}
  BY <1>1, FieldsAre
<1>4. Floor \in Nat \ {0} /\ Floor <= Len(code) + 1
  BY <1>1, <1>2 DEF Floor
<1> QED  BY <1>2, <1>3, <1>4

\* The words stay what they are while code below the floor does.
LEMMA ShelfStays ==
  ASSUME NEW cd \in Codes, NEW nc \in Codes, NEW d \in Seq(Words), NEW fin,
         NEW floor \in Nat \ {0}, NEW floor2 \in Nat, Shelf(cd, d, fin, floor), floor <= floor2,
         \A i \in 1 .. floor - 1 : nc[i] = cd[i]
  PROVE  Shelf(nc, d, fin, floor2)
<1>1. Len(d) \in Nat /\ \A w \in 1 .. Len(d) : d[w].code_start \in Nat \ {0}
  BY FieldsAre
<1>2. fin \in [1 .. Len(d) -> Nat] /\ \A v, w \in 1 .. Len(d) : v < w => fin[v] < d[w].code_start
  BY DEF Shelf
<1>3. ASSUME NEW w \in 1 .. Len(d)
      PROVE  /\ fin[w] \in d[w].code_start .. floor2 - 1 /\ nc[fin[w]].op = "exit"
             /\ \A i \in d[w].code_start .. fin[w] - 1 : nc[i].op # "exit"
             /\ \A i \in d[w].code_start .. fin[w] :
                  /\ nc[i].op \in Jumps => Lands(nc, i, d[w].code_start, fin[w])
                  /\ nc[i].op = "word" => nc[i].arg \in 1 .. w - 1
  <2>1. PICK s \in Nat \ {0}, e \in Nat : s = d[w].code_start /\ e = fin[w]
    BY <1>1, <1>2
  <2>2. /\ e \in s .. floor - 1 /\ cd[e].op = "exit"
        /\ \A i \in s .. e - 1 : cd[i].op # "exit"
        /\ \A i \in s .. e : /\ cd[i].op \in Jumps => Lands(cd, i, s, e)
                             /\ cd[i].op = "word" => cd[i].arg \in 1 .. w - 1
    BY <2>1 DEF Shelf
  <2>3. \A i \in s .. e : nc[i] = cd[i]
    BY <2>2
  <2>4. \A i \in s .. e : nc[i].op \in Jumps => Lands(nc, i, s, e)
    <3> TAKE i \in s .. e
    <3>1. i > s => i - 1 \in s .. e
      BY <2>2
    <3> QED  BY <2>2, <2>3, <3>1 DEF Lands
  <2>5. e \in s .. floor2 - 1 /\ nc[e].op = "exit" /\ \A i \in s .. e - 1 : nc[i].op # "exit"
    BY <2>2, <2>3
  <2> QED  BY <2>1, <2>2, <2>3, <2>4, <2>5
<1> QED  BY <1>2, <1>3 DEF Shelf

\* The end of a word is the one WordsClosed means, and no address is in two words.
LEMMA WordsApart ==
  ASSUME ForthTypes, NEW fin, Shelf(code, dict, fin, Floor)
  PROVE  /\ \A w \in DOMAIN dict : LastOf(w) = fin[w] /\ BodyOf(w) = dict[w].code_start .. fin[w]
         /\ \A v, w \in DOMAIN dict, i \in Nat : i \in BodyOf(v) /\ i \in BodyOf(w) => v = w
<1>1. /\ Len(dict) \in Nat /\ DOMAIN dict = 1 .. Len(dict)
      /\ \A w \in 1 .. Len(dict) : dict[w].code_start \in Nat \ {0}
      /\ Len(code) \in Nat /\ Floor \in Nat /\ Floor <= Len(code) + 1
  BY SizesAre
<1>2. fin \in [1 .. Len(dict) -> Nat]
      /\ \A v, w \in 1 .. Len(dict) : v < w => fin[v] < dict[w].code_start
  BY DEF Shelf
<1>3. ASSUME NEW w \in DOMAIN dict
      PROVE  LastOf(w) = fin[w] /\ BodyOf(w) = dict[w].code_start .. fin[w]
  <2>1. PICK s \in Nat \ {0}, e \in Nat : s = dict[w].code_start /\ e = fin[w]
    BY <1>1, <1>2
  <2>2. e \in s .. Len(code) /\ code[e].op = "exit" /\ \A i \in s .. e - 1 : code[i].op # "exit"
    <3>1. e \in s .. Floor - 1 /\ code[e].op = "exit" /\ \A i \in s .. e - 1 : code[i].op # "exit"
      BY <1>1, <2>1 DEF Shelf
    <3> QED  BY <1>1, <3>1
  <2>3. \A f \in s .. Len(code) :
          code[f].op = "exit" /\ (\A i \in s .. f - 1 : code[i].op # "exit") => f = e
    <3> TAKE f \in s .. Len(code)
    <3>1. f < e => f \in s .. e - 1
      BY <1>1
    <3>2. e < f => e \in s .. f - 1
      BY <1>1, <2>2
    <3>3. f < e \/ e < f \/ f = e
      BY <1>1
    <3> QED  BY <2>2, <3>1, <3>2, <3>3
  <2>4. LastOf(w) = e
    BY <2>1, <2>2, <2>3 DEF LastOf
  <2> QED  BY <2>1, <2>4 DEF BodyOf
<1>4. ASSUME NEW v \in DOMAIN dict, NEW w \in DOMAIN dict, NEW i \in Nat, i \in BodyOf(v), i \in BodyOf(w)
      PROVE  v = w
  <2>1. i \in dict[v].code_start .. fin[v] /\ i \in dict[w].code_start .. fin[w]
    BY <1>3, <1>4, Zenon
  <2>2. v \in 1 .. Len(dict) /\ w \in 1 .. Len(dict)
    BY <1>1, Zenon
  <2>3. PICK a \in Nat, b \in Nat, c \in Nat, e \in Nat :
          a = dict[v].code_start /\ b = fin[v] /\ c = dict[w].code_start /\ e = fin[w]
    <3>1. dict[v].code_start \in Nat /\ dict[w].code_start \in Nat
      BY <1>1, <2>2
    <3>2. fin[v] \in Nat /\ fin[w] \in Nat
      BY <1>2, <2>2
    <3> QED  BY <3>1, <3>2, Zenon
  <2>4. (v < w => b < c) /\ (w < v => e < a)
    BY <1>2, <2>2, <2>3, Zenon
  <2>5. i \in a .. b /\ i \in c .. e
    BY <2>1, <2>3, Zenon
  <2>6. ~(v < w) /\ ~(w < v)
    BY <2>4, <2>5
  <2>7. v \in Nat /\ w \in Nat
    BY <1>1, <2>2
  <2> QED  BY <2>6, <2>7
<1> QED  BY <1>3, <1>4

\* Of the numbers in a set one is least.
LEMMA LeastOne ==
  ASSUME NEW S \in SUBSET Nat, S # {}
  PROVE  \E m \in S : \A k \in S : ~(k < m)
<1>1. PICK m \in S : \A k \in S : ~(<< k, m >> \in OpToRel(<, Nat))
  BY WFMin, NatLessThanWellFounded
<1> QED  BY <1>1 DEF OpToRel

\* A name that is defined finds an entry.
LEMMA WordFound ==
  ASSUME dict \in Seq(Words), NEW n, Defined(n)
  PROVE  Word(n) \in 1 .. Len(dict)
<1> DEFINE S == { i \in DOMAIN dict : dict[i].name = n }
<1>1. DOMAIN dict = 1 .. Len(dict) /\ Len(dict) \in Nat
  OBVIOUS
<1>2. S \in SUBSET Nat /\ S # {}
  BY <1>1 DEF Defined
<1>3. PICK m \in S : \A k \in S : ~(k < m)
  <2> HIDE DEF S
  <2> QED  BY <1>2, LeastOne
<1>4. \A j \in 1 .. m - 1 : dict[j].name # n
  <2> TAKE j \in 1 .. m - 1
  <2>1. j \in DOMAIN dict /\ j < m
    BY <1>1
  <2> QED  BY <1>3, <2>1
<1>5. \E i \in DOMAIN dict : dict[i].name = n /\ \A j \in 1 .. i - 1 : dict[j].name # n
  BY <1>4
<1> QED  BY <1>1, <1>5 DEF Word

----------------------------------------------------------------------------
(* Where a running word is.                                                *)

\* The innermost address is in a word.
LEMMA RunningInside ==
  ASSUME NEW d \in Seq(Words), NEW fin \in [1 .. Len(d) -> Nat], NEW rs \in Seq(Nat), NEW a \in Nat,
         Running(Append(rs, a), d, fin)
  PROVE  \E w \in 1 .. Len(d) : a \in d[w].code_start .. fin[w]
<1>1. PICK at : at = Append(rs, a)
  OBVIOUS
<1>2. Len(at) = Len(rs) + 1 /\ at[Len(rs) + 1] = a /\ Len(rs) \in Nat
  BY <1>1
<1>3. PICK ow \in [1 .. Len(at) -> 1 .. Len(d)] :
        \A i \in 1 .. Len(at) : at[i] \in d[ow[i]].code_start .. fin[ow[i]]
  BY <1>1 DEF Running
<1>4. Len(rs) + 1 \in 1 .. Len(at)
  BY <1>2
<1> QED  BY <1>2, <1>3, <1>4

\* Within a word the innermost address moves freely.
LEMMA RunningMoves ==
  ASSUME NEW d \in Seq(Words), NEW fin \in [1 .. Len(d) -> Nat], NEW rs \in Seq(Nat),
         NEW a \in Nat, NEW b \in Nat, Running(Append(rs, a), d, fin),
         \A w \in 1 .. Len(d) :
           a \in d[w].code_start .. fin[w] => b \in d[w].code_start .. fin[w]
  PROVE  Running(Append(rs, b), d, fin)
<1>1. PICK at, bt : at = Append(rs, a) /\ bt = Append(rs, b)
  OBVIOUS
<1>2. /\ Len(at) = Len(rs) + 1 /\ Len(bt) = Len(at) /\ Len(rs) \in Nat
      /\ \A i \in 1 .. Len(at) :
           (i <= Len(rs) /\ bt[i] = at[i]) \/ (i = Len(rs) + 1 /\ at[i] = a /\ bt[i] = b)
  BY <1>1
<1>3. PICK ow \in [1 .. Len(at) -> 1 .. Len(d)] :
        /\ \A i \in 1 .. Len(at) : at[i] \in d[ow[i]].code_start .. fin[ow[i]]
        /\ \A i \in 1 .. Len(at) - 1 : ow[i + 1] < ow[i]
  BY <1>1 DEF Running
<1>4. \A i \in 1 .. Len(bt) : bt[i] \in d[ow[i]].code_start .. fin[ow[i]]
  <2> TAKE i \in 1 .. Len(bt)
  <2>1. i \in 1 .. Len(at) /\ ow[i] \in 1 .. Len(d)
    BY <1>2
  <2>2. PICK w \in 1 .. Len(d) : w = ow[i]
    BY <2>1
  <2>3. at[i] \in d[w].code_start .. fin[w]
    BY <1>3, <2>1, <2>2
  <2>4. at[i] = a /\ bt[i] = b => bt[i] \in d[w].code_start .. fin[w]
    BY <2>3
  <2> QED  BY <1>2, <2>1, <2>2, <2>3, <2>4
<1>5. Running(bt, d, fin)
  BY <1>2, <1>3, <1>4 DEF Running
<1> QED  BY <1>1, <1>5

\* A word begins by itself at its start.
LEMMA RunningStarts ==
  ASSUME NEW d \in Seq(Words), NEW fin \in [1 .. Len(d) -> Nat], NEW v \in 1 .. Len(d),
         d[v].code_start <= fin[v]
  PROVE  Running(Append(<< >>, d[v].code_start), d, fin)
<1>1. PICK s \in Nat : s = d[v].code_start
  <2>1. d[v].code_start \in Nat
    BY FieldsAre
  <2> QED  BY <2>1
<1>2. PICK at : at = Append(<< >>, s)
  OBVIOUS
<1>3. Len(at) = 1 /\ at[1] = s
  BY <1>2
<1>4. s \in d[v].code_start .. fin[v]
  BY <1>1
<1>5. PICK ow \in [1 .. 1 -> 1 .. Len(d)] : ow = [i \in 1 .. 1 |-> v]
  OBVIOUS
<1>6. \A i \in 1 .. Len(at) : i = 1 /\ ow[i] = v
  BY <1>3, <1>5
<1>7. 1 .. Len(at) - 1 = {}
  BY <1>3
<1>8. Running(at, d, fin)
  BY <1>3, <1>4, <1>5, <1>6, <1>7 DEF Running
<1> QED  BY <1>2, <1>1, <1>8

\* The places up to the one or two behind n.
LEMMA LastOne == \A n \in Nat : \A i \in 1 .. n + 1 : i \in 1 .. n \/ i = n + 1
OBVIOUS

LEMMA LastTwo == \A n \in Nat : \A i \in 1 .. n + 2 : i \in 1 .. n \/ i = n + 1 \/ i = n + 2
OBVIOUS

\* A call of an earlier word, from a place that is not its caller's last.
LEMMA RunningCalls ==
  ASSUME NEW d \in Seq(Words), NEW fin \in [1 .. Len(d) -> Nat], NEW rs \in Seq(Nat),
         NEW a \in Nat, NEW b \in Nat, NEW v \in 1 .. Len(d), Running(Append(rs, a), d, fin),
         b \in d[v].code_start .. fin[v],
         \A w \in 1 .. Len(d) :
           a \in d[w].code_start .. fin[w] => a + 1 \in d[w].code_start .. fin[w] /\ v < w
  PROVE  Running(Append(Append(rs, a + 1), b), d, fin)
<1>1. PICK at, bt : at = Append(rs, a) /\ bt = Append(Append(rs, a + 1), b)
  OBVIOUS
<1>2. PICK n \in Nat : n = Len(rs)
  OBVIOUS
<1>3. /\ Len(at) = n + 1 /\ Len(bt) = n + 2
      /\ at[n + 1] = a /\ bt[n + 1] = a + 1 /\ bt[n + 2] = b
      /\ \A i \in 1 .. n : bt[i] = at[i]
  BY <1>1, <1>2
<1>4. PICK ow \in [1 .. n + 1 -> 1 .. Len(d)] :
        /\ \A i \in 1 .. n + 1 : at[i] \in d[ow[i]].code_start .. fin[ow[i]]
        /\ \A i \in 1 .. n : ow[i + 1] < ow[i]
  <2>1. PICK ow \in [1 .. Len(at) -> 1 .. Len(d)] :
          /\ \A i \in 1 .. Len(at) : at[i] \in d[ow[i]].code_start .. fin[ow[i]]
          /\ \A i \in 1 .. Len(at) - 1 : ow[i + 1] < ow[i]
    BY <1>1 DEF Running
  <2>2. Len(at) = n + 1
    BY <1>3, Zenon
  <2>3. Len(at) - 1 = n
    BY <2>2
  <2> QED  BY <2>1, <2>2, <2>3, Zenon
<1>5. n + 1 \in 1 .. n + 1
  OBVIOUS
<1>51. PICK w \in 1 .. Len(d) : w = ow[n + 1]
  <2>1. ow[n + 1] \in 1 .. Len(d)
    BY <1>5
  <2> QED  BY <2>1, Zenon
<1>6. a + 1 \in d[w].code_start .. fin[w] /\ v < w
  <2>1. at[n + 1] \in d[ow[n + 1]].code_start .. fin[ow[n + 1]]
    BY <1>4, <1>5, Zenon
  <2>2. a \in d[w].code_start .. fin[w]
    BY <1>3, <1>51, <2>1, Zenon
  <2> QED  BY <2>2, Zenon
<1>7. PICK own \in [1 .. n + 2 -> 1 .. Len(d)] :
        own = [i \in 1 .. n + 2 |-> IF i = n + 2 THEN v ELSE ow[i]]
  <2>1. \A i \in 1 .. n + 2 : i # n + 2 => i \in 1 .. n + 1
    OBVIOUS
  <2>2. \A i \in 1 .. n + 2 : (IF i = n + 2 THEN v ELSE ow[i]) \in 1 .. Len(d)
    BY <2>1
  <2> QED  BY <2>2
<1>8. /\ own[n + 2] = v /\ own[n + 1] = w
      /\ \A i \in 1 .. n + 1 : own[i] = ow[i]
  <2>1. n + 2 \in 1 .. n + 2 /\ n + 1 \in 1 .. n + 2 /\ n + 1 # n + 2
        /\ \A i \in 1 .. n + 1 : i \in 1 .. n + 2 /\ i # n + 2
    OBVIOUS
  <2> QED  BY <1>51, <1>7, <2>1
<1>9. \A i \in 1 .. n + 2 : bt[i] \in d[own[i]].code_start .. fin[own[i]]
  <2> TAKE i \in 1 .. n + 2
  <2>1. i \in 1 .. n \/ i = n + 1 \/ i = n + 2
    BY LastTwo, Zenon
  <2>2. CASE i \in 1 .. n
    <3>1. i \in 1 .. n + 1
      BY <2>2
    <3>2. bt[i] = at[i] /\ own[i] = ow[i] /\ at[i] \in d[ow[i]].code_start .. fin[ow[i]]
      BY <1>3, <1>4, <1>8, <2>2, <3>1
    <3> QED  BY <3>2
  <2>3. CASE i = n + 1
    BY <1>3, <1>6, <1>8, <2>3
  <2>4. CASE i = n + 2
    BY <1>3, <1>8, <2>4
  <2> QED  BY <2>1, <2>2, <2>3, <2>4
<1>10. \A i \in 1 .. n + 1 : own[i + 1] < own[i]
  <2> TAKE i \in 1 .. n + 1
  <2>1. i \in 1 .. n \/ i = n + 1
    BY LastOne, Zenon
  <2>2. CASE i \in 1 .. n
    <3>1. i \in 1 .. n + 1 /\ i + 1 \in 1 .. n + 1
      BY <2>2
    <3>2. own[i + 1] = ow[i + 1] /\ own[i] = ow[i]
      BY <1>8, <3>1, Zenon
    <3>3. ow[i + 1] < ow[i]
      BY <1>4, <2>2, Zenon
    <3> QED  BY <3>2, <3>3, Zenon
  <2>3. CASE i = n + 1
    <3>1. own[i + 1] = v /\ own[i] = w
      BY <1>8, <2>3
    <3> QED  BY <1>6, <3>1
  <2> QED  BY <2>1, <2>2, <2>3
<1>11. Running(bt, d, fin)
  <2>1. Len(bt) = n + 2
    BY <1>3, Zenon
  <2>2. Len(bt) - 1 = n + 1
    BY <2>1
  <2> QED  BY <1>9, <1>10, <2>1, <2>2, Zenon DEF Running
<1> QED  BY <1>1, <1>11

\* A return goes where the caller waits.
LEMMA RunningReturns ==
  ASSUME NEW d \in Seq(Words), NEW fin \in [1 .. Len(d) -> Nat], NEW rs \in Seq(Nat),
         NEW a \in Nat, rs # << >>, Running(Append(rs, a), d, fin)
  PROVE  /\ rs[Len(rs)] \in Nat /\ SubSeq(rs, 1, Len(rs) - 1) \in Seq(Nat)
         /\ Running(Append(SubSeq(rs, 1, Len(rs) - 1), rs[Len(rs)]), d, fin)
<1>1. PICK n \in Nat \ {0} : n = Len(rs)
  OBVIOUS
<1>2. rs[n] \in Nat /\ SubSeq(rs, 1, n - 1) \in Seq(Nat)
  BY <1>1
<1>3. Append(SubSeq(rs, 1, n - 1), rs[n]) = rs
  BY <1>1, SMTT(30)
<1>4. PICK at : at = Append(rs, a)
  OBVIOUS
<1>5. Len(at) = n + 1 /\ \A i \in 1 .. n : at[i] = rs[i]
  BY <1>1, <1>4
<1>6. PICK ow \in [1 .. n + 1 -> 1 .. Len(d)] :
        /\ \A i \in 1 .. n + 1 : at[i] \in d[ow[i]].code_start .. fin[ow[i]]
        /\ \A i \in 1 .. n : ow[i + 1] < ow[i]
  <2>1. PICK ow \in [1 .. Len(at) -> 1 .. Len(d)] :
          /\ \A i \in 1 .. Len(at) : at[i] \in d[ow[i]].code_start .. fin[ow[i]]
          /\ \A i \in 1 .. Len(at) - 1 : ow[i + 1] < ow[i]
    BY <1>4 DEF Running
  <2>2. Len(at) = n + 1
    BY <1>5, Zenon
  <2>3. Len(at) - 1 = n
    BY <2>2
  <2> QED  BY <2>1, <2>2, <2>3, Zenon
<1>7. PICK own \in [1 .. n -> 1 .. Len(d)] : own = [i \in 1 .. n |-> ow[i]]
  <2>1. \A i \in 1 .. n : i \in 1 .. n + 1
    OBVIOUS
  <2>2. \A i \in 1 .. n : ow[i] \in 1 .. Len(d)
    BY <2>1
  <2> QED  BY <2>2
<1>8. \A i \in 1 .. n : rs[i] \in d[own[i]].code_start .. fin[own[i]]
  <2> TAKE i \in 1 .. n
  <2>1. i \in 1 .. n + 1 /\ own[i] = ow[i] /\ at[i] = rs[i]
    BY <1>5, <1>7
  <2>2. at[i] \in d[ow[i]].code_start .. fin[ow[i]]
    BY <1>6, <2>1
  <2> QED  BY <2>1, <2>2
<1>9. \A i \in 1 .. n - 1 : own[i + 1] < own[i]
  <2> TAKE i \in 1 .. n - 1
  <2>1. i \in 1 .. n /\ i + 1 \in 1 .. n
    OBVIOUS
  <2> QED  BY <1>6, <1>7, <2>1
<1>10. Running(rs, d, fin)
  BY <1>1, <1>8, <1>9 DEF Running
<1> QED  BY <1>1, <1>2, <1>3, <1>10

\* What a word's instruction may do next.
LEMMA InsideWord ==
  ASSUME NEW cd \in Codes, NEW d \in Seq(Words), NEW fin, NEW floor \in Nat,
         Shelf(cd, d, fin, floor), floor <= Len(cd) + 1, NEW a \in Nat, NEW w \in 1 .. Len(d),
         a \in d[w].code_start .. fin[w]
  PROVE  /\ a \in 1 .. Len(cd)
         /\ cd[a].op # "exit" => a + 1 \in d[w].code_start .. fin[w]
         /\ cd[a].op \in Jumps => Lands(cd, a, d[w].code_start, fin[w])
         /\ cd[a].op = "word" => cd[a].arg \in 1 .. w - 1
<1>1. PICK s \in Nat \ {0}, e \in Nat : s = d[w].code_start /\ e = fin[w]
  BY FieldsAre DEF Shelf
<1>2. /\ e \in s .. floor - 1 /\ cd[e].op = "exit"
      /\ \A i \in s .. e : /\ cd[i].op \in Jumps => Lands(cd, i, s, e)
                           /\ cd[i].op = "word" => cd[i].arg \in 1 .. w - 1
  BY <1>1 DEF Shelf
<1>3. a \in s .. e /\ Len(cd) \in Nat
  BY <1>1, FieldsAre
<1>4. a # e => a + 1 \in s .. e
  BY <1>3
<1>5. a \in 1 .. Len(cd)
  BY <1>2, <1>3
<1>6. cd[a].op # "exit" => a + 1 \in s .. e
  BY <1>2, <1>4, Zenon
<1>7. /\ cd[a].op \in Jumps => Lands(cd, a, s, e)
      /\ cd[a].op = "word" => cd[a].arg \in 1 .. w - 1
  BY <1>2, <1>3, Zenon
<1> QED  BY <1>1, <1>5, <1>6, <1>7, Zenon

----------------------------------------------------------------------------
(* What is compiled.                                                       *)

\* Code with more behind it.
LEMMA CodeGrows ==
  ASSUME NEW cd \in Codes, NEW ins \in Codes
  PROVE  /\ cd \o ins \in Codes /\ Len(cd \o ins) = Len(cd) + Len(ins)
         /\ \A i \in 1 .. Len(cd) : (cd \o ins)[i] = cd[i]
         /\ \A j \in 1 .. Len(ins) : (cd \o ins)[Len(cd) + j] = ins[j]
<1>1. cd \o ins \in Codes /\ Len(cd \o ins) = Len(cd) + Len(ins) /\ Len(cd) \in Nat /\ Len(ins) \in Nat
  BY DEF Codes
<1>2. ASSUME NEW i \in 1 .. Len(cd)
      PROVE  (cd \o ins)[i] = cd[i]
  BY <1>1 DEF Codes
<1>3. ASSUME NEW j \in 1 .. Len(ins)
      PROVE  (cd \o ins)[Len(cd) + j] = ins[j]
  BY <1>1 DEF Codes
<1> QED  BY <1>1, <1>2, <1>3

\* A draft goes on: what is there stays, but that a jump may get a target ahead; each
\* jump that loses its entry has one, and each new entry is an old one or of what is new.
GoesOn(cd, base, ins, cs, ct, nct, nd, hi) ==
  /\ \A i \in cs .. Len(cd) :
       /\ base[i].op = cd[i].op
       /\ base[i] = cd[i] \/ (base[i].op \in Jumps /\ base[i].arg \in i + 1 .. hi)
       /\ Waiting(ct, i) => Waiting(nct, i) \/ base[i].arg \in i + 1 .. hi
  /\ \A j \in 1 .. Len(ins) :
       /\ ins[j].op # "exit" /\ (ins[j].op = "word" => ins[j].arg \in 1 .. nd)
       /\ ins[j].op \in Jumps =>
            Waiting(nct, Len(cd) + j) \/ Lands(base \o ins, Len(cd) + j, cs, hi)
  /\ \A j \in 1 .. Len(nct) :
       \/ \E k \in 1 .. Len(ct) : nct[j] = ct[k]
       \/ \E k \in 1 .. Len(ins) : nct[j] = Entry("if", Len(cd) + k) /\ ins[k].op \in Jumps
       \/ nct[j] = Entry("begin", Len(cd) + 1)

\* It remains a draft.
LEMMA DraftGrows ==
  ASSUME NEW cd \in Codes, NEW base \in Codes, NEW ins \in Codes, NEW ct \in Seq(Entries),
         NEW nct \in Seq(Entries), NEW cs, NEW nd, NEW hi \in Nat,
         Len(base) = Len(cd), hi = Len(cd) + Len(ins) + 1, Draft(cd, cs, ct, nd, Len(cd) + 1),
         GoesOn(cd, base, ins, cs, ct, nct, nd, hi)
  PROVE  Draft(base \o ins, cs, nct, nd, hi)
<1>1. PICK n \in Nat, m \in Nat : n = Len(cd) /\ m = Len(ins)
  <2>1. Len(cd) \in Nat /\ Len(ins) \in Nat
    BY FieldsAre
  <2> QED  BY <2>1
<1>2. PICK nc : nc = base \o ins
  OBVIOUS
<1>3. /\ nc \in Codes /\ Len(nc) = n + m
      /\ \A i \in 1 .. n : nc[i] = base[i]
      /\ \A j \in 1 .. m : nc[n + j] = ins[j]
  <2>1. /\ base \o ins \in Codes /\ Len(base \o ins) = Len(base) + Len(ins)
        /\ \A i \in 1 .. Len(base) : (base \o ins)[i] = base[i]
        /\ \A j \in 1 .. Len(ins) : (base \o ins)[Len(base) + j] = ins[j]
    BY CodeGrows
  <2>2. Len(base) = n /\ Len(ins) = m
    BY <1>1
  <2> QED  BY <1>2, <2>1, <2>2
<1>4. /\ cs \in 1 .. n + 1 /\ hi = n + m + 1
      /\ \A i \in cs .. n : /\ cd[i].op # "exit"
                            /\ cd[i].op = "word" => cd[i].arg \in 1 .. nd
                            /\ cd[i].op \in Jumps => Waiting(ct, i) \/ Lands(cd, i, cs, n + 1)
      /\ \A k \in 1 .. Len(ct) :
           /\ ct[k].kind = "if" => ct[k].value \in cs .. n /\ cd[ct[k].value].op \in Jumps
           /\ ct[k].kind = "begin" => ct[k].value \in cs .. n + 1
  BY <1>1 DEF Draft
<1>41. cs \in 1 .. n + 1 /\ hi = n + m + 1
  BY <1>4, Zenon
<1>42. \A i \in cs .. n :
         /\ base[i].op = cd[i].op
         /\ base[i] = cd[i] \/ (base[i].op \in Jumps /\ base[i].arg \in i + 1 .. hi)
         /\ Waiting(ct, i) => Waiting(nct, i) \/ base[i].arg \in i + 1 .. hi
  BY <1>1, Zenon DEF GoesOn
<1>43. \A i \in cs .. n : i \in 1 .. n
  BY <1>41
<1>5. ASSUME NEW i \in cs .. n
      PROVE  /\ nc[i].op # "exit" /\ (nc[i].op = "word" => nc[i].arg \in 1 .. nd)
             /\ nc[i].op \in Jumps => Waiting(nct, i) \/ Lands(nc, i, cs, hi)
  <2>1. i \in 1 .. n /\ nc[i] = base[i] /\ base[i].op = cd[i].op
    BY <1>3, <1>42, <1>43, Zenon
  <2>2. nc[i].op = "word" => nc[i].arg \in 1 .. nd
    <3>1. nc[i].op = "word" => base[i].op \notin Jumps
      BY <2>1 DEF Jumps
    <3>2. nc[i].op = "word" => base[i] = cd[i]
      BY <1>42, <3>1, Zenon
    <3> QED  BY <1>4, <2>1, <3>2, Zenon
  <2>3. ASSUME nc[i].op \in Jumps, ~Waiting(nct, i)
        PROVE  Lands(nc, i, cs, hi)
    <3>1. CASE base[i].arg \in i + 1 .. hi
      <4>1. PICK g : g = base[i].arg
        OBVIOUS
      <4>2. g \in cs .. hi /\ g > i
        <5>1. g \in i + 1 .. hi
          BY <3>1, <4>1, Zenon
        <5> QED  BY <1>41, <5>1
      <4> QED  BY <2>1, <4>1, <4>2, Zenon DEF Lands
    <3>2. CASE base[i].arg \notin i + 1 .. hi
      <4>1. base[i] = cd[i] /\ ~Waiting(ct, i)
        BY <1>42, <2>3, <3>2, Zenon
      <4>2. cd[i].arg \in cs .. n + 1 /\ (cd[i].arg > i \/ (i > cs /\ cd[i - 1].op = "yield"))
        BY <1>4, <2>1, <2>3, <4>1 DEF Lands
      <4>3. nc[i].arg \in cs .. hi
        <5>1. PICK g : g = cd[i].arg
          OBVIOUS
        <5>2. g \in cs .. n + 1
          BY <4>2, <5>1, Zenon
        <5>3. g \in cs .. hi
          BY <1>41, <5>2
        <5> QED  BY <2>1, <4>1, <5>1, <5>3, Zenon
      <4>4. i > cs => nc[i - 1].op = cd[i - 1].op
        <5>1. i > cs => i - 1 \in cs .. n /\ i - 1 \in 1 .. n
          BY <1>41
        <5> QED  BY <1>3, <1>42, <5>1, Zenon
      <4> QED  BY <2>1, <4>1, <4>2, <4>3, <4>4 DEF Lands
    <3> QED  BY <3>1, <3>2
  <2> QED  BY <1>4, <2>1, <2>2, <2>3
<1>6. ASSUME NEW i \in n + 1 .. n + m
      PROVE  /\ nc[i].op # "exit" /\ (nc[i].op = "word" => nc[i].arg \in 1 .. nd)
             /\ nc[i].op \in Jumps => Waiting(nct, i) \/ Lands(nc, i, cs, hi)
  <2>1. PICK j \in 1 .. m : i = n + j
    <3>1. i - n \in 1 .. m /\ i = n + (i - n)
      OBVIOUS
    <3> QED  BY <3>1
  <2>2. nc[i] = ins[j]
    BY <1>3, <2>1
  <2>3. /\ ins[j].op # "exit" /\ (ins[j].op = "word" => ins[j].arg \in 1 .. nd)
        /\ ins[j].op \in Jumps => Waiting(nct, n + j) \/ Lands(base \o ins, n + j, cs, hi)
    BY <1>1, Zenon DEF GoesOn
  <2> QED  BY <1>2, <2>1, <2>2, <2>3, Zenon
<1>7. ASSUME NEW j \in 1 .. Len(nct)
      PROVE  /\ nct[j].kind = "if" => nct[j].value \in cs .. n + m /\ nc[nct[j].value].op \in Jumps
             /\ nct[j].kind = "begin" => nct[j].value \in cs .. n + m + 1
  <2>1. CASE \E k \in 1 .. Len(ct) : nct[j] = ct[k]
    <3>1. PICK k \in 1 .. Len(ct) : nct[j] = ct[k]
      BY <2>1
    <3>2. PICK v : nct[j] = ct[k] /\ v = ct[k].value
      BY <3>1
    <3>3. ct[k].kind = "if" => v \in cs .. n + m /\ nc[v].op \in Jumps
      <4>1. ct[k].kind = "if" => v \in cs .. n /\ cd[v].op \in Jumps
        BY <1>4, <3>2, Zenon
      <4>2. v \in cs .. n => nc[v].op = cd[v].op
        BY <1>3, <1>42, <1>43, Zenon
      <4>3. v \in cs .. n => v \in cs .. n + m
        BY <1>41
      <4> QED  BY <4>1, <4>2, <4>3, Zenon
    <3>4. ct[k].kind = "begin" => v \in cs .. n + m + 1
      <4>1. ct[k].kind = "begin" => v \in cs .. n + 1
        BY <1>4, <3>2, Zenon
      <4>2. v \in cs .. n + 1 => v \in cs .. n + m + 1
        BY <1>41
      <4> QED  BY <4>1, <4>2, Zenon
    <3> QED  BY <3>2, <3>3, <3>4
  <2>2. CASE \E k \in 1 .. Len(ins) : nct[j] = Entry("if", Len(cd) + k) /\ ins[k].op \in Jumps
    <3>1. PICK k \in 1 .. m : nct[j] = Entry("if", n + k) /\ ins[k].op \in Jumps
      BY <1>1, <2>2
    <3>2. nct[j].kind = "if" /\ nct[j].value = n + k
      BY <3>1 DEF Entry
    <3>3. n + k \in cs .. n + m
      BY <1>41
    <3>4. nc[n + k].op \in Jumps
      BY <1>3, <3>1, Zenon
    <3> QED  BY <3>2, <3>3, <3>4, Zenon
  <2>3. CASE nct[j] = Entry("begin", Len(cd) + 1)
    <3>1. nct[j].kind = "begin" /\ nct[j].value = n + 1
      BY <1>1, <2>3 DEF Entry
    <3>2. n + 1 \in cs .. n + m + 1
      BY <1>41
    <3> QED  BY <3>1, <3>2, Zenon
  <2> QED  BY <2>1, <2>2, <2>3, Zenon DEF GoesOn
<1>8. cs \in 1 .. n + m + 1
  BY <1>41
<1>9. \A i \in cs .. n + m : i \in cs .. n \/ i \in n + 1 .. n + m
  BY <1>41
<1>10. Draft(nc, cs, nct, nd, hi)
  BY <1>3, <1>5, <1>6, <1>7, <1>8, <1>9 DEF Draft
<1> QED  BY <1>2, <1>10

\* A finished draft is one more word.
LEMMA ShelfGrows ==
  ASSUME NEW cd \in Codes, NEW d \in Seq(Words), NEW fin, NEW cs \in Nat, NEW ct,
         NEW last \in Instrs, NEW word \in Words,
         Shelf(cd, d, fin, cs), Draft(cd, cs, ct, Len(d), Len(cd) + 1),
         Len(ct) = 0, last.op = "exit", word.code_start = cs
  PROVE  \E f : Shelf(Append(cd, last), Append(d, word), f, Len(cd) + 2)
<1>1. PICK n \in Nat, k \in Nat : n = Len(cd) /\ k = Len(d)
  <2>1. Len(cd) \in Nat /\ Len(d) \in Nat
    BY FieldsAre
  <2> QED  BY <2>1
<1>2. PICK nc, wd : nc = Append(cd, last) /\ wd = Append(d, word)
  OBVIOUS
<1>3. /\ nc \in Codes /\ Len(nc) = n + 1 /\ nc[n + 1].op = "exit" /\ \A i \in 1 .. n : nc[i] = cd[i]
  BY <1>1, <1>2 DEF Codes
<1>4. /\ cs \in 1 .. n + 1
      /\ \A i \in cs .. n : /\ cd[i].op # "exit"
                            /\ cd[i].op = "word" => cd[i].arg \in 1 .. k
                            /\ cd[i].op \in Jumps => Lands(cd, i, cs, n + 1)
  <2>1. \A i \in cs .. n : ~Waiting(ct, i)
    BY DEF Waiting
  <2> QED  BY <1>1, <2>1 DEF Draft
<1>41. cs \in 1 .. n + 1
  BY <1>4, Zenon
<1>5. /\ wd \in Seq(Words) /\ Len(wd) = k + 1 /\ wd[k + 1].code_start = cs
      /\ \A w \in 1 .. k : wd[w] = d[w]
  BY <1>1, <1>2
<1>6. /\ fin \in [1 .. k -> Nat]
      /\ \A v, w \in 1 .. k : v < w => fin[v] < d[w].code_start
  BY <1>1 DEF Shelf
<1>7. Shelf(nc, d, fin, cs)
  BY <1>1, <1>3, <1>4, ShelfStays
<1>8. PICK f \in [1 .. k + 1 -> Nat] : f = [w \in 1 .. k + 1 |-> IF w = k + 1 THEN n + 1 ELSE fin[w]]
  <2>1. \A w \in 1 .. k + 1 : w # k + 1 => w \in 1 .. k
    OBVIOUS
  <2>2. \A w \in 1 .. k + 1 : (IF w = k + 1 THEN n + 1 ELSE fin[w]) \in Nat
    BY <1>6, <2>1
  <2> QED  BY <2>2
<1>9. f[k + 1] = n + 1 /\ \A w \in 1 .. k : f[w] = fin[w]
  <2>1. k + 1 \in 1 .. k + 1 /\ \A w \in 1 .. k : w \in 1 .. k + 1 /\ w # k + 1
    OBVIOUS
  <2> QED  BY <1>8, <2>1
<1>10. ASSUME NEW w \in 1 .. k
       PROVE  /\ f[w] \in wd[w].code_start .. n + 1 /\ nc[f[w]].op = "exit"
              /\ \A i \in wd[w].code_start .. f[w] - 1 : nc[i].op # "exit"
              /\ \A i \in wd[w].code_start .. f[w] :
                   /\ nc[i].op \in Jumps => Lands(nc, i, wd[w].code_start, f[w])
                   /\ nc[i].op = "word" => nc[i].arg \in 1 .. w - 1
  <2>1. f[w] = fin[w] /\ wd[w] = d[w] /\ fin[w] \in Nat
    BY <1>5, <1>6, <1>9
  <2>2. fin[w] \in d[w].code_start .. cs - 1
    BY <1>1, <1>7 DEF Shelf
  <2>3. fin[w] \in d[w].code_start .. n + 1
    <3>1. PICK a, b : a = d[w].code_start /\ b = fin[w]
      OBVIOUS
    <3>2. b \in a .. cs - 1
      BY <2>2, <3>1, Zenon
    <3>3. b \in a .. n + 1
      BY <1>41, <3>2
    <3> QED  BY <3>1, <3>3, Zenon
  <2> QED  BY <1>1, <1>7, <2>1, <2>3 DEF Shelf
<1>11. /\ n + 1 \in cs .. n + 1 /\ nc[n + 1].op = "exit"
       /\ \A i \in cs .. n : nc[i].op # "exit"
       /\ \A i \in cs .. n + 1 : /\ nc[i].op \in Jumps => Lands(nc, i, cs, n + 1)
                                 /\ nc[i].op = "word" => nc[i].arg \in 1 .. k
  <2>1. \A i \in cs .. n : i \in 1 .. n /\ nc[i] = cd[i]
    <3>1. \A i \in cs .. n : i \in 1 .. n
      BY <1>41
    <3> QED  BY <1>3, <3>1, Zenon
  <2>2. \A i \in cs .. n : i > cs => nc[i - 1] = cd[i - 1]
    <3> TAKE i \in cs .. n
    <3>1. i > cs => i - 1 \in cs .. n
      BY <1>41
    <3> QED  BY <2>1, <3>1
  <2>3. \A i \in cs .. n : nc[i].op \in Jumps => Lands(nc, i, cs, n + 1)
    <3> TAKE i \in cs .. n
    <3>1. nc[i] = cd[i] /\ (i > cs => nc[i - 1] = cd[i - 1])
      BY <2>1, <2>2, Zenon
    <3>2. cd[i].op \in Jumps => Lands(cd, i, cs, n + 1)
      BY <1>4, Zenon
    <3> QED  BY <3>1, <3>2, Zenon DEF Lands
  <2>4. \A i \in cs .. n + 1 : i \in cs .. n \/ i = n + 1
    BY <1>41
  <2>5. n + 1 \in cs .. n + 1 /\ n + 1 - 1 = n /\ "exit" \notin Jumps
    BY <1>4 DEF Jumps
  <2>6. n + 1 \in cs .. n + 1 /\ nc[n + 1].op = "exit" /\ \A i \in cs .. n : nc[i].op # "exit"
    BY <1>3, <1>4, <2>1, <2>5
  <2>7. \A i \in cs .. n + 1 : /\ nc[i].op \in Jumps => Lands(nc, i, cs, n + 1)
                               /\ nc[i].op = "word" => nc[i].arg \in 1 .. k
    <3> TAKE i \in cs .. n + 1
    <3>1. CASE i \in cs .. n
      BY <1>4, <2>1, <2>3, <3>1
    <3>2. CASE i = n + 1
      BY <1>3, <2>5, <3>2
    <3> QED  BY <2>4, <3>1, <3>2
  <2> QED  BY <2>6, <2>7
<1>12. ASSUME NEW v \in 1 .. k + 1, NEW w \in 1 .. k + 1, v < w
       PROVE  f[v] < wd[w].code_start
  <2>1. v \in 1 .. k
    BY <1>12
  <2>2. CASE w \in 1 .. k
    BY <1>5, <1>6, <1>9, <1>12, <2>1, <2>2
  <2>3. CASE w = k + 1
    <3>1. fin[v] \in d[v].code_start .. cs - 1
      BY <1>1, <1>7, <2>1 DEF Shelf
    <3>2. PICK b \in Nat : b = fin[v]
      BY <1>6, <2>1
    <3>3. b < cs
      BY <1>41, <3>1, <3>2
    <3> QED  BY <1>5, <1>9, <2>1, <2>3, <3>2, <3>3, Zenon
  <2>4. w \in 1 .. k \/ w = k + 1
    OBVIOUS
  <2> QED  BY <2>2, <2>3, <2>4
<1>13. Shelf(nc, wd, f, n + 2)
  <2>1. n + 2 - 1 = n + 1 /\ k + 1 - 1 = k
    OBVIOUS
  <2>2. \A w \in 1 .. k + 1 : w \in 1 .. k \/ w = k + 1
    OBVIOUS
  <2>3. ASSUME NEW w \in 1 .. k + 1
        PROVE  /\ f[w] \in wd[w].code_start .. n + 2 - 1 /\ nc[f[w]].op = "exit"
               /\ \A i \in wd[w].code_start .. f[w] - 1 : nc[i].op # "exit"
               /\ \A i \in wd[w].code_start .. f[w] :
                    /\ nc[i].op \in Jumps => Lands(nc, i, wd[w].code_start, f[w])
                    /\ nc[i].op = "word" => nc[i].arg \in 1 .. w - 1
    <3>1. CASE w \in 1 .. k
      BY <1>10, <2>1, <3>1
    <3>2. CASE w = k + 1
      <4>1. wd[w].code_start = cs /\ f[w] = n + 1 /\ w - 1 = k
        BY <1>5, <1>9, <2>1, <3>2
      <4>2. cs .. (n + 1) - 1 = cs .. n
        OBVIOUS
      <4> QED  BY <1>11, <2>1, <4>1, <4>2
    <3> QED  BY <2>2, <3>1, <3>2
  <2>4. Len(wd) = k + 1 /\ f \in [1 .. Len(wd) -> Nat]
    BY <1>5
  <2>5. \A w \in 1 .. Len(wd) : w \in 1 .. k + 1
    BY <2>4
  <2> QED  BY <1>12, <2>3, <2>4, <2>5 DEF Shelf
<1> QED  BY <1>1, <1>2, <1>13

----------------------------------------------------------------------------
(* The steps.                                                              *)

\* An error leaves the words alone, whatever of a draft stays behind in the code.
LEMMA AbortKeeps ==
  ASSUME ForthInv, NEW nc \in Codes, Abort(nc), Len(code) <= Len(nc), Len(nc) <= CodeSize,
         \A i \in 1 .. Floor - 1 : nc[i] = code[i]
  PROVE  ForthInv'
<1>1. ForthTypes
  BY DEF ForthInv
<1>2. /\ code \in Codes /\ dict \in Seq(Words) /\ cstart \in 1 .. Len(code) + 1
      /\ cname \in Called
  BY <1>1 DEF ForthTypes
<1>3. Len(code) \in Nat /\ Floor \in Nat \ {0} /\ Floor <= Len(code) + 1
  BY <1>1, SizesAre
<1>4. PICK n \in Nat : n = Len(nc)
  BY FieldsAre
<1>5. Floor <= n + 1 /\ cstart \in 1 .. n + 1
  <2>1. Len(code) \in Nat /\ Floor \in Nat /\ cstart \in Nat
    BY <1>2, <1>3
  <2>2. PICK m \in Nat, f \in Nat, c \in Nat : m = Len(code) /\ f = Floor /\ c = cstart
    BY <2>1
  <2>3. m <= n /\ f <= m + 1 /\ c \in 1 .. m + 1
    BY <1>2, <1>3, <1>4, <2>2
  <2>4. f <= n + 1 /\ c \in 1 .. n + 1
    BY <2>3
  <2> QED  BY <2>2, <2>4
<1>6. PICK fin : Shelf(code, dict, fin, Floor)
  BY DEF ForthInv
<1>7. Shelf(nc, dict, fin, n + 1)
  <2>1. PICK f \in Nat \ {0} : f = Floor
    BY <1>3
  <2>2. f <= n + 1 /\ n + 1 \in Nat /\ (\A i \in 1 .. f - 1 : nc[i] = code[i]) /\ Shelf(code, dict, fin, f)
    BY <1>5, <1>6, <2>1
  <2> QED  BY <1>2, <2>2, ShelfStays
<1>8. /\ code' = nc /\ dict' = dict /\ mode' = "run" /\ rstack' = << >> /\ ctrl' = << >>
      /\ ip' = 0 /\ cname' = cname /\ cstart' = cstart
  BY DEF Abort
<1>9. ForthTypes'
  <2>1. << >> \in Seq(Entries) /\ << >> \in Seq(Nat)
    OBVIOUS
  <2> QED  BY <1>2, <1>4, <1>5, <1>8, <2>1 DEF ForthTypes
<1>10. Floor' = n + 1
  BY <1>4, <1>8 DEF Floor
<1>11. Shelf(code, dict, fin, Floor)'
  BY <1>7, <1>8, <1>10
<1> QED  BY <1>8, <1>9, <1>11 DEF ForthInv

\* The same, of an error that compiled nothing.
LEMMA PlainAbortKeeps ==
  ASSUME ForthInv, Abort(code)
  PROVE  ForthInv'
<1>1. code \in Codes /\ Len(code) <= CodeSize
  BY DEF ForthInv, ForthTypes
<1>2. PICK nc \in Codes : nc = code
  BY <1>1
<1>3. Abort(nc) /\ Len(code) \in Nat
  BY <1>1, <1>2, FieldsAre DEF Abort
<1> QED  BY <1>1, <1>2, <1>3, AbortKeeps

\* A step of the data stack alone.
LEMMA StayKeeps ==
  ASSUME ForthInv, UNCHANGED << code, dict, ctrl, cname, cstart >>, Stay
  PROVE  ForthInv'
<1>1. Floor' = Floor /\ ForthTypes'
  BY DEF Floor, ForthInv, ForthTypes, Stay
<1>2. PICK fin : Shelf(code, dict, fin, Floor) /\ (mode = "exec" => Running(Append(rstack, ip), dict, fin))
  BY DEF ForthInv
<1>3. /\ Shelf(code, dict, fin, Floor)' /\ (mode = "exec" => Running(Append(rstack, ip), dict, fin))'
      /\ (mode = "body" => Draft(code, cstart, ctrl, Len(dict), Len(code) + 1))'
  BY <1>1, <1>2 DEF ForthInv, Stay
<1> QED  BY <1>1, <1>3 DEF ForthInv

\* A running word goes on, with the code and the words as they are.
LEMMA ExecKeeps ==
  ASSUME ForthInv, mode = "exec", mode' = "exec", UNCHANGED << code, dict, ctrl, cname, cstart >>,
         rstack' \in Seq(Nat), ip' \in Nat,
         NEW fin, Shelf(code, dict, fin, Floor), Running(Append(rstack, ip), dict, fin)'
  PROVE  ForthInv'
<1>1. Floor' = Floor /\ ForthTypes'
  BY DEF Floor, ForthInv, ForthTypes
<1>2. Shelf(code, dict, fin, Floor)'
  BY <1>1
<1> QED  BY <1>1, <1>2 DEF ForthInv

\* Where a running word is, and what may come next.
LEMMA HereIs ==
  ASSUME ForthInv, mode = "exec"
  PROVE  \E fin \in [1 .. Len(dict) -> Nat] :
           /\ Shelf(code, dict, fin, Floor) /\ Running(Append(rstack, ip), dict, fin)
           /\ \E w \in 1 .. Len(dict) : ip \in dict[w].code_start .. fin[w]
           /\ \A w \in 1 .. Len(dict) : ip \in dict[w].code_start .. fin[w] =>
                /\ ip \in 1 .. Len(code)
                /\ code[ip].op # "exit" => ip + 1 \in dict[w].code_start .. fin[w]
                /\ code[ip].op \in Jumps => Lands(code, ip, dict[w].code_start, fin[w])
                /\ code[ip].op = "word" => code[ip].arg \in 1 .. w - 1
<1>1. PICK fin : Shelf(code, dict, fin, Floor) /\ Running(Append(rstack, ip), dict, fin)
  BY DEF ForthInv
<1>2. fin \in [1 .. Len(dict) -> Nat]
  BY <1>1 DEF Shelf
<1>3. code \in Codes /\ dict \in Seq(Words) /\ rstack \in Seq(Nat) /\ ip \in Nat /\ ForthTypes
  BY DEF ForthInv, ForthTypes
<1>4. \E w \in 1 .. Len(dict) : ip \in dict[w].code_start .. fin[w]
  BY <1>1, <1>2, <1>3, RunningInside
<1>5. Floor \in Nat /\ Floor <= Len(code) + 1
  BY <1>3, SizesAre
<1>6. ASSUME NEW w \in 1 .. Len(dict), ip \in dict[w].code_start .. fin[w]
      PROVE  /\ ip \in 1 .. Len(code)
             /\ code[ip].op # "exit" => ip + 1 \in dict[w].code_start .. fin[w]
             /\ code[ip].op \in Jumps => Lands(code, ip, dict[w].code_start, fin[w])
             /\ code[ip].op = "word" => code[ip].arg \in 1 .. w - 1
  BY <1>1, <1>3, <1>5, <1>6, InsideWord
<1> QED  BY <1>1, <1>2, <1>4, <1>6

\* The types of a state that compiles.
LEMMA BodyIs ==
  ASSUME ForthInv, mode = "body"
  PROVE  /\ code \in Codes /\ Len(code) \in Nat /\ Len(code) <= CodeSize /\ dict \in Seq(Words)
         /\ ctrl \in Seq(Entries) /\ Len(ctrl) \in Nat /\ Len(dict) \in Nat
         /\ cstart \in Nat \ {0} /\ cstart <= Len(code) + 1 /\ Floor = cstart
         /\ Draft(code, cstart, ctrl, Len(dict), Len(code) + 1)
<1>1. /\ code \in Codes /\ dict \in Seq(Words) /\ ctrl \in Seq(Entries) /\ cstart \in 1 .. Len(code) + 1
      /\ Len(code) <= CodeSize
  BY DEF ForthInv, ForthTypes
<1>2. Len(code) \in Nat /\ Len(ctrl) \in Nat /\ Len(dict) \in Nat
  BY <1>1, FieldsAre
<1>3. Floor = cstart /\ Draft(code, cstart, ctrl, Len(dict), Len(code) + 1)
  BY DEF Floor, ForthInv
<1> QED  BY <1>1, <1>2, <1>3

\* The first elements of a sequence.
FrontOf(t, s, n, S) == t \in Seq(S) /\ Len(t) = n /\ \A i \in 1 .. n : t[i] = s[i]

LEMMA FrontIs ==
  ASSUME NEW S, NEW s \in Seq(S), NEW n \in Nat, n <= Len(s), NEW t, t = SubSeq(s, 1, n)
  PROVE  FrontOf(t, s, n, S)
BY DEF FrontOf

\* What is emitted fits and leaves a draft, or is an error.
LEMMA EmitKeeps ==
  ASSUME ForthInv, mode = "body", NEW base \in Codes, NEW ins \in Codes, NEW nct \in Seq(Entries),
         Len(base) = Len(code), \A i \in 1 .. cstart - 1 : base[i] = code[i],
         GoesOn(code, base, ins, cstart, ctrl, nct, Len(dict), Len(code) + Len(ins) + 1),
         Emit(base, ins, nct)
  PROVE  ForthInv'
<1>1. /\ code \in Codes /\ Len(code) \in Nat /\ Len(code) <= CodeSize /\ dict \in Seq(Words)
      /\ ctrl \in Seq(Entries) /\ Len(ctrl) \in Nat /\ Len(dict) \in Nat
      /\ cstart \in Nat \ {0} /\ cstart <= Len(code) + 1 /\ Floor = cstart
      /\ Draft(code, cstart, ctrl, Len(dict), Len(code) + 1)
  BY BodyIs
<1>2. PICK n \in Nat, m \in Nat, c \in Nat \ {0} : n = Len(code) /\ m = Len(ins) /\ c = cstart
  <2>1. Len(ins) \in Nat
    BY FieldsAre
  <2> QED  BY <1>1, <2>1
<1>3. PICK nc : nc = base \o ins
  OBVIOUS
<1>4. nc \in Codes /\ Len(nc) = n + m /\ \A i \in 1 .. n : nc[i] = base[i]
  <2>1. /\ base \o ins \in Codes /\ Len(base \o ins) = Len(base) + Len(ins)
        /\ \A i \in 1 .. Len(base) : (base \o ins)[i] = base[i]
    BY CodeGrows
  <2> QED  BY <1>2, <1>3, <2>1
<1>5. c <= n + 1 /\ \A i \in 1 .. c - 1 : i \in 1 .. n /\ nc[i] = code[i]
  <2>1. c <= n + 1
    BY <1>1, <1>2
  <2>2. \A i \in 1 .. c - 1 : i \in 1 .. n
    BY <2>1
  <2> QED  BY <1>2, <1>4, <2>1, <2>2
<1>6. CodeSize \in Nat
  BY ForthAssumption
<1>7. ASSUME ~Room(m) \/ Len(nct) > CtrlSize
      PROVE  ForthInv'
  <2>1. PICK k : k = IF Room(m) THEN n + m ELSE CodeSize
    OBVIOUS
  <2>2. k \in n .. n + m /\ k <= CodeSize /\ k \in Nat
    <3>1. n <= CodeSize
      BY <1>1, <1>2, Zenon
    <3>2. k = IF n + m <= CodeSize THEN n + m ELSE CodeSize
      BY <1>2, <2>1, Zenon DEF Room
    <3> QED  BY <1>6, <3>1, <3>2
  <2>3. PICK ac : ac = SubSeq(nc, 1, k)
    OBVIOUS
  <2>4. ac \in Codes /\ Len(ac) = k /\ \A i \in 1 .. k : ac[i] = nc[i]
    <3>1. k <= Len(nc) /\ nc \in Seq(Instrs)
      BY <1>4, <2>2 DEF Codes
    <3>2. FrontOf(ac, nc, k, Instrs)
      BY <2>2, <2>3, <3>1, FrontIs, Zenon
    <3> QED  BY <3>2, Zenon DEF FrontOf, Codes
  <2>5. Abort(ac)
    <3>1. Emit(base, ins, nct) => Abort(SubSeq(base \o ins, 1, IF Room(Len(ins)) THEN Len(base) + Len(ins)
                                                               ELSE CodeSize))
      BY <1>2, <1>7 DEF Emit
    <3>2. ac = SubSeq(base \o ins, 1, IF Room(Len(ins)) THEN Len(base) + Len(ins) ELSE CodeSize)
      BY <1>2, <1>3, <2>1, <2>3
    <3> QED  BY <3>1, <3>2 DEF Abort
  <2>6. \A i \in 1 .. Floor - 1 : ac[i] = code[i]
    <3>1. \A i \in 1 .. c - 1 : i \in 1 .. k
      BY <1>5, <2>2
    <3> QED  BY <1>1, <1>2, <1>5, <2>4, <3>1
  <2>7. Len(code) <= Len(ac) /\ Len(ac) <= CodeSize
    BY <1>2, <2>2, <2>4
  <2> QED  BY <2>4, <2>5, <2>6, <2>7, AbortKeeps
<1>8. ASSUME ~(~Room(m) \/ Len(nct) > CtrlSize)
      PROVE  ForthInv'
  <2>1. /\ code' = nc /\ ctrl' = nct /\ dict' = dict /\ rstack' = rstack /\ mode' = mode
        /\ cname' = cname /\ cstart' = cstart /\ ip' = ip
    BY <1>2, <1>3, <1>8 DEF Emit
  <2>2. n + m <= CodeSize
    BY <1>2, <1>8 DEF Room
  <2>3. ForthTypes'
    <3>1. c \in 1 .. n + m + 1
      BY <1>5
    <3> QED  BY <1>2, <1>4, <2>1, <2>2, <3>1 DEF ForthInv, ForthTypes
  <2>4. Floor' = c
    BY <1>2, <2>1 DEF Floor
  <2>5. PICK fin : Shelf(code, dict, fin, c)
    BY <1>1, <1>2 DEF ForthInv
  <2>6. Shelf(nc, dict, fin, c)
    <3>1. c \in Nat /\ c <= c
      OBVIOUS
    <3> QED  BY <1>1, <1>4, <1>5, <2>5, <3>1, ShelfStays, Zenon
  <2>7. Draft(nc, c, nct, Len(dict), n + m + 1)
    <3>1. n + m + 1 \in Nat /\ n + m + 1 = Len(code) + Len(ins) + 1 /\ n + 1 = Len(code) + 1
      BY <1>2
    <3>2. PICK cd \in Codes, ct \in Seq(Entries), nd, hi \in Nat :
            cd = code /\ ct = ctrl /\ nd = Len(dict) /\ hi = n + m + 1
      BY <1>1, <3>1
    <3>3. /\ Len(base) = Len(cd) /\ hi = Len(cd) + Len(ins) + 1 /\ Draft(cd, c, ct, nd, Len(cd) + 1)
          /\ GoesOn(cd, base, ins, c, ct, nct, nd, hi)
      BY <1>1, <1>2, <3>1, <3>2
    <3>4. Draft(base \o ins, c, nct, nd, hi)
      BY <3>3, DraftGrows
    <3> QED  BY <1>3, <3>2, <3>4
  <2>8. Shelf(code, dict, fin, Floor)' /\ Draft(code, cstart, ctrl, Len(dict), Len(code) + 1)'
    BY <1>2, <1>4, <2>1, <2>4, <2>6, <2>7
  <2> QED  BY <2>1, <2>3, <2>8 DEF ForthInv
<1> QED  BY <1>7, <1>8

\* An instruction, and a piece of code that is one.
LEMMA InstrIs ==
  ASSUME NEW op \in Ops, NEW arg \in Int \cup Compiled
  PROVE  /\ Instr(op, arg) \in Instrs /\ Instr(op, arg).op = op /\ Instr(op, arg).arg = arg
         /\ << Instr(op, arg) >> \in Codes /\ Len(<< Instr(op, arg) >>) = 1
         /\ << Instr(op, arg) >>[1] = Instr(op, arg)
<1>1. Instr(op, arg) \in Instrs /\ Instr(op, arg).op = op /\ Instr(op, arg).arg = arg
  BY DEF Instr, Instrs
<1>2. PICK x \in Instrs : x = Instr(op, arg)
  BY <1>1
<1>3. << x >> \in Codes /\ Len(<< x >>) = 1 /\ << x >>[1] = x
  BY DEF Codes
<1> QED  BY <1>1, <1>2, <1>3

\* The control stack with one more entry.
LEMMA CtrlGrows ==
  ASSUME NEW ct \in Seq(Entries), NEW kind \in { "if", "begin" }, NEW v \in Nat \ {0}
  PROVE  /\ Append(ct, Entry(kind, v)) \in Seq(Entries) /\ Len(Append(ct, Entry(kind, v))) = Len(ct) + 1
         /\ \A j \in 1 .. Len(ct) : Append(ct, Entry(kind, v))[j] = ct[j]
         /\ Append(ct, Entry(kind, v))[Len(ct) + 1] = Entry(kind, v)
         /\ \A i : Waiting(ct, i) => Waiting(Append(ct, Entry(kind, v)), i)
         /\ kind = "if" => Waiting(Append(ct, Entry(kind, v)), v)
<1>1. PICK x, nct : x = Entry(kind, v) /\ nct = Append(ct, x)
  OBVIOUS
<1>2. x \in Entries /\ x.kind = kind /\ x.value = v /\ Len(ct) \in Nat
  BY <1>1 DEF Entry, Entries
<1>3. /\ nct \in Seq(Entries) /\ Len(nct) = Len(ct) + 1 /\ nct[Len(ct) + 1] = x
      /\ \A j \in 1 .. Len(ct) : nct[j] = ct[j]
  BY <1>1, <1>2
<1>4. \A i : Waiting(ct, i) => Waiting(nct, i)
  <2>1. \A j \in 1 .. Len(ct) : j \in 1 .. Len(nct)
    BY <1>2, <1>3
  <2> QED  BY <1>3, <2>1 DEF Waiting
<1>5. kind = "if" => Waiting(nct, v)
  <2>1. Len(ct) + 1 \in 1 .. Len(nct)
    BY <1>2, <1>3
  <2> QED  BY <1>2, <1>3, <2>1 DEF Waiting
<1> QED  BY <1>1, <1>3, <1>4, <1>5

\* The control stack without its top.
LEMMA OpenIs ==
  ASSUME ForthInv, mode = "body", NEW kind \in { "if", "begin" }, Open(kind)
  PROVE  /\ Closed \in Seq(Entries) /\ Len(Closed) = Len(ctrl) - 1 /\ Opened \in Nat \ {0}
         /\ \A j \in 1 .. Len(Closed) : j \in 1 .. Len(ctrl) /\ Closed[j] = ctrl[j]
         /\ kind = "if" => Opened \in cstart .. Len(code) /\ code[Opened].op \in Jumps
         /\ kind = "begin" => Opened \in cstart .. Len(code) + 1
         /\ \A i : Waiting(ctrl, i) => Waiting(Closed, i) \/ (kind = "if" /\ i = Opened)
<1>1. ctrl \in Seq(Entries) /\ Len(ctrl) \in Nat /\ Draft(code, cstart, ctrl, Len(dict), Len(code) + 1)
  BY BodyIs
<1>2. PICK pct : pct = Closed
  OBVIOUS
<1>3. PICK n \in Nat, ct \in Seq(Entries) : n = Len(ctrl) /\ ct = ctrl
  BY <1>1
<1>4. n # 0 /\ n \in 1 .. n /\ n - 1 \in Nat /\ ct[n].kind = kind /\ Opened = ct[n].value
  <2>1. ct # << >> /\ ct[n].kind = kind /\ Opened = ct[n].value
    BY <1>3 DEF Open, Opened
  <2>2. n # 0
    BY <1>3, <2>1
  <2> QED  BY <2>1, <2>2
<1>5. pct = SubSeq(ct, 1, n - 1)
  BY <1>2, <1>3 DEF Closed
<1>6. pct \in Seq(Entries) /\ Len(pct) = n - 1 /\ \A j \in 1 .. n - 1 : pct[j] = ct[j]
  BY <1>3, <1>4, <1>5
<1>7. Opened \in Nat \ {0}
  BY <1>3, <1>4, FieldsAre
<1>8. /\ kind = "if" => Opened \in cstart .. Len(code) /\ code[Opened].op \in Jumps
      /\ kind = "begin" => Opened \in cstart .. Len(code) + 1
  BY <1>1, <1>3, <1>4 DEF Draft
<1>9. ASSUME NEW i, Waiting(ct, i), ~Waiting(pct, i)
      PROVE  kind = "if" /\ i = Opened
  <2>1. PICK j \in 1 .. n : ct[j].kind = "if" /\ ct[j].value = i
    BY <1>3, <1>9 DEF Waiting
  <2>2. j \notin 1 .. n - 1
    BY <1>6, <1>9, <2>1 DEF Waiting
  <2>3. j = n
    BY <2>2
  <2> QED  BY <1>4, <2>1, <2>3
<1>10. \A j \in 1 .. n - 1 : j \in 1 .. n
  OBVIOUS
<1> QED  BY <1>2, <1>3, <1>6, <1>7, <1>8, <1>9, <1>10

\* Code with a jump's target filled in.
PatchOf(pd, cd, v, t) == pd = [cd EXCEPT ![v].arg = t]

\* It is code of the same length, and of the same operations.
LEMMA PatchIs ==
  ASSUME NEW cd \in Codes, NEW v \in 1 .. Len(cd), NEW t \in Int, NEW pd, PatchOf(pd, cd, v, t)
  PROVE  /\ pd \in Codes /\ Len(pd) = Len(cd) /\ pd[v].arg = t
         /\ \A i \in 1 .. Len(cd) : pd[i].op = cd[i].op /\ (i # v => pd[i] = cd[i])
<1>1. PICK n \in Nat : n = Len(cd)
  BY FieldsAre
<1>2. DOMAIN cd = 1 .. n /\ cd \in [1 .. n -> Instrs] /\ cd[v] \in Instrs
  BY <1>1 DEF Codes
<1>3. PICK y : y = [cd[v] EXCEPT !.arg = t]
  OBVIOUS
<1>4. y \in Instrs /\ y.op = cd[v].op /\ y.arg = t
  BY <1>2, <1>3 DEF Instrs
<1>5. pd = [cd EXCEPT ![v] = y]
  BY <1>3 DEF PatchOf
<1>6. /\ pd \in [1 .. n -> Instrs] /\ pd[v] = y
      /\ \A i \in 1 .. n : i # v => pd[i] = cd[i]
  BY <1>1, <1>2, <1>4, <1>5
<1>7. pd \in Seq(Instrs) /\ Len(pd) = n
  <2>1. pd \in Seq(Instrs)
    BY <1>6
  <2> QED  BY <1>1, <1>6, <2>1
<1>8. \A i \in 1 .. n : pd[i].op = cd[i].op
  BY <1>4, <1>6
<1> QED  BY <1>1, <1>4, <1>6, <1>7, <1>8 DEF Codes

\* An instruction that is neither a jump nor an end.
LEMMA EmitOne ==
  ASSUME ForthInv, mode = "body", NEW op \in Ops \ (Jumps \cup { "exit" }), NEW arg \in Int \cup Compiled,
         op = "word" => arg \in 1 .. Len(dict), Emit(code, << Instr(op, arg) >>, ctrl)
  PROVE  ForthInv'
<1>1. /\ code \in Codes /\ Len(code) \in Nat /\ ctrl \in Seq(Entries) /\ Len(ctrl) \in Nat
      /\ cstart \in Nat \ {0} /\ cstart <= Len(code) + 1
  BY BodyIs
<1>2. PICK base \in Codes, nct \in Seq(Entries), n \in Nat : base = code /\ nct = ctrl /\ n = Len(code)
  BY <1>1
<1>3. PICK ins : ins = << Instr(op, arg) >>
  OBVIOUS
<1>4. ins \in Codes /\ Len(ins) = 1 /\ ins[1].op = op /\ ins[1].arg = arg
  BY <1>3, InstrIs
<1>5. GoesOn(code, base, ins, cstart, ctrl, nct, Len(dict), Len(code) + Len(ins) + 1)
  <2>1. \A j \in 1 .. Len(ins) : /\ ins[j].op # "exit" /\ (ins[j].op = "word" => ins[j].arg \in 1 .. Len(dict))
                                /\ ins[j].op \notin Jumps
    <3>1. \A j \in 1 .. Len(ins) : j = 1
      BY <1>4
    <3> QED  BY <1>4, <3>1
  <2> QED  BY <1>2, <2>1 DEF GoesOn
<1>6. Emit(base, ins, nct)
  BY <1>3, <1>2 DEF Emit, Abort
<1> QED  BY <1>2, <1>4, <1>5, <1>6, EmitKeeps

\* IF leaves a jump open.
LEMMA TypeIfKeeps ==
  ASSUME ForthInv, TypeIf
  PROVE  ForthInv'
<1>1. /\ mode = "body" /\ code \in Codes /\ Len(code) \in Nat /\ ctrl \in Seq(Entries) /\ Len(ctrl) \in Nat
      /\ cstart \in Nat \ {0} /\ cstart <= Len(code) + 1
  <2>1. mode = "body"
    BY DEF TypeIf
  <2> QED  BY <2>1, BodyIs
<1>2. PICK base \in Codes, n \in Nat : base = code /\ n = Len(code)
  BY <1>1
<1>3. PICK ins, nct : ins = << Instr("zbranch", -1) >> /\ nct = Append(ctrl, Entry("if", n + 1))
  OBVIOUS
<1>4. ins \in Codes /\ Len(ins) = 1 /\ ins[1].op = "zbranch"
  <2>1. "zbranch" \in Ops /\ -1 \in Int \cup Compiled
    BY DEF Ops, Jumps
  <2> QED  BY <1>3, <2>1, InstrIs
<1>5. /\ nct \in Seq(Entries) /\ Len(nct) = Len(ctrl) + 1
      /\ \A j \in 1 .. Len(ctrl) : nct[j] = ctrl[j]
      /\ nct[Len(ctrl) + 1] = Entry("if", n + 1)
      /\ (\A i : Waiting(ctrl, i) => Waiting(nct, i)) /\ Waiting(nct, n + 1)
  BY <1>1, <1>3, CtrlGrows
<1>6. GoesOn(code, base, ins, cstart, ctrl, nct, Len(dict), Len(code) + Len(ins) + 1)
  <2>1. \A j \in 1 .. Len(ins) : j = 1
    BY <1>4
  <2>2. \A j \in 1 .. Len(nct) : j \in 1 .. Len(ctrl) \/ j = Len(ctrl) + 1
    BY <1>1, <1>5
  <2>3. \A j \in 1 .. Len(ins) :
          /\ ins[j].op # "exit" /\ (ins[j].op = "word" => ins[j].arg \in 1 .. Len(dict))
          /\ Waiting(nct, Len(code) + j)
    BY <1>2, <1>4, <1>5, <2>1
  <2>4. \A j \in 1 .. Len(nct) :
          \/ \E k \in 1 .. Len(ctrl) : nct[j] = ctrl[k]
          \/ \E k \in 1 .. Len(ins) : nct[j] = Entry("if", Len(code) + k) /\ ins[k].op \in Jumps
    <3>1. 1 \in 1 .. Len(ins) /\ ins[1].op \in Jumps
      BY <1>4 DEF Jumps
    <3> QED  BY <1>2, <1>5, <2>2, <3>1
  <2> QED  BY <1>2, <1>5, <2>3, <2>4 DEF GoesOn
<1>7. Emit(base, ins, nct)
  BY <1>2, <1>3 DEF TypeIf, Emit, Abort
<1> QED  BY <1>1, <1>2, <1>4, <1>5, <1>6, <1>7, EmitKeeps

\* BEGIN notes where a loop starts.
LEMMA TypeBeginKeeps ==
  ASSUME ForthInv, TypeBegin
  PROVE  ForthInv'
<1>1. /\ mode = "body" /\ code \in Codes /\ Len(code) \in Nat /\ ctrl \in Seq(Entries) /\ Len(ctrl) \in Nat
      /\ cstart \in Nat \ {0} /\ cstart <= Len(code) + 1
  <2>1. mode = "body"
    BY DEF TypeBegin
  <2> QED  BY <2>1, BodyIs
<1>2. PICK base \in Codes, n \in Nat : base = code /\ n = Len(code)
  BY <1>1
<1>3. PICK ins, nct : ins = << >> /\ nct = Append(ctrl, Entry("begin", n + 1))
  OBVIOUS
<1>4. ins \in Codes /\ Len(ins) = 0
  BY <1>3 DEF Codes
<1>5. /\ nct \in Seq(Entries) /\ Len(nct) = Len(ctrl) + 1
      /\ \A j \in 1 .. Len(ctrl) : nct[j] = ctrl[j]
      /\ nct[Len(ctrl) + 1] = Entry("begin", n + 1)
      /\ (\A i : Waiting(ctrl, i) => Waiting(nct, i))
  BY <1>1, <1>3, CtrlGrows
<1>6. GoesOn(code, base, ins, cstart, ctrl, nct, Len(dict), Len(code) + Len(ins) + 1)
  <2>1. 1 .. Len(ins) = {}
    BY <1>4
  <2>2. \A j \in 1 .. Len(nct) : j \in 1 .. Len(ctrl) \/ j = Len(ctrl) + 1
    BY <1>1, <1>5
  <2>3. \A j \in 1 .. Len(nct) :
          (\E k \in 1 .. Len(ctrl) : nct[j] = ctrl[k]) \/ nct[j] = Entry("begin", Len(code) + 1)
    BY <1>2, <1>5, <2>2
  <2> QED  BY <1>2, <1>5, <2>1, <2>3 DEF GoesOn
<1>7. Emit(base, ins, nct)
  BY <1>2, <1>3 DEF TypeBegin, Emit, Abort
<1> QED  BY <1>1, <1>2, <1>4, <1>5, <1>6, <1>7, EmitKeeps

\* UNTIL jumps back there, right behind a yield.
LEMMA TypeUntilKeeps ==
  ASSUME ForthInv, TypeUntil
  PROVE  ForthInv'
<1>1. /\ mode = "body" /\ code \in Codes /\ Len(code) \in Nat /\ ctrl \in Seq(Entries) /\ Len(ctrl) \in Nat
      /\ cstart \in Nat \ {0} /\ cstart <= Len(code) + 1
  <2>1. mode = "body"
    BY DEF TypeUntil
  <2> QED  BY <2>1, BodyIs
<1>2. CASE ~Open("begin")
  BY <1>2, PlainAbortKeeps DEF TypeUntil
<1>3. CASE Open("begin")
  <2>1. /\ Closed \in Seq(Entries) /\ Opened \in Nat \ {0} /\ Opened \in cstart .. Len(code) + 1
        /\ \A j \in 1 .. Len(Closed) : j \in 1 .. Len(ctrl) /\ Closed[j] = ctrl[j]
        /\ \A i : Waiting(ctrl, i) => Waiting(Closed, i)
    BY <1>1, <1>3, OpenIs
  <2>2. PICK base \in Codes, n \in Nat, top \in Nat \ {0}, nct \in Seq(Entries), c \in Nat \ {0} :
          base = code /\ n = Len(code) /\ top = Opened /\ nct = Closed /\ c = cstart
    BY <1>1, <2>1
  <2>3. PICK x, y, ins : x = Instr("yield", 0) /\ y = Instr("zbranch", top) /\ ins = << x, y >>
    OBVIOUS
  <2>4. /\ x \in Instrs /\ x.op = "yield"
        /\ y \in Instrs /\ y.op = "zbranch" /\ y.arg = top
    <3>1. "zbranch" \in Ops /\ "yield" \in Ops /\ 0 \in Int \cup Compiled /\ top \in Int \cup Compiled
      BY DEF Ops, Jumps
    <3> QED  BY <2>3, <3>1, InstrIs
  <2>5. ins \in Codes /\ Len(ins) = 2 /\ ins[1] = x /\ ins[2] = y
    BY <2>3, <2>4 DEF Codes
  <2>6. Lands(base \o ins, n + 2, c, n + 3)
    <3>1. PICK nc : nc = base \o ins
      OBVIOUS
    <3>2. nc[n + 1] = x /\ nc[n + 2] = y
      <4>1. \A j \in 1 .. Len(ins) : (base \o ins)[Len(base) + j] = ins[j]
        BY <2>5, CodeGrows
      <4>2. 1 \in 1 .. Len(ins) /\ 2 \in 1 .. Len(ins) /\ Len(base) = n
        BY <2>2, <2>5
      <4> QED  BY <2>5, <3>1, <4>1, <4>2
    <3>3. top \in c .. n + 3 /\ n + 2 > c /\ (n + 2) - 1 = n + 1
      BY <1>1, <2>1, <2>2
    <3>4. Lands(nc, n + 2, c, n + 3)
      BY <2>4, <3>2, <3>3 DEF Lands
    <3> QED  BY <3>1, <3>4
  <2>7. GoesOn(code, base, ins, cstart, ctrl, nct, Len(dict), Len(code) + Len(ins) + 1)
    <3>1. \A j \in 1 .. Len(ins) : j = 1 \/ j = 2
      BY <2>5
    <3>2. n + 2 + 1 = n + 3 /\ "yield" \notin Jumps
      BY DEF Jumps
    <3>3. \A j \in 1 .. Len(ins) :
            /\ ins[j].op # "exit" /\ (ins[j].op = "word" => ins[j].arg \in 1 .. Len(dict))
            /\ ins[j].op \in Jumps => Lands(base \o ins, n + j, c, n + 3)
      BY <2>4, <2>5, <2>6, <3>1, <3>2
    <3>4. /\ \A i \in c .. n : base[i] = code[i] /\ (Waiting(ctrl, i) => Waiting(nct, i))
          /\ \A j \in 1 .. Len(nct) : \E k \in 1 .. Len(ctrl) : nct[j] = ctrl[k]
      BY <2>1, <2>2
    <3> QED  BY <2>2, <2>5, <3>2, <3>3, <3>4 DEF GoesOn
  <2>8. Emit(base, ins, nct)
    BY <1>3, <2>2, <2>3 DEF TypeUntil, Emit, Abort
  <2> QED  BY <1>1, <2>2, <2>5, <2>7, <2>8, EmitKeeps
<1> QED  BY <1>2, <1>3

\* A control stack with every open jump of another.
Keeps(ct, nct) == \A i : Waiting(ct, i) => Waiting(nct, i)

\* The code base once the open jump of the draft has been given the place hi.
Repaired(base, nct, hi) ==
  /\ base \in Codes /\ Len(base) = Len(code) /\ \A i \in 1 .. cstart - 1 : base[i] = code[i]
  /\ \A i \in cstart .. Len(code) :
       /\ base[i].op = code[i].op
       /\ base[i] = code[i] \/ (base[i].op \in Jumps /\ base[i].arg \in i + 1 .. hi)
       /\ Waiting(ctrl, i) => Waiting(nct, i) \/ base[i].arg \in i + 1 .. hi

\* ELSE and THEN give the open jump the place behind what they emit.
LEMMA PatchGoesOn ==
  ASSUME ForthInv, mode = "body", Open("if"), NEW base, NEW ins \in Codes, NEW nct \in Seq(Entries),
         NEW hi \in Nat, hi = Len(code) + Len(ins) + 1, base = Patched(hi), Keeps(Closed, nct)
  PROVE  Repaired(base, nct, hi)
<1>1. /\ code \in Codes /\ Len(code) \in Nat /\ cstart \in Nat \ {0} /\ cstart <= Len(code) + 1
  BY BodyIs
<1>2. /\ Opened \in cstart .. Len(code) /\ code[Opened].op \in Jumps
      /\ \A i : Waiting(ctrl, i) => Waiting(Closed, i) \/ i = Opened
  BY OpenIs
<1>3. PICK n \in Nat, c \in Nat \ {0}, v \in Nat, m \in Nat :
        n = Len(code) /\ c = cstart /\ v = Opened /\ m = Len(ins)
  <2>1. Len(ins) \in Nat
    BY FieldsAre
  <2>2. Opened \in Nat
    BY <1>1, <1>2
  <2> QED  BY <1>1, <2>1, <2>2
<1>4. v \in c .. n /\ c <= n + 1 /\ v \in 1 .. n /\ hi = n + m + 1
  BY <1>1, <1>2, <1>3
<1>5. /\ base \in Codes /\ Len(base) = n /\ base[v].arg = hi
      /\ \A i \in 1 .. n : base[i].op = code[i].op /\ (i # v => base[i] = code[i])
  <2>1. PICK cd \in Codes : cd = code
    BY <1>1
  <2>2. PatchOf(base, cd, v, hi)
    BY <1>3, <2>1 DEF Patched, PatchOf
  <2>3. v \in 1 .. Len(cd) /\ hi \in Int
    BY <1>3, <1>4, <2>1
  <2>4. /\ base \in Codes /\ Len(base) = Len(cd) /\ base[v].arg = hi
        /\ \A i \in 1 .. Len(cd) : base[i].op = cd[i].op /\ (i # v => base[i] = cd[i])
    BY <2>2, <2>3, PatchIs
  <2> QED  BY <1>3, <2>1, <2>4
<1>6. \A i \in 1 .. c - 1 : i \in 1 .. n /\ i # v
  BY <1>4
<1>7. \A i \in c .. n : i \in 1 .. n /\ hi \in i + 1 .. hi
  BY <1>4
<1>8. \A i \in 1 .. c - 1 : base[i] = code[i]
  BY <1>5, <1>6
<1>9. ASSUME NEW i \in c .. n
      PROVE  /\ base[i].op = code[i].op
             /\ base[i] = code[i] \/ (base[i].op \in Jumps /\ base[i].arg \in i + 1 .. hi)
             /\ Waiting(ctrl, i) => Waiting(nct, i) \/ base[i].arg \in i + 1 .. hi
  <2>1. i \in 1 .. n /\ hi \in i + 1 .. hi
    BY <1>7
  <2>2. base[i].op = code[i].op /\ (i # v => base[i] = code[i]) /\ base[v].arg = hi
    BY <2>1, <1>5
  <2>3. i = v => base[i].op \in Jumps /\ base[i].arg \in i + 1 .. hi
    BY <2>1, <2>2, <1>2, <1>3, Zenon
  <2>4. Waiting(ctrl, i) => Waiting(Closed, i) \/ i = v
    BY <1>2, <1>3, Zenon
  <2>5. Waiting(Closed, i) => Waiting(nct, i)
    BY Zenon DEF Keeps
  <2> QED  BY <2>2, <2>3, <2>4, <2>5, Zenon
<1> QED  BY <1>3, <1>5, <1>8, <1>9 DEF Repaired

\* ELSE closes the jump of IF and leaves its own open.
LEMMA TypeElseKeeps ==
  ASSUME ForthInv, TypeElse
  PROVE  ForthInv'
<1>1. /\ mode = "body" /\ code \in Codes /\ Len(code) \in Nat /\ ctrl \in Seq(Entries) /\ Len(ctrl) \in Nat
      /\ cstart \in Nat \ {0} /\ cstart <= Len(code) + 1
  <2>1. mode = "body"
    BY DEF TypeElse
  <2> QED  BY <2>1, BodyIs
<1>2. CASE ~Open("if")
  BY <1>2, PlainAbortKeeps DEF TypeElse
<1>3. CASE Open("if")
  <2>1. /\ Closed \in Seq(Entries)
        /\ \A j \in 1 .. Len(Closed) : j \in 1 .. Len(ctrl) /\ Closed[j] = ctrl[j]
        /\ Opened \in cstart .. Len(code)
    BY <1>1, <1>3, OpenIs
  <2>2. PICK n \in Nat, pct \in Seq(Entries) : n = Len(code) /\ pct = Closed
    BY <1>1, <2>1
  <2>3. PICK base, ins, nct : /\ base = Patched(n + 2) /\ ins = << Instr("branch", -1) >>
                              /\ nct = Append(pct, Entry("if", n + 1))
    OBVIOUS
  <2>4. ins \in Codes /\ Len(ins) = 1 /\ ins[1].op = "branch"
    <3>1. "branch" \in Ops /\ -1 \in Int \cup Compiled
      BY DEF Ops, Jumps
    <3> QED  BY <2>3, <3>1, InstrIs
  <2>5. /\ nct \in Seq(Entries) /\ Len(nct) = Len(pct) + 1 /\ Len(pct) \in Nat
        /\ \A j \in 1 .. Len(pct) : nct[j] = pct[j]
        /\ nct[Len(pct) + 1] = Entry("if", n + 1)
        /\ (\A i : Waiting(pct, i) => Waiting(nct, i)) /\ Waiting(nct, n + 1)
    BY <2>3, CtrlGrows
  <2>6. GoesOn(code, base, ins, cstart, ctrl, nct, Len(dict), n + 2)
        /\ base \in Codes /\ Len(base) = Len(code) /\ \A i \in 1 .. cstart - 1 : base[i] = code[i]
    <3>1. PICK hi \in Nat : hi = n + 2
      OBVIOUS
    <3>2. hi = Len(code) + Len(ins) + 1
      BY <2>2, <2>4, <3>1
    <3>3. base = Patched(hi) /\ Keeps(Closed, nct)
      BY <2>2, <2>3, <2>5, <3>1 DEF Keeps
    <3>4. /\ base \in Codes /\ Len(base) = Len(code) /\ \A i \in 1 .. cstart - 1 : base[i] = code[i]
          /\ \A i \in cstart .. Len(code) :
                /\ base[i].op = code[i].op
                /\ base[i] = code[i] \/ (base[i].op \in Jumps /\ base[i].arg \in i + 1 .. hi)
                /\ Waiting(ctrl, i) => Waiting(nct, i) \/ base[i].arg \in i + 1 .. hi
      <4>1. nct \in Seq(Entries) /\ ins \in Codes
        BY <2>2, <2>4, <2>5
      <4>2. Repaired(base, nct, hi)
        BY <1>1, <1>3, <3>2, <3>3, <4>1, PatchGoesOn, ZenonT(40)
      <4> QED  BY <4>2 DEF Repaired
    <3>5. \A j \in 1 .. Len(ins) :
            /\ ins[j].op # "exit" /\ (ins[j].op = "word" => ins[j].arg \in 1 .. Len(dict))
            /\ Waiting(nct, Len(code) + j)
      <4>1. \A j \in 1 .. Len(ins) : j = 1
        BY <2>4
      <4> QED  BY <2>2, <2>4, <2>5, <4>1
    <3>6. \A j \in 1 .. Len(nct) :
            \/ \E k \in 1 .. Len(ctrl) : nct[j] = ctrl[k]
            \/ \E k \in 1 .. Len(ins) : nct[j] = Entry("if", Len(code) + k) /\ ins[k].op \in Jumps
      <4>1. 1 \in 1 .. Len(ins) /\ ins[1].op \in Jumps
        BY <2>4 DEF Jumps
      <4>2. \A j \in 1 .. Len(nct) : j \in 1 .. Len(pct) \/ j = Len(pct) + 1
        BY <2>5
      <4>3. \A j \in 1 .. Len(pct) : j \in 1 .. Len(ctrl) /\ nct[j] = ctrl[j]
        BY <2>1, <2>2, <2>5
      <4>4. nct[Len(pct) + 1] = Entry("if", Len(code) + 1)
        BY <2>2, <2>5
      <4> QED  BY <4>1, <4>2, <4>3, <4>4
    <3> QED  BY <3>1, <3>4, <3>5, <3>6 DEF GoesOn
  <2>7. Emit(base, ins, nct)
    BY <1>3, <2>2, <2>3 DEF TypeElse, Emit, Abort
  <2>8. n + 2 = Len(code) + Len(ins) + 1
    BY <2>2, <2>4
  <2> QED  BY <1>1, <2>4, <2>5, <2>6, <2>7, <2>8, EmitKeeps
<1> QED  BY <1>2, <1>3

\* THEN closes the open jump.
LEMMA TypeThenKeeps ==
  ASSUME ForthInv, TypeThen
  PROVE  ForthInv'
<1>1. /\ mode = "body" /\ code \in Codes /\ Len(code) \in Nat /\ ctrl \in Seq(Entries) /\ Len(ctrl) \in Nat
      /\ cstart \in Nat \ {0} /\ cstart <= Len(code) + 1
  <2>1. mode = "body"
    BY DEF TypeThen
  <2> QED  BY <2>1, BodyIs
<1>2. CASE ~Open("if")
  BY <1>2, PlainAbortKeeps DEF TypeThen
<1>3. CASE Open("if")
  <2>1. /\ Closed \in Seq(Entries)
        /\ \A j \in 1 .. Len(Closed) : j \in 1 .. Len(ctrl) /\ Closed[j] = ctrl[j]
        /\ Opened \in cstart .. Len(code)
    BY <1>1, <1>3, OpenIs
  <2>2. PICK n \in Nat, nct \in Seq(Entries) : n = Len(code) /\ nct = Closed
    BY <1>1, <2>1
  <2>3. PICK base, ins : base = Patched(n + 1) /\ ins = << >>
    OBVIOUS
  <2>4. ins \in Codes /\ Len(ins) = 0
    BY <2>3 DEF Codes
  <2>5. GoesOn(code, base, ins, cstart, ctrl, nct, Len(dict), n + 1)
        /\ base \in Codes /\ Len(base) = Len(code) /\ \A i \in 1 .. cstart - 1 : base[i] = code[i]
    <3>1. PICK hi \in Nat : hi = n + 1
      OBVIOUS
    <3>2. hi = Len(code) + Len(ins) + 1
      BY <2>2, <2>4, <3>1
    <3>3. base = Patched(hi) /\ Keeps(Closed, nct)
      BY <2>2, <2>3, <3>1 DEF Keeps
    <3>4. /\ base \in Codes /\ Len(base) = Len(code) /\ \A i \in 1 .. cstart - 1 : base[i] = code[i]
          /\ \A i \in cstart .. Len(code) :
                /\ base[i].op = code[i].op
                /\ base[i] = code[i] \/ (base[i].op \in Jumps /\ base[i].arg \in i + 1 .. hi)
                /\ Waiting(ctrl, i) => Waiting(nct, i) \/ base[i].arg \in i + 1 .. hi
      <4>1. nct \in Seq(Entries) /\ ins \in Codes
        BY <2>2, <2>4
      <4>2. Repaired(base, nct, hi)
        BY <1>1, <1>3, <3>2, <3>3, <4>1, PatchGoesOn, ZenonT(40)
      <4> QED  BY <4>2 DEF Repaired
    <3>5. 1 .. Len(ins) = {}
      BY <2>4
    <3>6. \A j \in 1 .. Len(nct) : \E k \in 1 .. Len(ctrl) : nct[j] = ctrl[k]
      BY <2>1, <2>2
    <3> QED  BY <3>1, <3>4, <3>5, <3>6 DEF GoesOn
  <2>6. Emit(base, ins, nct)
    BY <1>3, <2>2, <2>3 DEF TypeThen, Emit, Abort
  <2>7. n + 1 = Len(code) + Len(ins) + 1
    BY <2>2, <2>4
  <2> QED  BY <1>1, <2>2, <2>4, <2>5, <2>6, <2>7, EmitKeeps
<1> QED  BY <1>2, <1>3

\* The end of a definition makes a word of the draft, or leaves it behind as waste.
LEMMA TypeSemicolonKeeps ==
  ASSUME ForthInv, TypeSemicolon
  PROVE  ForthInv'
<1>1. /\ mode = "body" /\ code \in Codes /\ Len(code) \in Nat /\ ctrl \in Seq(Entries) /\ Len(ctrl) \in Nat
      /\ cstart \in Nat \ {0} /\ cstart <= Len(code) + 1 /\ dict \in Seq(Words) /\ Len(dict) \in Nat
      /\ Floor = cstart /\ Draft(code, cstart, ctrl, Len(dict), Len(code) + 1)
  <2>1. mode = "body"
    BY DEF TypeSemicolon
  <2> QED  BY <2>1, BodyIs
<1>2. PICK n \in Nat, c \in Nat \ {0} : n = Len(code) /\ c = cstart
  BY <1>1
<1>3. PICK last : last = Instr("exit", 0)
  OBVIOUS
<1>4. last \in Instrs /\ last.op = "exit"
  <2>1. "exit" \in Ops /\ 0 \in Int \cup Compiled
    BY DEF Ops
  <2> QED  BY <1>3, <2>1, InstrIs
<1>5. PICK nc : nc = Append(code, last)
  OBVIOUS
<1>6. nc \in Codes /\ Len(nc) = n + 1 /\ \A i \in 1 .. n : nc[i] = code[i]
  BY <1>1, <1>2, <1>4, <1>5 DEF Codes
<1>7. CASE ~Room(1)
  BY <1>7, PlainAbortKeeps DEF TypeSemicolon
<1>8. CASE Room(1) /\ (ctrl # << >> \/ Len(dict) = MaxWords)
  <2>1. Abort(nc)
    BY <1>3, <1>5, <1>8 DEF TypeSemicolon, Abort
  <2>2. n + 1 <= CodeSize
    BY <1>2, <1>8 DEF Room
  <2>3. \A i \in 1 .. Floor - 1 : nc[i] = code[i]
    <3>1. \A i \in 1 .. c - 1 : i \in 1 .. n
      BY <1>1, <1>2
    <3> QED  BY <1>1, <1>2, <1>6, <3>1
  <2>4. Len(code) <= Len(nc) /\ Len(nc) <= CodeSize
    BY <1>2, <1>6, <2>2
  <2> QED  BY <1>6, <2>1, <2>3, <2>4, AbortKeeps
<1>9. CASE Room(1) /\ ~(ctrl # << >> \/ Len(dict) = MaxWords)
  <2>1. PICK word : word = [name |-> cname, code_start |-> cstart]
    OBVIOUS
  <2>2. word \in Words /\ word.code_start = c
    <3>1. cname \in Called
      BY DEF ForthInv, ForthTypes
    <3>2. PICK x \in Called : x = cname
      BY <3>1
    <3>3. word = [name |-> x, code_start |-> c]
      BY <1>2, <2>1, <3>2
    <3> QED  BY <3>3 DEF Words
  <2>3. /\ code' = nc /\ dict' = Append(dict, word) /\ mode' = "run" /\ ctrl' = ctrl /\ rstack' = rstack
        /\ cname' = cname /\ cstart' = cstart /\ ip' = ip
    BY <1>3, <1>5, <1>9, <2>1 DEF TypeSemicolon
  <2>4. PICK fin : Shelf(code, dict, fin, c)
    BY <1>1, <1>2 DEF ForthInv
  <2>5. ctrl = << >> /\ Len(ctrl) = 0
    BY <1>9
  <2>6. PICK f : Shelf(nc, Append(dict, word), f, n + 2)
    <3>1. Draft(code, c, ctrl, Len(dict), Len(code) + 1)
      BY <1>1, <1>2
    <3>2. \E f : Shelf(Append(code, last), Append(dict, word), f, Len(code) + 2)
      BY <1>1, <1>4, <2>2, <2>4, <2>5, <3>1, ShelfGrows
    <3> QED  BY <1>2, <1>5, <3>2
  <2>7. ForthTypes'
    <3>1. Append(dict, word) \in Seq(Words)
      BY <1>1, <2>2
    <3>2. n + 1 <= CodeSize /\ c \in 1 .. n + 2 /\ n + 2 = n + 1 + 1
      BY <1>1, <1>2, <1>9 DEF Room
    <3>3. rstack = << >>
      BY <1>1 DEF ForthInv, ForthTypes
    <3> QED  BY <1>2, <1>6, <2>3, <2>5, <3>1, <3>2, <3>3 DEF ForthInv, ForthTypes
  <2>8. Floor' = n + 2
    <3>1. n + 1 + 1 = n + 2
      OBVIOUS
    <3> QED  BY <1>6, <2>3, <3>1 DEF Floor
  <2>9. Shelf(code, dict, f, Floor)'
    BY <2>3, <2>6, <2>8
  <2> QED  BY <2>3, <2>7, <2>9 DEF ForthInv
<1> QED  BY <1>7, <1>8, <1>9

\* Literals, primitives and words in a definition.
LEMMA CompileKeeps ==
  ASSUME ForthInv
  PROVE  /\ \A n \in Literals : CompileLiteral(n) => ForthInv'
         /\ \A p \in Compiled : CompilePrimitive(p) => ForthInv'
         /\ \A n \in Names : CompileWord(n) => ForthInv'
<1>1. {"literal", "primitive", "word"} \subseteq Ops \ (Jumps \cup { "exit" })
  BY DEF Ops, Jumps
<1>2. ASSUME NEW n \in Literals, CompileLiteral(n)
      PROVE  ForthInv'
  <2>1. n \in Int
    BY ForthAssumption DEF Cell
  <2>2. mode = "body" /\ Emit(code, << Instr("literal", n) >>, ctrl)
    BY <1>2 DEF CompileLiteral
  <2> QED  BY <1>1, <2>1, <2>2, EmitOne
<1>3. ASSUME NEW p \in Compiled, CompilePrimitive(p)
      PROVE  ForthInv'
  <2>1. mode = "body" /\ Emit(code, << Instr("primitive", p) >>, ctrl)
    BY <1>3 DEF CompilePrimitive
  <2> QED  BY <1>1, <2>1, EmitOne
<1>4. ASSUME NEW n \in Names, CompileWord(n)
      PROVE  ForthInv'
  <2>1. CASE ~Defined(n)
    BY <1>4, <2>1, PlainAbortKeeps DEF CompileWord
  <2>2. CASE Defined(n)
    <3>1. mode = "body" /\ dict \in Seq(Words) /\ Len(dict) \in Nat
      <4>1. mode = "body"
        BY <1>4 DEF CompileWord
      <4> QED  BY <4>1, BodyIs
    <3>2. PICK w \in 1 .. Len(dict) : w = Word(n)
      BY <2>2, <3>1, WordFound
    <3>3. w \in Int
      BY <3>1
    <3>4. Emit(code, << Instr("word", w) >>, ctrl)
      BY <1>4, <2>2, <3>2 DEF CompileWord, Emit, Abort
    <3> QED  BY <1>1, <3>1, <3>3, <3>4, EmitOne
  <2> QED  BY <2>1, <2>2
<1> QED  BY <1>2, <1>3, <1>4

\* A definition begins behind all code.
LEMMA TypeColonKeeps ==
  ASSUME ForthInv, TypeColon
  PROVE  ForthInv'
<1>1. /\ mode = "run" /\ mode' = "name" /\ cstart' = Len(code) + 1 /\ code' = code /\ dict' = dict
      /\ ctrl' = ctrl /\ rstack' = rstack /\ cname' = cname /\ ip' = ip
  BY DEF TypeColon
<1>2. code \in Codes /\ Len(code) \in Nat
  <2>1. code \in Codes
    BY DEF ForthInv, ForthTypes
  <2> QED  BY <2>1, FieldsAre
<1>3. Floor = Len(code) + 1 /\ Floor' = Len(code) + 1
  BY <1>1 DEF Floor
<1>4. ForthTypes'
  <2>1. Len(code) + 1 \in 1 .. Len(code) + 1
    BY <1>2
  <2> QED  BY <1>1, <2>1 DEF ForthInv, ForthTypes
<1>5. PICK fin : Shelf(code, dict, fin, Floor)
  BY DEF ForthInv
<1>6. Shelf(code, dict, fin, Floor)'
  BY <1>1, <1>3, <1>5
<1> QED  BY <1>1, <1>4, <1>6 DEF ForthInv

\* The name opens an empty draft.
LEMMA TypeNameKeeps ==
  ASSUME ForthInv, NEW n \in Names, TypeName(n)
  PROVE  ForthInv'
<1>1. /\ mode = "name" /\ mode' = "body" /\ cname' = n /\ code' = code /\ dict' = dict
      /\ ctrl' = ctrl /\ rstack' = rstack /\ cstart' = cstart /\ ip' = ip
  BY DEF TypeName
<1>2. code \in Codes /\ Len(code) \in Nat /\ ctrl = << >> /\ cstart = Len(code) + 1
  <2>1. code \in Codes /\ ctrl = << >> /\ cstart = Len(code) + 1
    BY <1>1 DEF ForthInv, ForthTypes
  <2> QED  BY <2>1, FieldsAre
<1>3. Floor' = Floor
  BY <1>1 DEF Floor
<1>4. ForthTypes'
  <2>1. n \in Called
    BY DEF Called
  <2> QED  BY <1>1, <1>2, <2>1 DEF ForthInv, ForthTypes
<1>5. PICK fin : Shelf(code, dict, fin, Floor)
  BY DEF ForthInv
<1>6. Shelf(code, dict, fin, Floor)'
  BY <1>1, <1>3, <1>5
<1>7. Draft(code, cstart, ctrl, Len(dict), Len(code) + 1)
  <2>1. cstart \in 1 .. Len(code) + 1 /\ cstart .. Len(code) = {} /\ 1 .. Len(ctrl) = {}
    BY <1>2
  <2> QED  BY <2>1 DEF Draft
<1>8. Draft(code, cstart, ctrl, Len(dict), Len(code) + 1)'
  BY <1>1, <1>7
<1> QED  BY <1>1, <1>4, <1>6, <1>8 DEF ForthInv

\* A word typed outside a definition.
LEMMA TypeWordKeeps ==
  ASSUME ForthInv, NEW n, TypeWord(n)
  PROVE  ForthInv'
<1>1. CASE ~Defined(n)
  BY <1>1, PlainAbortKeeps DEF TypeWord
<1>2. CASE Defined(n)
  <2>1. /\ mode = "run" /\ mode' = "exec" /\ code' = code /\ dict' = dict
        /\ ctrl' = ctrl /\ rstack' = rstack /\ cname' = cname /\ cstart' = cstart
        /\ ip' = dict[Word(n)].code_start
    BY <1>2 DEF TypeWord
  <2>2. dict \in Seq(Words) /\ rstack = << >>
    BY <2>1 DEF ForthInv, ForthTypes
  <2>3. PICK w \in 1 .. Len(dict) : w = Word(n)
    BY <1>2, <2>2, WordFound
  <2>4. PICK s \in Nat \ {0} : s = dict[w].code_start
    BY <2>2, FieldsAre
  <2>5. PICK fin : Shelf(code, dict, fin, Floor)
    BY DEF ForthInv
  <2>6. fin \in [1 .. Len(dict) -> Nat] /\ s <= fin[w]
    <3>1. fin \in [1 .. Len(dict) -> Nat] /\ fin[w] \in dict[w].code_start .. Floor - 1
      BY <2>5 DEF Shelf
    <3> QED  BY <2>4, <3>1
  <2>7. Running(Append(<< >>, s), dict, fin)
    BY <2>2, <2>4, <2>6, RunningStarts
  <2>8. Floor' = Floor /\ ForthTypes'
    <3>1. s \in Nat /\ ip' = s
      BY <2>1, <2>3, <2>4
    <3> QED  BY <2>1, <3>1 DEF Floor, ForthInv, ForthTypes
  <2>9. Shelf(code, dict, fin, Floor)' /\ Running(Append(rstack, ip), dict, fin)'
    BY <2>1, <2>2, <2>3, <2>4, <2>5, <2>7, <2>8
  <2> QED  BY <2>1, <2>8, <2>9 DEF ForthInv
<1> QED  BY <1>1, <1>2

\* The next instruction of the same word.
LEMMA SuccKeeps ==
  ASSUME ForthInv, mode = "exec", code[ip].op # "exit", GoTo(ip + 1),
         UNCHANGED << code, dict, ctrl, cname, cstart >>
  PROVE  ForthInv'
<1>1. dict \in Seq(Words) /\ rstack \in Seq(Nat) /\ ip \in Nat
  BY DEF ForthInv, ForthTypes
<1>2. PICK rs \in Seq(Nat), a \in Nat : rs = rstack /\ a = ip
  BY <1>1
<1>3. PICK fin \in [1 .. Len(dict) -> Nat] :
        /\ Shelf(code, dict, fin, Floor) /\ Running(Append(rs, a), dict, fin)
        /\ \A w \in 1 .. Len(dict) :
             a \in dict[w].code_start .. fin[w] => a + 1 \in dict[w].code_start .. fin[w]
  BY <1>2, HereIs
<1>4. a + 1 \in Nat
  OBVIOUS
<1>5. Running(Append(rs, a + 1), dict, fin)
  BY <1>1, <1>3, <1>4, RunningMoves
<1>6. mode' = "exec" /\ rstack' = rs /\ ip' = a + 1 /\ dict' = dict
  BY <1>2 DEF GoTo
<1>7. Running(Append(rstack, ip), dict, fin)'
  BY <1>5, <1>6
<1> QED  BY <1>3, <1>4, <1>6, <1>7, ExecKeeps

\* A jump within the word.
LEMMA JumpKeeps ==
  ASSUME ForthInv, mode = "exec", code[ip].op \in Jumps, GoTo(Arg),
         UNCHANGED << code, dict, ctrl, cname, cstart >>
  PROVE  ForthInv'
<1>1. dict \in Seq(Words) /\ rstack \in Seq(Nat) /\ ip \in Nat
  BY DEF ForthInv, ForthTypes
<1>2. PICK fin \in [1 .. Len(dict) -> Nat] :
        /\ Shelf(code, dict, fin, Floor) /\ Running(Append(rstack, ip), dict, fin)
        /\ \E w \in 1 .. Len(dict) : ip \in dict[w].code_start .. fin[w]
        /\ \A w \in 1 .. Len(dict) :
             ip \in dict[w].code_start .. fin[w] => Lands(code, ip, dict[w].code_start, fin[w])
  BY HereIs
<1>3. \A w \in 1 .. Len(dict) :
        ip \in dict[w].code_start .. fin[w] => Arg \in dict[w].code_start .. fin[w]
  BY <1>2 DEF Lands, Arg
<1>4. Arg \in Nat
  <2>1. PICK w \in 1 .. Len(dict) : Arg \in dict[w].code_start .. fin[w]
    BY <1>2, <1>3
  <2>2. dict[w].code_start \in Nat /\ fin[w] \in Nat
    BY <1>1, FieldsAre
  <2> QED  BY <2>1, <2>2
<1>5. PICK rs \in Seq(Nat), a \in Nat, b \in Nat : rs = rstack /\ a = ip /\ b = Arg
  BY <1>1, <1>4
<1>6. Running(Append(rs, b), dict, fin)
  <2>1. Running(Append(rs, a), dict, fin)
    BY <1>2, <1>5
  <2>2. \A w \in 1 .. Len(dict) :
          a \in dict[w].code_start .. fin[w] => b \in dict[w].code_start .. fin[w]
    BY <1>3, <1>5
  <2> QED  BY <1>1, <2>1, <2>2, RunningMoves
<1>7. mode' = "exec" /\ rstack' = rs /\ ip' = b /\ dict' = dict
  BY <1>5 DEF GoTo
<1>8. Running(Append(rstack, ip), dict, fin)'
  BY <1>6, <1>7
<1> QED  BY <1>2, <1>7, <1>8, ExecKeeps

\* A call, of an earlier word.
LEMMA ExecWordKeeps ==
  ASSUME ForthInv, ExecWord
  PROVE  ForthInv'
<1>1. dict \in Seq(Words) /\ rstack \in Seq(Nat) /\ ip \in Nat /\ mode = "exec" /\ code[ip].op = "word"
  BY DEF ForthInv, ForthTypes, ExecWord, Executing
<1>2. CASE Len(rstack) = RStackSize
  BY <1>2, PlainAbortKeeps DEF ExecWord
<1>3. CASE Len(rstack) # RStackSize
  <2>1. PICK fin \in [1 .. Len(dict) -> Nat] :
          /\ Shelf(code, dict, fin, Floor) /\ Running(Append(rstack, ip), dict, fin)
          /\ \E w \in 1 .. Len(dict) : ip \in dict[w].code_start .. fin[w]
          /\ \A w \in 1 .. Len(dict) : ip \in dict[w].code_start .. fin[w] =>
               ip + 1 \in dict[w].code_start .. fin[w] /\ code[ip].arg \in 1 .. w - 1
    BY <1>1, HereIs
  <2>2. PICK w \in 1 .. Len(dict) : ip \in dict[w].code_start .. fin[w]
    BY <2>1
  <2>3. Arg \in 1 .. Len(dict)
    <3>1. Arg \in 1 .. w - 1 /\ Len(dict) \in Nat
      BY <1>1, <2>1, <2>2, FieldsAre DEF Arg
    <3> QED  BY <3>1
  <2>4. PICK v \in 1 .. Len(dict) : v = Arg
    BY <2>3
  <2>5. PICK b \in Nat : b = dict[v].code_start
    <3>1. dict[v].code_start \in Nat
      BY <1>1, FieldsAre
    <3> QED  BY <3>1
  <2>6. PICK rs \in Seq(Nat), a \in Nat : rs = rstack /\ a = ip
    BY <1>1
  <2>7. b \in dict[v].code_start .. fin[v]
    <3>1. fin[v] \in dict[v].code_start .. Floor - 1
      BY <2>1 DEF Shelf
    <3> QED  BY <2>5, <3>1
  <2>8. \A x \in 1 .. Len(dict) :
          a \in dict[x].code_start .. fin[x] => a + 1 \in dict[x].code_start .. fin[x] /\ v < x
    <3> TAKE x \in 1 .. Len(dict)
    <3>1. v \in 1 .. x - 1 => v < x
      OBVIOUS
    <3> QED  BY <2>1, <2>4, <2>6, <3>1 DEF Arg
  <2>9. Running(Append(Append(rs, a + 1), b), dict, fin)
    BY <1>1, <2>1, <2>6, <2>7, <2>8, RunningCalls
  <2>10. /\ rstack' = Append(rs, a + 1) /\ ip' = b /\ dict' = dict /\ mode' = "exec"
         /\ UNCHANGED << code, dict, ctrl, cname, cstart >>
    BY <1>1, <1>3, <2>4, <2>5, <2>6 DEF ExecWord
  <2>11. Running(Append(rstack, ip), dict, fin)' /\ Append(rs, a + 1) \in Seq(Nat)
    BY <2>9, <2>10
  <2> QED  BY <1>1, <2>1, <2>10, <2>11, ExecKeeps
<1> QED  BY <1>2, <1>3

\* A return, to the caller or to the line.
LEMMA ExecExitKeeps ==
  ASSUME ForthInv, ExecExit
  PROVE  ForthInv'
<1>1. /\ dict \in Seq(Words) /\ rstack \in Seq(Nat) /\ ip \in Nat /\ mode = "exec"
      /\ UNCHANGED << code, dict, ctrl, cname, cstart >>
  BY DEF ForthInv, ForthTypes, ExecExit, Executing
<1>2. CASE rstack = << >>
  <2>1. mode' = "run" /\ ip' = 0 /\ rstack' = rstack
    BY <1>2 DEF ExecExit
  <2>2. Floor' = Floor /\ ForthTypes'
    BY <1>1, <1>2, <2>1 DEF Floor, ForthInv, ForthTypes
  <2>3. PICK fin : Shelf(code, dict, fin, Floor)
    BY DEF ForthInv
  <2>4. Shelf(code, dict, fin, Floor)'
    BY <1>1, <2>2, <2>3
  <2> QED  BY <2>1, <2>2, <2>4 DEF ForthInv
<1>3. CASE rstack # << >>
  <2>1. PICK rs \in Seq(Nat), a \in Nat : rs = rstack /\ a = ip
    BY <1>1
  <2>2. PICK fin \in [1 .. Len(dict) -> Nat] :
          Shelf(code, dict, fin, Floor) /\ Running(Append(rs, a), dict, fin)
    BY <1>1, <2>1, HereIs
  <2>3. /\ rs[Len(rs)] \in Nat /\ SubSeq(rs, 1, Len(rs) - 1) \in Seq(Nat)
        /\ Running(Append(SubSeq(rs, 1, Len(rs) - 1), rs[Len(rs)]), dict, fin)
    BY <1>1, <1>3, <2>1, <2>2, RunningReturns
  <2>4. mode' = "exec" /\ ip' = rs[Len(rs)] /\ rstack' = SubSeq(rs, 1, Len(rs) - 1)
    BY <1>1, <1>3, <2>1 DEF ExecExit
  <2>5. Running(Append(rstack, ip), dict, fin)'
    BY <1>1, <2>3, <2>4
  <2> QED  BY <1>1, <2>2, <2>3, <2>4, <2>5, ExecKeeps
<1> QED  BY <1>2, <1>3

\* The data stack either takes it or the word is aborted.
LEMMA DataSteps ==
  ASSUME NEW p, NEW n
  PROVE  /\ TypeLiteral(n) => Abort(code) \/ (Stay /\ UNCHANGED << code, dict, ctrl, cname, cstart >>)
         /\ TypePrimitive(p) => Abort(code) \/ (Stay /\ UNCHANGED << code, dict, ctrl, cname, cstart >>)
         /\ ExecLiteral => Abort(code) \/ (GoTo(ip + 1) /\ UNCHANGED << code, dict, ctrl, cname, cstart >>)
         /\ ExecPrimitive => Abort(code) \/ (GoTo(ip + 1) /\ UNCHANGED << code, dict, ctrl, cname, cstart >>)
<1>1. TypeLiteral(n) => Abort(code) \/ (Stay /\ UNCHANGED << code, dict, ctrl, cname, cstart >>)
  BY DEF TypeLiteral, Literal
<1>2. TypePrimitive(p) => Abort(code) \/ (Stay /\ UNCHANGED << code, dict, ctrl, cname, cstart >>)
  BY DEF TypePrimitive, Primitive
<1>3. ExecLiteral => Abort(code) \/ (GoTo(ip + 1) /\ UNCHANGED << code, dict, ctrl, cname, cstart >>)
  BY DEF ExecLiteral, Literal
<1>4. ExecPrimitive => Abort(code) \/ (GoTo(ip + 1) /\ UNCHANGED << code, dict, ctrl, cname, cstart >>)
  BY DEF ExecPrimitive, Primitive
<1> QED  BY <1>1, <1>2, <1>3, <1>4

\* The instructions that stay within their word.
LEMMA ExecKeepsAll ==
  ASSUME ForthInv, ExecLiteral \/ ExecPrimitive \/ ExecBranch \/ ExecBranchIfZero \/ ExecYield
  PROVE  ForthInv'
<1>1. {"literal", "primitive", "yield", "branch", "zbranch"} \cap { "exit" } = {}
      /\ "branch" \in Jumps /\ "zbranch" \in Jumps
  BY DEF Jumps
<1>2. CASE ExecLiteral
  <2>1. mode = "exec" /\ code[ip].op # "exit"
    BY <1>2 DEF ExecLiteral, Executing
  <2> QED  BY <1>2, <2>1, DataSteps, PlainAbortKeeps, SuccKeeps
<1>3. CASE ExecPrimitive
  <2>1. mode = "exec" /\ code[ip].op # "exit"
    BY <1>3 DEF ExecPrimitive, Executing
  <2> QED  BY <1>3, <2>1, DataSteps, PlainAbortKeeps, SuccKeeps
<1>4. CASE ExecBranch
  <2>1. mode = "exec" /\ code[ip].op \in Jumps /\ GoTo(Arg) /\ UNCHANGED << code, dict, ctrl, cname, cstart >>
    BY <1>1, <1>4 DEF ExecBranch, Executing, Jump
  <2> QED  BY <2>1, JumpKeeps
<1>5. CASE ExecYield
  <2>1. mode = "exec" /\ code[ip].op # "exit" /\ GoTo(ip + 1) /\ UNCHANGED << code, dict, ctrl, cname, cstart >>
    BY <1>5 DEF ExecYield, Executing, Jump
  <2> QED  BY <2>1, SuccKeeps
<1>6. CASE ExecBranchIfZero
  <2>1. mode = "exec" /\ code[ip].op \in Jumps /\ code[ip].op # "exit"
    BY <1>1, <1>6 DEF ExecBranchIfZero, Executing
  <2>2. \/ Abort(code)
        \/ GoTo(Arg) /\ UNCHANGED << code, dict, ctrl, cname, cstart >>
        \/ GoTo(ip + 1) /\ UNCHANGED << code, dict, ctrl, cname, cstart >>
    BY <1>6 DEF ExecBranchIfZero, GoTo
  <2> QED  BY <2>1, <2>2, PlainAbortKeeps, JumpKeeps, SuccKeeps
<1> QED  BY <1>2, <1>3, <1>4, <1>5, <1>6

\* What forth_init leaves.
LEMMA ForthStart == ForthInit => ForthInv
<1> SUFFICES ASSUME ForthInit PROVE ForthInv
  OBVIOUS
<1>1. /\ code = << >> /\ dict = << >> /\ ctrl = << >> /\ rstack = << >> /\ mode = "run" /\ cstart = 1
      /\ ip = 0
  BY DEF ForthInit
<1>2. cname \in Called
  BY DEF ForthInit, Called
<1>3. << >> \in Codes /\ << >> \in Seq(Words) /\ << >> \in Seq(Entries) /\ << >> \in Seq(Nat)
  BY DEF Codes
<1>4. Len(<< >>) = 0 /\ 0 <= CodeSize
  BY ForthAssumption
<1>5. ForthTypes
  BY <1>1, <1>2, <1>3, <1>4 DEF ForthTypes
<1>6. PICK fin \in [1 .. 0 -> Nat] : TRUE
  <2>1. [w \in 1 .. 0 |-> 0] \in [1 .. 0 -> Nat]
    OBVIOUS
  <2> QED  BY <2>1
<1>7. Shelf(code, dict, fin, Floor)
  BY <1>1, <1>4, <1>6 DEF Shelf
<1> QED  BY <1>1, <1>5, <1>7 DEF ForthInv

\* The inductive invariant.
LEMMA ForthSafe == ForthSpec => []ForthInv
<1>1. ForthInv /\ [ForthNext]_forthVars => ForthInv'
  <2> SUFFICES ASSUME ForthInv, [ForthNext]_forthVars PROVE ForthInv'
    OBVIOUS
  <2>1. CASE TypeColon
    BY <2>1, TypeColonKeeps
  <2>2. CASE TypeIf
    BY <2>2, TypeIfKeeps
  <2>3. CASE TypeElse
    BY <2>3, TypeElseKeeps
  <2>4. CASE TypeThen
    BY <2>4, TypeThenKeeps
  <2>5. CASE TypeBegin
    BY <2>5, TypeBeginKeeps
  <2>6. CASE TypeUntil
    BY <2>6, TypeUntilKeeps
  <2>7. CASE TypeSemicolon
    BY <2>7, TypeSemicolonKeeps
  <2>8. ASSUME NEW n \in Literals, TypeLiteral(n) \/ CompileLiteral(n)
        PROVE  ForthInv'
    BY <2>8, DataSteps, PlainAbortKeeps, StayKeeps, CompileKeeps
  <2>9. ASSUME NEW p \in Typed, TypePrimitive(p)
        PROVE  ForthInv'
    BY <2>9, DataSteps, PlainAbortKeeps, StayKeeps
  <2>10. ASSUME NEW p \in Compiled, CompilePrimitive(p)
         PROVE  ForthInv'
    BY <2>10, CompileKeeps
  <2>11. ASSUME NEW n \in Names, TypeWord(n) \/ TypeName(n) \/ CompileWord(n)
         PROVE  ForthInv'
    BY <2>11, TypeWordKeeps, TypeNameKeeps, CompileKeeps
  <2>12. CASE ExecLiteral \/ ExecPrimitive \/ ExecBranch \/ ExecBranchIfZero \/ ExecYield
    BY <2>12, ExecKeepsAll
  <2>13. CASE ExecWord
    BY <2>13, ExecWordKeeps
  <2>14. CASE ExecExit
    BY <2>14, ExecExitKeeps
  <2>15. CASE UNCHANGED forthVars
    BY <2>15, StayKeeps DEF forthVars, Stay
  <2> QED  BY <2>1, <2>2, <2>3, <2>4, <2>5, <2>6, <2>7, <2>8, <2>9, <2>10, <2>11, <2>12, <2>13, <2>14,
              <2>15 DEF ForthNext
<1> QED  BY <1>1, ForthStart, PTL DEF ForthSpec

----------------------------------------------------------------------------
(* The theorems.                                                           *)

\* The invariant says what WordsClosed says of the code.
LEMMA InvClosed == ForthInv => WordsClosed
<1> SUFFICES ASSUME ForthInv PROVE WordsClosed
  OBVIOUS
<1>1. ForthTypes
  BY DEF ForthInv
<1>2. PICK fin : Shelf(code, dict, fin, Floor) /\ (mode = "exec" => Running(Append(rstack, ip), dict, fin))
  BY DEF ForthInv
<1>3. /\ \A w \in DOMAIN dict : BodyOf(w) = dict[w].code_start .. fin[w]
      /\ \A v, w \in DOMAIN dict, i \in Nat : i \in BodyOf(v) /\ i \in BodyOf(w) => v = w
      /\ DOMAIN dict = 1 .. Len(dict) /\ Len(dict) \in Nat
  BY <1>1, <1>2, WordsApart, SizesAre
<1>4. ASSUME NEW w \in DOMAIN dict, NEW i \in BodyOf(w)
      PROVE  /\ code[i].op \in {"branch", "zbranch"} => code[i].arg \in BodyOf(w)
             /\ code[i].op = "word" => code[i].arg \in 1 .. w - 1
  <2>1. /\ code[i].op \in Jumps => Lands(code, i, dict[w].code_start, fin[w])
        /\ code[i].op = "word" => code[i].arg \in 1 .. w - 1
    BY <1>2, <1>3, <1>4 DEF Shelf
  <2> QED  BY <1>3, <2>1 DEF Lands, Jumps
<1>5. ASSUME mode = "exec"
      PROVE  LET at == Append(rstack, ip)
                 owner(i) == CHOOSE w \in DOMAIN dict : at[i] \in BodyOf(w)
             IN  /\ \A i \in DOMAIN at : \E w \in DOMAIN dict : at[i] \in BodyOf(w)
                 /\ \A i \in 1 .. Len(rstack) : owner(i + 1) < owner(i)
  <2> DEFINE at == Append(rstack, ip)
             owner(i) == CHOOSE w \in DOMAIN dict : at[i] \in BodyOf(w)
  <2>1. rstack \in Seq(Nat) /\ ip \in Nat /\ Len(rstack) \in Nat
    BY <1>1 DEF ForthTypes
  <2>2. at \in Seq(Nat) /\ Len(at) = Len(rstack) + 1 /\ DOMAIN at = 1 .. Len(at)
    BY <2>1
  <2>3. Running(at, dict, fin)
    BY <1>2, <1>5
  <2> HIDE DEF at
  <2>4. PICK ow \in [1 .. Len(at) -> 1 .. Len(dict)] :
          /\ \A i \in 1 .. Len(at) : at[i] \in dict[ow[i]].code_start .. fin[ow[i]]
          /\ \A i \in 1 .. Len(at) - 1 : ow[i + 1] < ow[i]
    BY <2>3 DEF Running
  <2>5. ASSUME NEW i \in 1 .. Len(at)
        PROVE  at[i] \in Nat /\ ow[i] \in DOMAIN dict /\ at[i] \in BodyOf(ow[i]) /\ owner(i) = ow[i]
    <3>1. at[i] \in Nat /\ ow[i] \in DOMAIN dict /\ at[i] \in BodyOf(ow[i])
      <4>1. at[i] \in Nat
        BY <2>2
      <4>2. PICK w \in DOMAIN dict : w = ow[i]
        BY <1>3
      <4>3. at[i] \in BodyOf(w)
        BY <1>3, <2>4, <4>2
      <4> QED  BY <4>1, <4>2, <4>3
    <3>2. \A w \in DOMAIN dict : at[i] \in BodyOf(w) => w = ow[i]
      BY <1>3, <3>1
    <3> QED  BY <3>1, <3>2
  <2>6. ASSUME NEW i \in 1 .. Len(rstack)
        PROVE  owner(i + 1) < owner(i)
    <3>1. i \in 1 .. Len(at) /\ i + 1 \in 1 .. Len(at) /\ i \in 1 .. Len(at) - 1
      BY <2>1, <2>2
    <3>2. owner(i) = ow[i] /\ owner(i + 1) = ow[i + 1]
      BY <2>5, <3>1
    <3> QED  BY <2>4, <3>1, <3>2
  <2>7. \A i \in DOMAIN at : \E w \in DOMAIN dict : at[i] \in BodyOf(w)
    BY <2>2, <2>5
  <2> QED  BY <2>6, <2>7 DEF at
<1> QED  BY <1>4, <1>5 DEF WordsClosed

\* No branch of a defined word leads out of it, a call goes to an earlier word, and a
\* running word waits inside a later one: so of everything that can be typed.
THEOREM WordsStayClosed == ForthSpec => []WordsClosed
BY ForthSafe, InvClosed, PTL

\* What moves a running word back is a jump behind a yield.
LEMMA BackAfterYield ==
  ASSUME ForthInv, [ForthNext]_forthVars,
         mode = "exec", mode' = "exec", rstack' = rstack, ip' <= ip, ~UNCHANGED forthVars
  PROVE  ip > 1 /\ code[ip - 1].op = "yield"
<1>1. /\ ip \in Nat /\ rstack \in Seq(Nat) /\ dict \in Seq(Words) /\ ~(ip' = ip + 1)
  BY DEF ForthInv, ForthTypes
<1>2. ~Abort(code)
  BY DEF Abort
<1>3. ~ExecLiteral /\ ~ExecPrimitive
  BY <1>1, <1>2, DataSteps DEF GoTo
<1>4. ~ExecYield
  BY <1>1 DEF ExecYield, Jump, GoTo
<1>5. ~ExecWord
  <2>1. Append(rstack, ip + 1) # rstack
    <3>1. Len(Append(rstack, ip + 1)) = Len(rstack) + 1 /\ Len(rstack) \in Nat
      BY <1>1
    <3> QED  BY <3>1
  <2> QED  BY <1>2, <2>1 DEF ExecWord
<1>6. ~ExecExit
  <2>1. rstack # << >> => SubSeq(rstack, 1, Len(rstack) - 1) # rstack
    <3>1. PICK rs \in Seq(Nat) : rs = rstack
      BY <1>1
    <3>2. ASSUME rs # << >>
          PROVE  SubSeq(rs, 1, Len(rs) - 1) # rs
      <4>1. PICK n \in Nat \ {0} : n = Len(rs)
        BY <3>2
      <4>2. Len(SubSeq(rs, 1, n - 1)) = n - 1
        BY <4>1
      <4> QED  BY <4>1, <4>2
    <3> QED  BY <3>1, <3>2
  <2> QED  BY <2>1 DEF ExecExit
<1>7. ExecBranch \/ ExecBranchIfZero
  <2>1. /\ ~TypeColon /\ ~TypeIf /\ ~TypeElse /\ ~TypeThen /\ ~TypeBegin /\ ~TypeUntil /\ ~TypeSemicolon
        /\ \A n : ~TypeLiteral(n) /\ ~CompileLiteral(n) /\ ~TypePrimitive(n) /\ ~CompilePrimitive(n)
                 /\ ~TypeWord(n) /\ ~TypeName(n) /\ ~CompileWord(n)
    BY DEF TypeColon, TypeIf, TypeElse, TypeThen, TypeBegin, TypeUntil, TypeSemicolon, TypeLiteral,
           CompileLiteral, TypePrimitive, CompilePrimitive, TypeWord, TypeName, CompileWord
  <2> QED  BY <1>3, <1>4, <1>5, <1>6, <2>1 DEF ForthNext
<1>8. code[ip].op \in Jumps /\ ip' = Arg
  BY <1>1, <1>2, <1>7 DEF ExecBranch, ExecBranchIfZero, Jump, GoTo, Executing, Jumps
<1>9. PICK fin \in [1 .. Len(dict) -> Nat], w \in 1 .. Len(dict) :
        /\ ip \in dict[w].code_start .. fin[w]
        /\ code[ip].op \in Jumps => Lands(code, ip, dict[w].code_start, fin[w])
  BY HereIs
<1>10. PICK s \in Nat \ {0}, a \in Nat, b \in Int : s = dict[w].code_start /\ a = ip /\ b = Arg
  <2>1. dict[w].code_start \in Nat \ {0}
    BY <1>1, FieldsAre
  <2>2. Arg \in Int
    BY <1>8, <1>9 DEF Lands, Arg
  <2> QED  BY <1>1, <2>1, <2>2
<1>11. b > a \/ (a > s /\ code[a - 1].op = "yield")
  BY <1>8, <1>9, <1>10 DEF Lands, Arg
<1>12. b <= a
  BY <1>8, <1>10
<1> QED  BY <1>10, <1>11, <1>12

\* A loop yields in every turn, whatever was compiled.
THEOREM LoopsAlwaysYield == ForthSpec => LoopsYield
<1>1. ForthInv /\ [ForthNext]_forthVars =>
        [mode = "exec" /\ mode' = "exec" /\ rstack' = rstack /\ ip' <= ip
           => ip > 1 /\ code[ip - 1].op = "yield"]_forthVars
  BY BackAfterYield
<1> QED  BY <1>1, ForthSafe, PTL DEF ForthSpec, LoopsYield

=============================================================================
