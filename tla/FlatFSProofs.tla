---------------------------- MODULE FlatFSProofs ----------------------------
(***************************************************************************)
(* Theorems about the filesystem (FlatFS), for every size of its disk,     *)
(* tables, sectors, files and paths: whatever writes fail and whenever the *)
(* machine stops. First its invariants; then what its tables lead to, and  *)
(* that each call does to it what FileStore says (StoreImplemented).       *)
(***************************************************************************)
EXTENDS FlatFS, SequenceTheorems, NaturalsInduction, WellFoundedInduction, TLAPS

----------------------------------------------------------------------------
(* Recursion over the numbers.                                             *)

\* What zero has and every successor inherits, every number has.
LEMMA EveryNat ==
  ASSUME NEW G, 0 \in G, \A n \in Nat : n \in G => n + 1 \in G
  PROVE  \A n \in Nat : n \in G
<1> DEFINE Bad == Nat \ G
<1> SUFFICES ASSUME Bad # {} PROVE FALSE
  OBVIOUS
<1>1. PICK m \in Bad : \A k \in Bad : ~(<< k, m >> \in OpToRel(<, Nat))
  BY WFMin, NatLessThanWellFounded
<1>2. \A k \in Nat : k < m => k \in G
  BY <1>1 DEF OpToRel
<1>3. m # 0 /\ m - 1 \in Nat /\ m - 1 < m /\ (m - 1) + 1 = m
  <2>1. m \in Nat /\ m \notin G
    OBVIOUS
  <2> HIDE DEF Bad
  <2>2. m # 0
    BY <2>1
  <2> QED  BY <2>1, <2>2
<1>4. m - 1 \in G
  BY <1>2, <1>3
<1> QED  BY <1>1, <1>3, <1>4

\* N steps within S, the first from x, and all the places they lead to.
Steps(S, N, x, step) == N \in Nat /\ x \in S /\ step \in [1 .. N -> [S -> S]]
Stepped(S, N, x, step, f) ==
  f \in [0 .. N -> S] /\ f[0] = x /\ \A n \in 1 .. N : f[n] = step[n][f[n - 1]]

\* A step taken n times over from x is a function of n.
LEMMA Iterates ==
  ASSUME NEW S, NEW N, NEW x, NEW step, Steps(S, N, x, step)
  PROVE  \E f : Stepped(S, N, x, step, f)
<1> SUFFICES ASSUME N \in Nat, x \in S, step \in [1 .. N -> [S -> S]]
             PROVE  \E f \in [0 .. N -> S] :
                      f[0] = x /\ \A n \in 1 .. N : f[n] = step[n][f[n - 1]]
  BY DEF Steps, Stepped
<1> DEFINE Run(m, f) == f \in [0 .. m -> S] /\ f[0] = x
                        /\ \A n \in 1 .. m : f[n] = step[n][f[n - 1]]
           G == { m \in Nat : m <= N => \E f : Run(m, f) }
<1>1. 0 \in G
  <2>1. Run(0, [n \in 0 .. 0 |-> x])
    OBVIOUS
  <2> QED  BY <2>1
<1>2. \A m \in Nat : m \in G => m + 1 \in G
  <2> TAKE m \in Nat
  <2> HAVE m \in G
  <2> SUFFICES ASSUME m + 1 <= N PROVE \E f : Run(m + 1, f)
    <3> HIDE DEF Run
    <3> QED  OBVIOUS
  <2>1. PICK f : Run(m, f)
    <3>1. m <= N
      OBVIOUS
    <3> HIDE DEF Run
    <3> QED  BY <3>1
  <2> DEFINE g == [n \in 0 .. m + 1 |-> IF n = m + 1 THEN step[m + 1][f[m]] ELSE f[n]]
  <2>2. m + 1 \in 1 .. N /\ m \in 0 .. m
    OBVIOUS
  <2>3. step[m + 1] \in [S -> S] /\ f[m] \in S
    BY <2>1, <2>2
  <2>4. step[m + 1][f[m]] \in S
    BY <2>3
  <2>5. g \in [0 .. m + 1 -> S]
    <3>1. \A n \in 0 .. m + 1 : n # m + 1 => n \in 0 .. m
      OBVIOUS
    <3> QED  BY <2>1, <2>4, <3>1
  <2>6. g[0] = x
    BY <2>1
  <2>7. \A n \in 1 .. m + 1 : g[n] = step[n][g[n - 1]]
    <3> TAKE n \in 1 .. m + 1
    <3>1. CASE n = m + 1
      <4>1. g[n] = step[m + 1][f[m]]
        BY <3>1
      <4>2. n - 1 = m /\ m \in 0 .. m + 1 /\ m # m + 1
        BY <3>1
      <4>3. g[n - 1] = f[m]
        BY <4>2
      <4> QED  BY <3>1, <4>1, <4>3
    <3>2. CASE n # m + 1
      <4>1. n \in 1 .. m /\ n - 1 \in 0 .. m + 1 /\ n - 1 # m + 1 /\ n \in 0 .. m + 1
        BY <3>2
      <4>2. g[n] = f[n] /\ g[n - 1] = f[n - 1]
        <5> HIDE DEF Run
        <5> QED  BY <3>2, <4>1
      <4> QED  BY <2>1, <4>1, <4>2
    <3> QED  BY <3>1, <3>2
  <2>8. Run(m + 1, g)
    BY <2>5, <2>6, <2>7
  <2> HIDE DEF Run, g
  <2> QED  BY <2>8
<1>3. N \in G
  <2> HIDE DEF G
  <2> QED  BY <1>1, <1>2, EveryNat
<1> QED  BY <1>3

----------------------------------------------------------------------------
(* Sectors, entries and writes.                                            *)

Data == [1 .. SECTOR -> Byte \cup {0}]
Sec  == [entries : [Index -> Entry], data : Data]

\* What the calls write: the superblock, or a sector; none that puts DEV in the root.
Writes ==
  [lba : {SUPER}, free : START .. LIMIT] \cup
  { w \in [lba : Lba, sector : Sec] : w.lba = ROOT => Named(w.sector.entries, DEV) = {} }

\* The constants' types.
LEMMA Constants ==
  /\ FS_MAX_FILES \in Nat \ {0} /\ SECTOR \in Nat \ {0} /\ MaxSize \in Nat
  /\ LIMIT \in Nat /\ LIMIT > 2 /\ DEV \in Names /\ MaxDepth \in Nat \ {0}
  /\ SUPER = 0 /\ ROOT = 1 /\ START = 2 /\ NoTable = 0
  /\ ROOT \in Lba /\ SUPER \notin Lba /\ \A l \in Lba : l \in Nat
BY FSAssumption DEF SUPER, ROOT, START, NoTable, Lba

\* The slots of a table are ordered: a set of them has a first.
LEMMA FirstIs ==
  ASSUME NEW S, S \subseteq Index, S # {}
  PROVE  First(S) \in S /\ \A j \in S : First(S) <= j
<1>1. S \subseteq Nat
  BY Constants DEF Index
<1>2. \E i \in S : \A j \in S : i <= j
  <2>1. PICK i \in S : \A j \in S : ~(<< j, i >> \in OpToRel(<, Nat))
    BY <1>1, WFMin, NatLessThanWellFounded
  <2>2. \A j \in S : ~(j < i)
    BY <1>1, <2>1 DEF OpToRel
  <2> QED  BY <1>1, <2>2
<1> QED  BY <1>2 DEF First

\* A number of units takes at least one sector.
LEMMA SectorsIsNat ==
  ASSUME NEW n \in Nat
  PROVE  Sectors(n) \in Nat \ {0}
<1>1. n \div SECTOR \in Nat
  BY Constants
<1> QED  BY <1>1 DEF Sectors

\* What an entry is.
LEMMA EntryParts ==
  ASSUME NEW e \in Entry
  PROVE  /\ e.name \in Names /\ e.size \in 0 .. MaxSize /\ e.start \in Nat /\ e.size \in Nat
         /\ e.type \in { "free", "file", "dir" }
         /\ e.type # "free" => e.start \in START .. LIMIT - 1
BY Constants DEF Entry, NoEntry, START

\* A blank sector, and what the writes are made of.
LEMMA BlankIs ==
  Blank \in Sec /\ \A n : Named(Blank.entries, n) = {}
<1>1. NoEntry \in Entry /\ NoEntry.type = "free"
  BY DEF Entry, NoEntry
<1>2. [i \in Index |-> NoEntry] \in [Index -> Entry]
  BY <1>1
<1>3. [u \in 1 .. SECTOR |-> 0] \in Data
  BY DEF Data
<1>4. Blank.entries = [i \in Index |-> NoEntry]
  BY DEF Blank
<1> QED  BY <1>1, <1>2, <1>3, <1>4 DEF Blank, Sec, Named

\* A superblock is a write.
LEMMA ToSuperIs ==
  ASSUME NEW n \in START .. LIMIT
  PROVE  ToSuper(n) \in Writes /\ ToSuper(n).lba = SUPER /\ ToSuper(n).free = n
BY DEF ToSuper, Writes

\* A table is a write, if it does not put DEV in the root.
LEMMA ToTableIs ==
  ASSUME NEW l \in Lba, NEW t \in [Index -> Entry], l = ROOT => Named(t, DEV) = {}
  PROVE  /\ ToTable(l, t) \in Writes /\ ToTable(l, t).lba = l
         /\ ToTable(l, t).sector.entries = t
<1>1. AsTable(t) \in Sec /\ AsTable(t).entries = t
  BY BlankIs DEF AsTable, Sec
<1>2. ToTable(l, t).lba = l /\ ToTable(l, t).sector = AsTable(t)
  BY DEF ToTable
<1>3. ToTable(l, t) \in [lba : Lba, sector : Sec]
  BY <1>1 DEF ToTable
<1> QED  BY <1>1, <1>2, <1>3 DEF Writes

\* So is a sector of data.
LEMMA ToDataIs ==
  ASSUME NEW l \in Lba, NEW d \in Data
  PROVE  /\ ToData(l, d) \in Writes /\ ToData(l, d).lba = l
         /\ ToData(l, d).sector.entries = Blank.entries /\ ToData(l, d).sector.data = d
<1>1. AsData(d) \in Sec /\ AsData(d).entries = Blank.entries /\ AsData(d).data = d
  BY BlankIs DEF AsData, Sec
<1>2. ToData(l, d).lba = l /\ ToData(l, d).sector = AsData(d)
  BY DEF ToData
<1>3. ToData(l, d) \in [lba : Lba, sector : Sec]
  BY <1>1 DEF ToData
<1> QED  BY <1>1, <1>2, <1>3, BlankIs DEF Writes

\* What a write has.
LEMMA WriteParts ==
  ASSUME NEW w \in Writes
  PROVE  /\ w.lba \in Lba \cup {SUPER}
         /\ w.lba = SUPER => w.free \in START .. LIMIT
         /\ w.lba \in Lba => /\ w.sector.entries \in [Index -> Entry] /\ w.sector.data \in Data
                             /\ w.lba = ROOT => Named(w.sector.entries, DEV) = {}
BY Constants DEF Writes, Sec

----------------------------------------------------------------------------
(* Units and sectors.                                                      *)

\* A product of numbers is one.
LEMMA ProductIsNat ==
  ASSUME NEW m \in Nat, NEW n \in Nat
  PROVE  \E x \in Nat : x = m * n
<1>1. m * n \in Nat
  OBVIOUS
<1> QED  BY <1>1

\* The place of a number of units.
UnitAt(x, d, r) == d \in Nat /\ r \in 0 .. SECTOR - 1 /\ x = d * SECTOR + r

\* Every number of units has a place: full sectors, and units of one more.
LEMMA UnitPlace ==
  ASSUME NEW x \in Nat
  PROVE  UnitAt(x, x \div SECTOR, x % SECTOR)
<1>1. PICK S \in Nat \ {0} : S = SECTOR
  BY Constants
<1>2. x \div S \in Nat /\ x = S * (x \div S) + (x % S) /\ x % S \in 0 .. S - 1
  OBVIOUS
<1>3. PICK d \in Nat, r \in 0 .. S - 1 : d = x \div S /\ r = x % S /\ x = S * d + r
  BY <1>2
<1>4. d * S = S * d
  OBVIOUS
<1> QED  BY <1>1, <1>3, <1>4 DEF UnitAt

\* It has only one place.
LEMMA PlaceIs ==
  ASSUME NEW x \in Nat, NEW d, NEW r, UnitAt(x, d, r)
  PROVE  x \div SECTOR = d /\ x % SECTOR = r
<1>1. PICK S \in Nat \ {0} : S = SECTOR
  BY Constants
<1>2. d \in Nat /\ r \in 0 .. S - 1 /\ x = d * S + r
  BY <1>1 DEF UnitAt
<1>3. PICK a \in Nat, b \in 0 .. S - 1 : a = x \div SECTOR /\ b = x % SECTOR /\ x = a * S + b
  BY <1>1, UnitPlace DEF UnitAt
<1>4. ASSUME NEW m \in Nat, NEW n \in Nat, NEW v \in 0 .. S - 1, NEW w \in 0 .. S - 1,
             m * S + v = n * S + w, m < n
      PROVE  FALSE
  <2>1. PICK z \in Nat : n = m + 1 + z
    <3>1. n - m - 1 \in Nat /\ n = m + 1 + (n - m - 1)
      BY <1>4
    <3> QED  BY <3>1
  <2>2. n * S = m * S + S + z * S /\ z * S \in Nat /\ m * S \in Nat
    BY <2>1
  <2> QED  BY <1>4, <2>2
<1>5. ~(a < d) /\ ~(d < a)
  BY <1>2, <1>3, <1>4
<1>6. a = d
  <2>1. \A m, n \in Nat : ~(m < n) /\ ~(n < m) => m = n
    OBVIOUS
  <2> QED  BY <1>2, <1>5, <2>1, Zenon
<1>7. b = r
  <2>1. PICK y \in Nat : y = d * S
    BY <1>2
  <2>2. x = y + b /\ x = y + r
    BY <1>2, <1>3, <1>6, <2>1, Zenon
  <2>3. b \in Nat /\ r \in Nat
    BY <1>2, <1>3
  <2> QED  BY <2>1, <2>2, <2>3
<1> QED  BY <1>3, <1>6, <1>7, Zenon

\* The sectors of a sequence of units are writes, one to each, none with an entry.
LEMMA DataWritesAre ==
  ASSUME NEW lba \in Lba, NEW s \in Seq(Byte \cup {0}), lba + Sectors(Len(s)) <= LIMIT
  PROVE  /\ DataWrites(lba, s) \in Seq(Writes) /\ Len(DataWrites(lba, s)) = Sectors(Len(s))
         /\ \A k \in 1 .. Sectors(Len(s)) :
              /\ DataWrites(lba, s)[k].lba = lba + k - 1
              /\ DataWrites(lba, s)[k].sector.entries = Blank.entries
<1> DEFINE n == Sectors(Len(s))
           d(k) == [u \in 1 .. SECTOR |->
                      LET i == (k - 1) * SECTOR + u IN IF i <= Len(s) THEN s[i] ELSE 0]
<1>1. n \in Nat \ {0} /\ Len(s) \in Nat
  BY SectorsIsNat
<1> HIDE DEF n
<1>2. ASSUME NEW k \in 1 .. n PROVE lba + k - 1 \in Lba /\ d(k) \in Data
  <2>1. lba + k - 1 \in Lba
    BY <1>1, Constants DEF Lba, n
  <2>2. ASSUME NEW u \in 1 .. SECTOR
        PROVE  LET i == (k - 1) * SECTOR + u
               IN  (IF i <= Len(s) THEN s[i] ELSE 0) \in Byte \cup {0}
    <3>1. (k - 1) * SECTOR \in Nat
      <4>1. k - 1 \in Nat /\ SECTOR \in Nat
        BY <1>1, Constants
      <4> QED  BY <4>1
    <3> DEFINE i == (k - 1) * SECTOR + u
    <3>2. i \in Nat \ {0}
      BY <3>1, Constants
    <3> HIDE DEF i
    <3>3. i <= Len(s) => s[i] \in Byte \cup {0}
      BY <1>1, <3>2
    <3>4. (IF i <= Len(s) THEN s[i] ELSE 0) \in Byte \cup {0}
      BY <3>3
    <3> QED  BY <3>4 DEF i
  <2> QED  BY <2>1, <2>2 DEF Data
<1>3. DataWrites(lba, s) = [k \in 1 .. n |-> ToData(lba + k - 1, d(k))]
  BY DEF DataWrites, n
<1> HIDE DEF d
<1>4. ASSUME NEW k \in 1 .. n
      PROVE  /\ DataWrites(lba, s)[k] \in Writes /\ DataWrites(lba, s)[k].lba = lba + k - 1
             /\ DataWrites(lba, s)[k].sector.entries = Blank.entries
  <2>1. DataWrites(lba, s)[k] = ToData(lba + k - 1, d(k))
    BY <1>3
  <2> QED  BY <1>2, <2>1, ToDataIs
<1>5. DataWrites(lba, s) \in [1 .. n -> Writes]
  BY <1>3, <1>4
<1>6. DataWrites(lba, s) \in Seq(Writes) /\ Len(DataWrites(lba, s)) = n
  BY <1>1, <1>5
<1> QED  BY <1>4, <1>6 DEF n

----------------------------------------------------------------------------
(* What performing a list of writes does.                                  *)

\* The first done writes, all but perhaps the superblock's on the disk.
Did(ws, twice, done, stop, K) ==
  /\ K \subseteq 1 .. done /\ \A k \in 1 .. done : ws[k].lba # SUPER => k \in K
  /\ OnDisk(ws, K)
  /\ mounted' = ~stop
  /\ next' = IF stop THEN START ELSE NextAfter(ws, done)
  /\ hurt' = (hurt \/ (twice /\ done = 1) \/ (stop /\ super' < NextAfter(ws, done)))

\* Some of the writes, up to the one that fails or the stop of the machine.
LEMMA PerformDoes ==
  ASSUME NEW ws \in Seq(Writes), NEW twice, Perform(ws, twice)
  PROVE  \E done \in 0 .. Len(ws), stop \in BOOLEAN, K \in SUBSET (1 .. Len(ws)) :
           Did(ws, twice, done, stop, K)
<1>1. PICK done \in 0 .. Len(ws), stop \in BOOLEAN :
        \E lost \in {\E k \in 1 .. done : ws[k].lba = SUPER, FALSE} :
          /\ OnDisk(ws, {k \in 1 .. done : ~(lost /\ ws[k].lba = SUPER)})
          /\ mounted' = ~stop
          /\ next' = IF stop THEN START ELSE NextAfter(ws, done)
          /\ hurt' = (hurt \/ (twice /\ done = 1) \/ (stop /\ super' < NextAfter(ws, done)))
  BY Zenon DEF Perform
<1>2. PICK lost \in {\E k \in 1 .. done : ws[k].lba = SUPER, FALSE} :
        /\ OnDisk(ws, {k \in 1 .. done : ~(lost /\ ws[k].lba = SUPER)})
        /\ mounted' = ~stop
        /\ next' = IF stop THEN START ELSE NextAfter(ws, done)
        /\ hurt' = (hurt \/ (twice /\ done = 1) \/ (stop /\ super' < NextAfter(ws, done)))
  BY <1>1, Zenon
<1> DEFINE K == {k \in 1 .. done : ~(lost /\ ws[k].lba = SUPER)}
<1>3. K \subseteq 1 .. done /\ \A k \in 1 .. done : ws[k].lba # SUPER => k \in K
  BY Zenon
<1>4. 1 .. done \subseteq 1 .. Len(ws)
  OBVIOUS
<1>5. Did(ws, twice, done, stop, K)
  BY <1>2, <1>3, Zenon DEF Did
<1>6. K \in SUBSET (1 .. Len(ws))
  BY <1>3, <1>4, Zenon
<1> QED  BY <1>5, <1>6, Zenon

\* Where the allocator is after some of the writes.
LEMMA NextAfterIs ==
  ASSUME NEW ws \in Seq(Writes), NEW done \in 0 .. Len(ws), next \in START .. LIMIT
  PROVE  NextAfter(ws, done) \in START .. LIMIT
<1>1. \A k \in 1 .. done : ws[k] \in Writes
  OBVIOUS
<1>2. CASE \E k \in 1 .. done : ws[k].lba = SUPER
  <2>1. PICK j : j = CHOOSE k \in 1 .. done : ws[k].lba = SUPER
    OBVIOUS
  <2>2. j \in 1 .. done /\ ws[j].lba = SUPER
    BY <1>2, <2>1
  <2>3. ws[j].free \in START .. LIMIT
    BY <1>1, <2>2, WriteParts
  <2> QED  BY <1>2, <2>1, <2>3 DEF NextAfter
<1>3. CASE ~\E k \in 1 .. done : ws[k].lba = SUPER
  BY <1>3 DEF NextAfter
<1> QED  BY <1>2, <1>3

\* The superblock afterwards is what it was, or what a write put there.
LEMMA SuperIs ==
  ASSUME NEW ws, NEW K, OnDisk(ws, K)
  PROVE  super' = super \/ \E k \in K : ws[k].lba = SUPER /\ super' = ws[k].free
<1>1. CASE \E k \in K : ws[k].lba = SUPER
  <2>1. PICK j : j = CHOOSE k \in K : ws[k].lba = SUPER
    OBVIOUS
  <2>2. j \in K /\ ws[j].lba = SUPER
    BY <1>1, <2>1
  <2>3. super' = ws[j].free
    BY <1>1, <2>1 DEF OnDisk
  <2> QED  BY <2>2, <2>3
<1>2. CASE ~\E k \in K : ws[k].lba = SUPER
  BY <1>2 DEF OnDisk
<1> QED  BY <1>1, <1>2

\* A sector afterwards is what it was, or what one of the writes to it put there.
LEMMA SectorIs ==
  ASSUME NEW ws, NEW K, OnDisk(ws, K), NEW l \in Lba
  PROVE  \/ (~\E k \in K : ws[k].lba = l) /\ sector'[l] = sector[l]
         \/ \E k \in K : ws[k].lba = l /\ sector'[l] = ws[k].sector
<1>1. CASE \E k \in K : ws[k].lba = l
  <2>1. PICK j : j = CHOOSE k \in K : ws[k].lba = l
    OBVIOUS
  <2>2. j \in K /\ ws[j].lba = l
    BY <1>1, <2>1
  <2>3. sector'[l] = ws[j].sector
    BY <1>1, <2>1 DEF OnDisk
  <2> QED  BY <2>2, <2>3
<1>2. CASE ~\E k \in K : ws[k].lba = l
  BY <1>2 DEF OnDisk
<1> QED  BY <1>1, <1>2

DiskOK ==
  /\ super \in {0} \cup START .. LIMIT
  /\ \A l \in Lba : /\ sector[l].entries \in [Index -> Entry]
                    /\ sector[l].data \in [1 .. SECTOR -> Byte \cup {0}]
  /\ DevReserved

\* Writes keep the disk as it should be.
LEMMA OnDiskKeeps ==
  ASSUME NEW ws \in Seq(Writes), NEW K, K \subseteq 1 .. Len(ws), OnDisk(ws, K), DiskOK
  PROVE  DiskOK'
<1>1. \A k \in K : ws[k] \in Writes
  OBVIOUS
<1>2. super' \in {0} \cup START .. LIMIT
  <2>1. super \in {0} \cup START .. LIMIT
    BY DEF DiskOK
  <2>2. \A k \in K : ws[k].lba = SUPER => ws[k].free \in START .. LIMIT
    BY <1>1, WriteParts
  <2>3. super' = super \/ \E k \in K : ws[k].lba = SUPER /\ super' = ws[k].free
    BY SuperIs
  <2> QED  BY <2>1, <2>2, <2>3
<1>3. ASSUME NEW l \in Lba
      PROVE  /\ sector'[l].entries \in [Index -> Entry] /\ sector'[l].data \in Data
             /\ l = ROOT => Named(sector'[l].entries, DEV) = {}
  <2>1. CASE sector'[l] = sector[l]
    BY <2>1 DEF DiskOK, DevReserved, Table, Data
  <2>2. CASE \E k \in K : ws[k].lba = l /\ sector'[l] = ws[k].sector
    <3>1. PICK k \in K : ws[k].lba = l /\ sector'[l] = ws[k].sector
      BY <2>2
    <3>2. ws[k] \in Writes
      BY <1>1
    <3> QED  BY <3>1, <3>2, WriteParts
  <2>3. \/ (~\E k \in K : ws[k].lba = l) /\ sector'[l] = sector[l]
        \/ \E k \in K : ws[k].lba = l /\ sector'[l] = ws[k].sector
    BY SectorIs
  <2> QED  BY <2>1, <2>2, <2>3
<1>4. DevReserved'
  BY <1>3, Constants DEF DevReserved, Table
<1> QED  BY <1>2, <1>3, <1>4 DEF DiskOK, Data

\* So a call that performs them keeps the types, and DEV out of the root.
LEMMA PerformKeeps ==
  ASSUME TypeOK, DevReserved, NEW ws \in Seq(Writes), NEW twice \in BOOLEAN, Perform(ws, twice)
  PROVE  TypeOK' /\ DevReserved'
<1>0. PICK done \in 0 .. Len(ws), stop \in BOOLEAN, K \in SUBSET (1 .. Len(ws)) :
        Did(ws, twice, done, stop, K)
  BY PerformDoes
<1>1. /\ OnDisk(ws, K)
      /\ mounted' = ~stop
      /\ next' = IF stop THEN START ELSE NextAfter(ws, done)
      /\ hurt' = (hurt \/ (twice /\ done = 1) \/ (stop /\ super' < NextAfter(ws, done)))
  BY <1>0, Zenon DEF Did
<1>2. DiskOK'
  <2>1. DiskOK
    BY DEF TypeOK, DiskOK
  <2> QED  BY <1>1, <2>1, OnDiskKeeps
<1>3. next' \in START .. LIMIT
  <2>1. START \in START .. LIMIT
    BY Constants
  <2>2. NextAfter(ws, done) \in START .. LIMIT
    BY NextAfterIs DEF TypeOK
  <2> QED  BY <1>1, <2>1, <2>2
<1>4. mounted' \in BOOLEAN
  BY <1>1
<1>5. hurt' \in BOOLEAN
  <2>1. hurt \in BOOLEAN
    BY DEF TypeOK
  <2> QED  BY <1>1, <2>1, Zenon
<1> QED  BY <1>2, <1>3, <1>4, <1>5 DEF DiskOK, TypeOK

----------------------------------------------------------------------------
(* Tables and paths.                                                       *)

\* A name that is in a table has a slot there.
LEMMA NamedIs ==
  ASSUME NEW tab \in [Index -> Entry], NEW n, Named(tab, n) # {}
  PROVE  /\ First(Named(tab, n)) \in Index
         /\ tab[First(Named(tab, n))].name = n /\ tab[First(Named(tab, n))].type # "free"
         /\ tab[First(Named(tab, n))] \in Entry
<1>1. Named(tab, n) \subseteq Index
  BY DEF Named
<1>2. First(Named(tab, n)) \in Named(tab, n)
  BY <1>1, FirstIs
<1> QED  BY <1>1, <1>2 DEF Named

\* Room in a table is a slot there.
LEMMA FreeIs ==
  ASSUME NEW tab \in [Index -> Entry], FreeIn(tab) # {}
  PROVE  First(FreeIn(tab)) \in Index /\ tab[First(FreeIn(tab))].type = "free"
<1>1. FreeIn(tab) \subseteq Index
  BY DEF FreeIn
<1>2. First(FreeIn(tab)) \in FreeIn(tab)
  BY <1>1, FirstIs
<1> QED  BY <1>1, <1>2 DEF FreeIn

\* The entries of the tables on the disk.
LEMMA TableIs ==
  ASSUME TypeOK, NEW l \in Lba
  PROVE  Table(l) \in [Index -> Entry]
BY DEF TypeOK, Table

\* A walk goes step by step, within a set of tables that no name leads out of.
WalkFrom(at, path) == /\ Walk(path) = at[Len(path)] /\ at[0] = ROOT
                      /\ \A n \in 0 .. Len(path) : n # 0 => at[n] = Into(at[n - 1], path[n])

\* There are such steps.
LEMMA WalkRuns ==
  ASSUME NEW D, ROOT \in D, \A l \in D, n \in Names : Into(l, n) \in D \cup {NoTable},
         NEW path \in Seq(Names)
  PROVE  \E at : WalkFrom(at, path)
<1> DEFINE N == Len(path)
           S == D \cup {NoTable}
           step == [n \in 1 .. N |-> [l \in S |-> Into(l, path[n])]]
           IsAt(f) == f = [n \in 0 .. N |-> IF n = 0 THEN ROOT ELSE Into(f[n - 1], path[n])]
<1>1. N \in Nat /\ ROOT \in S
  OBVIOUS
<1>2. \A l \in S, n \in Names : Into(l, n) \in S
  BY DEF Into
<1>3. step \in [1 .. N -> [S -> S]]
  <2>1. \A n \in 1 .. N : path[n] \in Names
    OBVIOUS
  <2> HIDE DEF S
  <2> QED  BY <1>2, <2>1
<1> HIDE DEF S, N
<1>4. PICK f : Stepped(S, N, ROOT, step, f)
  <2> HIDE DEF step
  <2>1. Steps(S, N, ROOT, step)
    BY <1>1, <1>3 DEF Steps
  <2> QED  BY <2>1, Iterates
<1>5. f = [n \in 0 .. N |-> f[n]] /\ f[0] = ROOT /\ \A n \in 0 .. N : f[n] \in S
  <2> HIDE DEF step
  <2> QED  BY <1>4 DEF Stepped
<1>6. \A n \in 1 .. N : f[n] = Into(f[n - 1], path[n])
  <2> TAKE n \in 1 .. N
  <2>1. n - 1 \in 0 .. N
    BY <1>1
  <2>2. f[n - 1] \in S
    BY <1>5, <2>1
  <2>3. f[n] = step[n][f[n - 1]]
    <3> HIDE DEF step
    <3> QED  BY <1>4 DEF Stepped
  <2> QED  BY <2>2, <2>3
<1>7. IsAt(f)
  <2> DEFINE h == [n \in 0 .. N |-> IF n = 0 THEN ROOT ELSE Into(f[n - 1], path[n])]
  <2>1. \A n \in 0 .. N : f[n] = h[n]
    <3> TAKE n \in 0 .. N
    <3>1. n = 0 \/ n \in 1 .. N
      BY <1>1
    <3> QED  BY <1>5, <1>6, <3>1
  <2>2. h = [n \in 0 .. N |-> h[n]]
    OBVIOUS
  <2>3. f = h
    <3> HIDE DEF h
    <3> QED  BY <1>5, <2>1, <2>2
  <2> QED  BY <2>3
<1>8. PICK at : IsAt(at) /\ Walk(path) = at[N]
  <2> HIDE DEF step
  <2> QED  BY <1>7 DEF Walk, N
<1>9. \A n \in 0 .. N : at[n] = IF n = 0 THEN ROOT ELSE Into(at[n - 1], path[n])
  <2> DEFINE h == [n \in 0 .. N |-> IF n = 0 THEN ROOT ELSE Into(at[n - 1], path[n])]
  <2>1. at = h
    BY <1>8
  <2>2. \A n \in 0 .. N : h[n] = IF n = 0 THEN ROOT ELSE Into(at[n - 1], path[n])
    OBVIOUS
  <2> HIDE DEF h
  <2> QED  BY <2>1, <2>2
<1>10. 0 \in 0 .. N
  BY <1>1
<1>11. WalkFrom(at, path)
  BY <1>8, <1>9, <1>10, Zenon DEF WalkFrom, N
<1> QED  BY <1>11

\* A walk stays in a set of tables that no name leads out of.
LEMMA WalkStays ==
  ASSUME NEW D, ROOT \in D, \A l \in D, n \in Names : Into(l, n) \in D \cup {NoTable},
         NEW path \in Seq(Names)
  PROVE  Walk(path) \in D \cup {NoTable}
<1>1. PICK N \in Nat : N = Len(path) /\ \A n \in 1 .. N : path[n] \in Names
  OBVIOUS
<1>2. PICK at : WalkFrom(at, path)
  BY WalkRuns
<1>3. PICK S : S = D \cup {NoTable} /\ ROOT \in S
  OBVIOUS
<1>4. \A l \in S, n \in Names : Into(l, n) \in S
  BY <1>3 DEF Into
<1>5. Walk(path) = at[N] /\ at[0] \in S /\ \A n \in 0 .. N : n # 0 => at[n] = Into(at[n - 1], path[n])
  BY <1>1, <1>2, <1>3, Zenon DEF WalkFrom
<1> DEFINE G == { n \in Nat : n <= N => at[n] \in S }
<1>6. 0 \in G
  BY <1>5
<1>7. \A n \in Nat : n \in G => n + 1 \in G
  <2> TAKE n \in Nat
  <2> HAVE n \in G
  <2> SUFFICES ASSUME n + 1 <= N PROVE at[n + 1] \in S
    OBVIOUS
  <2>1. at[n] \in S /\ n + 1 \in 0 .. N /\ n + 1 # 0 /\ (n + 1) - 1 = n /\ n + 1 \in 1 .. N
    OBVIOUS
  <2>2. at[n + 1] = Into(at[n], path[n + 1])
    BY <1>5, <2>1
  <2>3. path[n + 1] \in Names
    BY <1>1, <2>1
  <2> QED  BY <1>4, <2>1, <2>2, <2>3
<1>8. N \in G
  <2> HIDE DEF G
  <2> QED  BY <1>1, <1>6, <1>7, EveryNat
<1> QED  BY <1>3, <1>5, <1>8

\* What a path is made of.
LEMMA PathParts ==
  ASSUME NEW p \in Path
  PROVE  /\ p \in Seq(Names) /\ Len(p) \in Nat \ {0} /\ Leaf(p) \in Names /\ Len(p) <= MaxDepth
         /\ SubSeq(p, 1, Len(p) - 1) \in Seq(Names) /\ Len(SubSeq(p, 1, Len(p) - 1)) <= MaxDepth
<1>1. PICK n \in 1 .. MaxDepth : p \in [1 .. n -> Names]
  BY DEF Path
<1>2. n \in Nat \ {0}
  BY Constants
<1>3. p \in Seq(Names) /\ Len(p) = n
  BY <1>1, <1>2
<1>4. \A i \in 1 .. Len(p) : p[i] \in Names
  BY <1>1, <1>3
<1>5. Leaf(p) \in Names
  BY <1>2, <1>3, <1>4 DEF Leaf
<1>6. SubSeq(p, 1, Len(p) - 1) \in Seq(Names)
  <2>1. 1 \in 1 .. Len(p) + 1 /\ Len(p) - 1 \in 1 - 1 .. Len(p)
    BY <1>2, <1>3
  <2> QED  BY <1>3, <2>1, SubSeqProperties
<1>7. n <= MaxDepth /\ n - 1 <= MaxDepth
  BY Constants
<1>8. Len(SubSeq(p, 1, n - 1)) = n - 1
  BY <1>2, <1>3
<1>9. Len(SubSeq(p, 1, Len(p) - 1)) <= MaxDepth
  BY <1>3, <1>7, <1>8, Zenon
<1> QED  BY <1>2, <1>3, <1>5, <1>6, <1>7, <1>9, Zenon

\* A name leads from a table to one, or nowhere.
LEMMA IntoIsTable ==
  ASSUME TypeOK
  PROVE  \A l \in Lba, n \in Names : Into(l, n) \in Lba \cup {NoTable}
<1> TAKE l \in Lba, n \in Names
<1>1. CASE Named(Table(l), n) # {}
  <2>1. EntryOf(l, n) \in Entry /\ EntryOf(l, n).type # "free"
    BY <1>1, TableIs, NamedIs DEF EntryOf
  <2>2. EntryOf(l, n).start \in START .. LIMIT - 1
    BY <2>1, EntryParts
  <2> QED  BY <2>2, Constants DEF Into, Lba
<1>2. CASE Named(Table(l), n) = {}
  BY <1>2 DEF Into
<1> QED  BY <1>1, <1>2

\* A walk ends at a table, or nowhere.
LEMMA WalkIsTable ==
  ASSUME TypeOK
  PROVE  /\ \A path \in Seq(Names) : Walk(path) \in Lba \cup {NoTable}
         /\ \A p \in Path : InTable(p) \in Lba \cup {NoTable}
<1>1. ASSUME NEW path \in Seq(Names) PROVE Walk(path) \in Lba \cup {NoTable}
  <2>1. ROOT \in Lba
    BY Constants
  <2> QED  BY <2>1, IntoIsTable, WalkStays
<1> QED  BY <1>1, PathParts DEF InTable

\* A path that leads to an entry: its table and slot.
LEMMA FoundIs ==
  ASSUME TypeOK, NEW p \in Path, Found(p)
  PROVE  /\ InTable(p) \in Lba /\ SlotOf(p) \in Index
         /\ Table(InTable(p)) \in [Index -> Entry]
         /\ At(p) = Table(InTable(p))[SlotOf(p)] /\ At(p) \in Entry
         /\ At(p).name = Leaf(p) /\ At(p).type # "free"
<1>1. InTable(p) \in Lba
  BY WalkIsTable DEF Found
<1>2. PICK l \in Lba : l = InTable(p)
  BY <1>1
<1>3. Table(l) \in [Index -> Entry]
  BY TableIs
<1>4. Named(Table(l), Leaf(p)) # {}
  BY <1>2 DEF Found
<1> QED  BY <1>2, <1>3, <1>4, NamedIs DEF At, SlotOf, EntryOf

\* The table with an entry added is a table, and has it at a free slot.
LEMMA AddedIs ==
  ASSUME TypeOK, NEW l, l \in Lba \cup {NoTable}, NEW e \in Entry, CanAdd(l, e.name)
  PROVE  /\ l \in Lba /\ Added(l, e) \in [Index -> Entry]
         /\ l = ROOT => e.name # DEV
         /\ \E i \in Index : Table(l)[i].type = "free" /\ Added(l, e) = [Table(l) EXCEPT ![i] = e]
<1>1. l \in Lba /\ (l = ROOT => e.name # DEV)
  BY DEF CanAdd
<1>2. Table(l) \in [Index -> Entry]
  BY <1>1, TableIs
<1>3. FreeIn(Table(l)) # {}
  BY DEF CanAdd
<1>4. PICK i \in Index : i = First(FreeIn(Table(l))) /\ Table(l)[i].type = "free"
  BY <1>2, <1>3, FreeIs
<1>5. Added(l, e) = [Table(l) EXCEPT ![i] = e]
  BY <1>4 DEF Added
<1>6. Added(l, e) \in [Index -> Entry]
  BY <1>2, <1>5
<1> QED  BY <1>1, <1>4, <1>5, <1>6

\* DEV stays out of a table of the root one entry of which becomes e.
LEMMA StillReserved ==
  ASSUME NEW tab \in [Index -> Entry], NEW i \in Index, NEW e \in Entry,
         Named(tab, DEV) = {}, e.type # "free" => e.name # DEV
  PROVE  /\ [tab EXCEPT ![i] = e] \in [Index -> Entry]
         /\ Named([tab EXCEPT ![i] = e], DEV) = {}
<1>1. [tab EXCEPT ![i] = e] \in [Index -> Entry]
  OBVIOUS
<1>2. \A j \in Index : [tab EXCEPT ![i] = e][j] = IF j = i THEN e ELSE tab[j]
  OBVIOUS
<1> QED  BY <1>1, <1>2 DEF Named

----------------------------------------------------------------------------
(* The writes of the calls.                                                *)

\* Data at own sectors or new ones, the superblock that has the allocator at m if
\* there are new ones, and last of all the table at l, that becomes t.
Settles(ws, own, l, t, m) ==
  /\ ws \in Seq(Writes) /\ Len(ws) \in Nat \ {0} /\ m \in next .. LIMIT
  /\ ws[Len(ws)].lba = l /\ ws[Len(ws)].sector.entries = t
  /\ \A k \in 1 .. Len(ws) - 1 :
       \/ ws[k].lba = SUPER /\ ws[k].free = m
       \/ ws[k].lba \in own \cup (next .. LIMIT - 1) /\ ws[k].sector.entries = Blank.entries
  /\ m > next => /\ \E k \in 1 .. Len(ws) - 1 : ws[k].lba = SUPER
                 /\ \E k \in 1 .. Len(ws) - 1 : ws[k].lba = next

\* The superblock, the n writes of dw, and one more; or a write w before others.
Runs(ws, n, dw)   == Len(ws) = n + 2 /\ ws[1].lba = SUPER /\ \A k \in 1 .. n : ws[k + 1] = dw[k]
Behind(u, w, ws) == Len(u) = Len(ws) + 1 /\ u[1] = w /\ \A k \in 1 .. Len(ws) : u[k + 1] = ws[k]

\* A table on its own.
LEMMA TableSettles ==
  ASSUME next \in START .. LIMIT, NEW l \in Lba, NEW t \in [Index -> Entry],
         l = ROOT => Named(t, DEV) = {}
  PROVE  Settles(<< ToTable(l, t) >>, {}, l, t, next)
<1>1. PICK w \in Writes : w = ToTable(l, t) /\ w.lba = l /\ w.sector.entries = t
  BY ToTableIs
<1>2. << w >> \in Seq(Writes) /\ Len(<< w >>) = 1 /\ << w >>[1] = w
  OBVIOUS
<1>3. next \in next .. LIMIT /\ ~(next > next)
  BY Constants
<1> QED  BY <1>1, <1>2, <1>3 DEF Settles

\* New sectors, then a table.
LEMMA AllocSettles ==
  ASSUME next \in START .. LIMIT, NEW n \in Nat \ {0}, next + n <= LIMIT,
         NEW dw \in Seq(Writes), Len(dw) = n,
         \A k \in 1 .. n : dw[k].lba = next + k - 1 /\ dw[k].sector.entries = Blank.entries,
         NEW l \in Lba, NEW t \in [Index -> Entry], l = ROOT => Named(t, DEV) = {}
  PROVE  /\ Settles(Alloc(n, dw \o << ToTable(l, t) >>), {}, l, t, next + n)
         /\ Runs(Alloc(n, dw \o << ToTable(l, t) >>), n, dw)
<1>1. PICK w \in Writes : w = ToTable(l, t) /\ w.lba = l /\ w.sector.entries = t
  BY ToTableIs
<1>2. PICK v \in Writes : v = ToSuper(next + n) /\ v.lba = SUPER /\ v.free = next + n
  <2>1. next + n \in START .. LIMIT
    BY Constants
  <2> QED  BY <2>1, ToSuperIs
<1>3. PICK u : u = dw \o << w >>
  OBVIOUS
<1>4. u \in Seq(Writes) /\ Len(u) = n + 1 /\ u[n + 1] = w /\ \A k \in 1 .. n : u[k] = dw[k]
  BY <1>3
<1>5. PICK ws : ws = << v >> \o u
  OBVIOUS
<1>6. << v >> \in Seq(Writes) /\ Len(<< v >>) = 1 /\ << v >>[1] = v
  OBVIOUS
<1>7. ws \in Seq(Writes) /\ Len(ws) = n + 2 /\ ws[1] = v /\ \A k \in 1 .. n + 1 : ws[k + 1] = u[k]
  <2>1. /\ ws \in Seq(Writes) /\ Len(ws) = 1 + Len(u)
        /\ \A k \in 1 .. 1 + Len(u) : ws[k] = IF k <= 1 THEN << v >>[k] ELSE u[k - 1]
    BY <1>4, <1>5, <1>6, ConcatProperties
  <2> QED  BY <1>4, <1>6, <2>1
<1>8. ws[n + 2] = w
  <2>1. n + 1 \in 1 .. n + 1 /\ (n + 1) + 1 = n + 2
    OBVIOUS
  <2> QED  BY <1>4, <1>7, <2>1
<1>9. ASSUME NEW k \in 1 .. n
      PROVE  ws[k + 1].lba = next + k - 1 /\ ws[k + 1].sector.entries = Blank.entries
  <2>1. ws[k + 1] = dw[k]
    BY <1>4, <1>7
  <2>2. dw[k].lba = next + k - 1 /\ dw[k].sector.entries = Blank.entries
    OBVIOUS
  <2> QED  BY <2>1, <2>2
<1>10. next \in Nat /\ LIMIT \in Nat
  BY Constants
<1>11. \A k \in 1 .. (n + 2) - 1 :
         \/ ws[k].lba = SUPER /\ ws[k].free = next + n
         \/ ws[k].lba \in {} \cup (next .. LIMIT - 1) /\ ws[k].sector.entries = Blank.entries
  <2> TAKE k \in 1 .. (n + 2) - 1
  <2>1. CASE k = 1
    BY <1>2, <1>7, <2>1
  <2>2. CASE k # 1
    <3>1. PICK j \in 1 .. n : k = j + 1
      <4>1. k - 1 \in 1 .. n /\ k = (k - 1) + 1
        BY <2>2
      <4> QED  BY <4>1
    <3>2. next + j - 1 \in next .. LIMIT - 1
      <4>1. PICK a \in Nat, b \in Nat : a = next /\ b = LIMIT /\ a + n <= b
        BY <1>10
      <4> QED  BY <4>1
    <3>3. PICK w2 : w2 = ws[j + 1] /\ w2 = ws[k]
      BY <3>1, Zenon
    <3>4. w2.lba = next + j - 1 /\ w2.sector.entries = Blank.entries
      BY <1>9, <3>3, Zenon
    <3>5. w2.lba \in {} \cup (next .. LIMIT - 1)
      BY <3>2, <3>4
    <3> QED  BY <3>3, <3>4, <3>5, Zenon
  <2> QED  BY <2>1, <2>2
<1>12. ws[1].lba = SUPER /\ ws[2].lba = next /\ 1 \in 1 .. (n + 2) - 1 /\ 2 \in 1 .. (n + 2) - 1
  <2>1. 1 \in 1 .. n /\ next + 1 - 1 = next /\ 1 + 1 = 2
    BY <1>10
  <2>2. ws[1 + 1].lba = next + 1 - 1
    BY <1>9, <2>1
  <2>3. 1 \in 1 .. (n + 2) - 1 /\ 2 \in 1 .. (n + 2) - 1
    OBVIOUS
  <2> QED  BY <1>2, <1>7, <2>1, <2>2, <2>3
<1>13. ws = Alloc(n, dw \o << ToTable(l, t) >>)
  BY <1>1, <1>2, <1>3, <1>5 DEF Alloc
<1>14. next + n \in next .. LIMIT
  BY <1>10
<1>15. Settles(ws, {}, l, t, next + n)
  <2> HIDE <1>13
  <2> QED  BY <1>1, <1>7, <1>8, <1>11, <1>12, <1>14 DEF Settles
<1>16. Runs(ws, n, dw)
  <2>1. \A k \in 1 .. n : ws[k + 1] = dw[k]
    <3> TAKE k \in 1 .. n
    <3>1. k \in 1 .. n + 1
      OBVIOUS
    <3>2. ws[k + 1] = u[k]
      BY <1>7, <3>1, Zenon
    <3>3. u[k] = dw[k]
      BY <1>4, Zenon
    <3> QED  BY <3>2, <3>3, Zenon
  <2>2. Len(ws) = n + 2 /\ ws[1].lba = SUPER
    BY <1>2, <1>7
  <2> QED  BY <2>1, <2>2, Zenon DEF Runs
<1> QED  BY <1>13, <1>15, <1>16, Zenon

\* Data at a sector q before the rest.
LEMMA AfterData ==
  ASSUME NEW ws, NEW l, NEW t, NEW m, Settles(ws, {}, l, t, m), NEW q \in Lba,
         NEW w \in Writes, w.lba = q, w.sector.entries = Blank.entries
  PROVE  Settles(<< w >> \o ws, {q}, l, t, m) /\ Behind(<< w >> \o ws, w, ws)
<1>1. ws \in Seq(Writes) /\ Len(ws) \in Nat \ {0}
  BY DEF Settles
<1>2. PICK n \in Nat \ {0} : n = Len(ws)
  BY <1>1
<1>3. PICK u : u = << w >> \o ws
  OBVIOUS
<1>4. << w >> \in Seq(Writes) /\ Len(<< w >>) = 1 /\ << w >>[1] = w
  OBVIOUS
<1>5. u \in Seq(Writes) /\ Len(u) = n + 1 /\ u[1] = w /\ \A k \in 1 .. n : u[k + 1] = ws[k]
  <2>1. /\ u \in Seq(Writes) /\ Len(u) = 1 + Len(ws)
        /\ \A k \in 1 .. 1 + Len(ws) : u[k] = IF k <= 1 THEN << w >>[k] ELSE ws[k - 1]
    BY <1>1, <1>3, <1>4, ConcatProperties
  <2> QED  BY <1>1, <1>2, <1>4, <2>1
<1>6. /\ m \in next .. LIMIT /\ ws[n].lba = l /\ ws[n].sector.entries = t
      /\ \A k \in 1 .. n - 1 :
           \/ ws[k].lba = SUPER /\ ws[k].free = m
           \/ ws[k].lba \in {} \cup (next .. LIMIT - 1) /\ ws[k].sector.entries = Blank.entries
      /\ m > next => /\ \E k \in 1 .. n - 1 : ws[k].lba = SUPER
                     /\ \E k \in 1 .. n - 1 : ws[k].lba = next
  BY <1>2 DEF Settles
<1>7. \A k \in 1 .. (n + 1) - 1 :
        \/ u[k].lba = SUPER /\ u[k].free = m
        \/ u[k].lba \in {q} \cup (next .. LIMIT - 1) /\ u[k].sector.entries = Blank.entries
  <2> TAKE k \in 1 .. (n + 1) - 1
  <2>1. CASE k = 1
    BY <1>5, <2>1
  <2>2. CASE k # 1
    <3>1. PICK j \in 1 .. n - 1 : k = j + 1
      <4>1. k - 1 \in 1 .. n - 1 /\ k = (k - 1) + 1
        BY <2>2
      <4> QED  BY <4>1
    <3>2. u[k] = ws[j]
      BY <1>5, <3>1
    <3> QED  BY <1>6, <3>2
  <2> QED  BY <2>1, <2>2
<1>8. m > next => /\ \E k \in 1 .. (n + 1) - 1 : u[k].lba = SUPER
                  /\ \E k \in 1 .. (n + 1) - 1 : u[k].lba = next
  <2> HAVE m > next
  <2>1. ASSUME NEW j \in 1 .. n - 1 PROVE j + 1 \in 1 .. (n + 1) - 1 /\ u[j + 1] = ws[j]
    BY <1>5
  <2> QED  BY <1>6, <2>1
<1>9. u[n + 1] = ws[n] /\ n + 1 \in Nat \ {0}
  BY <1>5
<1>10. Settles(u, {q}, l, t, m)
  <2> HIDE <1>3
  <2> QED  BY <1>5, <1>6, <1>7, <1>8, <1>9 DEF Settles
<1>11. Behind(u, w, ws)
  BY <1>2, <1>5, Zenon DEF Behind
<1> QED  BY <1>3, <1>10, <1>11, Zenon

----------------------------------------------------------------------------
(* The calls.                                                              *)

\* A number of units fits in its sectors, and takes no more than it fits in.
LEMMA SectorsFit ==
  ASSUME NEW n \in Nat
  PROVE  /\ n <= Sectors(n) * SECTOR /\ Sectors(n) * SECTOR \in Nat
         /\ \A q \in Nat \ {0} : n <= q * SECTOR => Sectors(n) <= q
<1>1. PICK S \in Nat \ {0} : S = SECTOR
  BY Constants
<1>2. PICK d : d = n \div S
  OBVIOUS
<1>3. d \in Nat /\ n = S * d + (n % S) /\ n % S \in 0 .. S - 1
  BY <1>1, <1>2
<1>4. PICK r \in 0 .. S - 1 : r = n % S /\ n = S * d + r
  BY <1>3
<1>5. d \in Nat /\ S * d \in Nat /\ d * S = S * d /\ (d + 1) * S = S * d + S
  BY <1>3
<1>6. Sectors(n) = IF d = 0 THEN 1 ELSE IF r = 0 THEN d ELSE d + 1
  BY <1>1, <1>2, <1>4, <1>5 DEF Sectors
<1>7. n <= Sectors(n) * S /\ Sectors(n) * S \in Nat
  <2>1. CASE d = 0
    BY <1>4, <1>5, <1>6, <2>1
  <2>2. CASE d # 0 /\ r = 0
    BY <1>4, <1>5, <1>6, <2>2
  <2>3. CASE d # 0 /\ r # 0
    BY <1>4, <1>5, <1>6, <2>3
  <2> QED  BY <2>1, <2>2, <2>3
<1>8. ASSUME NEW q \in Nat \ {0}, n <= q * S PROVE Sectors(n) <= q
  <2> SUFFICES ASSUME Sectors(n) > q PROVE FALSE
    BY <1>5, <1>6
  <2>1. CASE d > q
    <3>1. PICK z \in Nat : d = q + 1 + z
      <4>1. d - q - 1 \in Nat /\ d = q + 1 + (d - q - 1)
        BY <1>5, <2>1
      <4> QED  BY <4>1
    <3>2. d * S = q * S + S + z * S /\ z * S \in Nat /\ q * S \in Nat
      BY <3>1
    <3> QED  BY <1>4, <1>5, <1>8, <3>2
  <2>2. CASE d <= q
    <3>1. d = q /\ r # 0
      BY <1>4, <1>5, <1>6, <2>2
    <3> QED  BY <1>4, <1>5, <1>8, <3>1
  <2> QED  BY <1>5, <2>1, <2>2
<1> QED  BY <1>1, <1>7, <1>8

\* What fits in some sectors has its place in them.
LEMMA PlaceBelow ==
  ASSUME NEW x \in Nat, NEW d, NEW r, UnitAt(x, d, r), NEW n \in Nat, NEW c \in Nat,
         c = n * SECTOR, x < c
  PROVE  d < n
<1>1. PICK S \in Nat \ {0} : S = SECTOR
  BY Constants
<1>2. d \in Nat /\ r \in Nat /\ x = d * S + r /\ c = n * S
  BY <1>1 DEF UnitAt
<1> SUFFICES ASSUME n <= d PROVE FALSE
  BY <1>2
<1>3. PICK z \in Nat : d = n + z
  <2>1. d - n \in Nat /\ d = n + (d - n)
    BY <1>2
  <2> QED  BY <2>1
<1>4. d * S = n * S + z * S /\ z * S \in Nat
  BY <1>3
<1> QED  BY <1>2, <1>4

\* The unit of a file, its sector and its place there.
SectorOf(e, u) == e.start + (u - 1) \div SECTOR
OffsetOf(u)    == ((u - 1) % SECTOR) + 1
Unit(s, e, u)  == s[SectorOf(e, u)].data[OffsetOf(u)]
Filled(s, e)   == \A u \in 1 .. e.size : Unit(s, e, u) \in Byte
AllFilled      == \A p \in Path : IsFile(p) => Filled(sector, At(p))

\* Of the first n writes, those of unit u's sector leave it as it is; or there are some,
\* and they make it a byte.
Leaves(ws, n, e, u) ==
  \A k \in 1 .. n : ws[k].lba = SectorOf(e, u) =>
    ws[k].sector.data[OffsetOf(u)] = Unit(sector, e, u)
Fills(ws, n, e, u) ==
  /\ \E k \in 1 .. n : ws[k].lba = SectorOf(e, u)
  /\ \A k \in 1 .. n : ws[k].lba = SectorOf(e, u) => ws[k].sector.data[OffsetOf(u)] \in Byte

\* All but the last leave the first z units of a file as they are and fill the rest.
Brings(ws, e, z) ==
  e.type = "file" => \A u \in 1 .. e.size :
    IF u <= z THEN Leaves(ws, Len(ws) - 1, e, u) ELSE Fills(ws, Len(ws) - 1, e, u)

\* A unit is in its sector.
LEMMA UnitIs ==
  ASSUME NEW e \in Entry, NEW u \in 1 .. e.size
  PROVE  /\ UnitAt(u - 1, (u - 1) \div SECTOR, (u - 1) % SECTOR)
         /\ (u - 1) \div SECTOR < Sectors(e.size)
         /\ SectorOf(e, u) \in e.start .. e.start + Sectors(e.size) - 1
         /\ OffsetOf(u) \in 1 .. SECTOR
<1>1. PICK z \in Nat, a \in Nat : z = e.size /\ a = e.start
  BY EntryParts
<1>2. PICK n \in Nat \ {0}, c \in Nat : n = Sectors(z) /\ c = n * SECTOR /\ z <= c
  BY SectorsIsNat, SectorsFit
<1>3. PICK x \in Nat : x = u - 1 /\ x < c
  BY <1>1, <1>2
<1>4. PICK d, r : d = x \div SECTOR /\ r = x % SECTOR /\ UnitAt(x, d, r)
  BY UnitPlace, Zenon
<1>5. d < n
  BY <1>2, <1>3, <1>4, PlaceBelow
<1>6. d \in Nat /\ r \in 0 .. SECTOR - 1
  BY <1>4 DEF UnitAt
<1>7. SectorOf(e, u) = a + d /\ OffsetOf(u) = r + 1
  BY <1>1, <1>3, <1>4 DEF SectorOf, OffsetOf
<1>8. a + d \in a .. a + n - 1 /\ r + 1 \in 1 .. SECTOR
  BY <1>2, <1>5, <1>6, Constants
<1> QED  BY <1>1, <1>2, <1>3, <1>4, <1>5, <1>7, <1>8, Zenon

\* What is written of a sequence of bytes.
LEMMA BytesWritten ==
  ASSUME NEW lba, NEW s \in Seq(Byte), NEW j \in 1 .. Len(s), NEW d, NEW r, UnitAt(j - 1, d, r)
  PROVE  d + 1 \in 1 .. Sectors(Len(s)) /\ DataWrites(lba, s)[d + 1].sector.data[r + 1] \in Byte
<1>1. PICK z \in Nat : z = Len(s)
  OBVIOUS
<1>2. PICK n \in Nat \ {0}, c \in Nat : n = Sectors(z) /\ c = n * SECTOR /\ z <= c
  BY SectorsIsNat, SectorsFit
<1>3. PICK x \in Nat : x = j - 1 /\ x < c /\ x + 1 <= z
  BY <1>1, <1>2
<1>4. UnitAt(x, d, r)
  BY <1>3, Zenon
<1>5. d < n
  BY <1>2, <1>3, <1>4, PlaceBelow
<1>6. d \in Nat /\ r \in 0 .. SECTOR - 1 /\ x = d * SECTOR + r
  BY <1>4 DEF UnitAt
<1>7. d + 1 \in 1 .. n /\ r + 1 \in 1 .. SECTOR
  BY <1>2, <1>5, <1>6, Constants
<1>8. PICK f : f = [u \in 1 .. SECTOR |->
                      LET i == ((d + 1) - 1) * SECTOR + u IN IF i <= Len(s) THEN s[i] ELSE 0]
  OBVIOUS
<1>9. DataWrites(lba, s)[d + 1] = ToData(lba + (d + 1) - 1, f)
  BY <1>1, <1>2, <1>7, <1>8 DEF DataWrites
<1>10. ToData(lba + (d + 1) - 1, f).sector.data = f
  BY DEF ToData, AsData, Blank
<1>11. f[r + 1] = s[j]
  <2>1. ((d + 1) - 1) * SECTOR + (r + 1) = j
    <3>1. PICK y \in Nat : y = d * SECTOR
      BY <1>6, Constants
    <3>2. (d + 1) - 1 = d
      BY <1>6
    <3>3. y + (r + 1) = j
      BY <1>3, <1>6, <3>1, Constants
    <3> QED  BY <3>1, <3>2, <3>3, Zenon
  <2>2. f[r + 1] = LET i == ((d + 1) - 1) * SECTOR + (r + 1) IN IF i <= Len(s) THEN s[i] ELSE 0
    BY <1>7, <1>8, Zenon
  <2>3. f[r + 1] = IF j <= Len(s) THEN s[j] ELSE 0
    BY <2>1, <2>2, Zenon
  <2> QED  BY <2>3
<1>12. s[j] \in Byte
  OBVIOUS
<1> QED  BY <1>1, <1>2, <1>7, <1>9, <1>10, <1>11, <1>12, Zenon

Span(e) == e.start .. e.start + (IF e.type = "dir" THEN 1 ELSE Sectors(e.size)) - 1

\* A call that settles the table at l with entry i of it become f, after the units of f
\* that were not there before.
Edits(own, l, i, f, m) ==
  /\ l \in Lba /\ i \in Index /\ f \in Entry
  /\ \E ws : /\ Settles(ws, own, l, [Table(l) EXCEPT ![i] = f], m) /\ Perform(ws, FALSE)
             /\ AllFilled => Brings(ws, f, Table(l)[i].size)

OnWalk(l) == \E path \in Seq(Names) : Len(path) <= MaxDepth /\ l = Walk(path)

\* Slot i of the table at l has the entry of p.
SlotAt(p, l, i) == p \in Path /\ Found(p) /\ OnWalk(l) /\ l = InTable(p) /\ i = SlotOf(p)

\* Entry f, of a file or of an empty directory, is new: so are its sectors.
Adds(l, i, f) ==
  /\ OnWalk(l) /\ Table(l)[i].type = "free" /\ Named(Table(l), f.name) = {}
  /\ f.type \in {"file", "dir"} /\ f.start = next /\ next < LIMIT
  /\ f.type = "dir" => f.size = 0
  /\ Edits({}, l, i, f, next + Sectors(f.size))

\* The entry of p goes, has a new name, or more units in its sectors and new ones.
Removes(p, l, i) == SlotAt(p, l, i) /\ Deletable(p) /\ Edits({}, l, i, NoEntry, next)

Renames(p, l, i, n) ==
  /\ SlotAt(p, l, i) /\ n \in Names /\ n # At(p).name /\ Named(Table(l), n) \subseteq {i}
  /\ Edits({}, l, i, [At(p) EXCEPT !.name = n], next)

Extends(p, l, i, size, q, m) ==
  /\ SlotAt(p, l, i) /\ At(p).type = "file" /\ q \in Span(At(p))
  /\ size \in Nat /\ At(p).size < size
  /\ \/ Sectors(size) <= Sectors(At(p).size)
     \/ At(p).start + Sectors(At(p).size) = next /\ At(p).start + Sectors(size) <= m
  /\ Edits({q}, l, i, [At(p) EXCEPT !.size = size], m)

\* Or its last sector is written and no more.
Scribbles(p, l, i, q) ==
  /\ SlotAt(p, l, i) /\ At(p).type = "file" /\ q \in Span(At(p))
  /\ \E ws \in Seq(Writes) : /\ (\A k \in 1 .. Len(ws) : ws[k].lba = q) /\ Perform(ws, FALSE)
                            /\ \A u \in 1 .. At(p).size : Leaves(ws, Len(ws), At(p), u)

\* It goes from its slot i of the table at l, after it has come to slot j at d.
Moves(p, l, i, d, j) ==
  /\ SlotAt(p, l, i) /\ OnWalk(d) /\ d \in Lba /\ d # l /\ j \in Index /\ At(p).type = "file"
  /\ Table(d)[j].type = "free" /\ Named(Table(d), At(p).name) = {}
  /\ \E v \in Writes, w \in Writes :
       /\ v.lba = d /\ v.sector.entries = [Table(d) EXCEPT ![j] = At(p)]
       /\ w.lba = l /\ w.sector.entries = [Table(l) EXCEPT ![i] = NoEntry]
       /\ Perform(<< v, w >>, TRUE)

\* What a call may do.
Does ==
  \/ \E l, i, f : Adds(l, i, f)
  \/ \E p, l, i : Removes(p, l, i)
  \/ \E p, l, i, n : Renames(p, l, i, n)
  \/ \E p, l, i, size, q, m : Extends(p, l, i, size, q, m)
  \/ \E p, l, i, q : Scribbles(p, l, i, q)
  \/ \E p, l, i, d, j : Moves(p, l, i, d, j)

\* A path that leads to an entry has its slot.
LEMMA SlotIs ==
  ASSUME TypeOK, NEW p \in Path, Found(p)
  PROVE  \E l \in Lba, i \in Index :
           /\ SlotAt(p, l, i) /\ Table(l) \in [Index -> Entry] /\ At(p) = Table(l)[i]
           /\ At(p) \in Entry /\ At(p).name = Leaf(p) /\ At(p).type # "free"
<1>1. PICK l \in Lba, i \in Index : l = InTable(p) /\ i = SlotOf(p)
  BY FoundIs
<1>2. OnWalk(l)
  BY <1>1, PathParts, Zenon DEF OnWalk, InTable
<1>3. SlotAt(p, l, i)
  BY <1>1, <1>2 DEF SlotAt
<1>4. /\ Table(l) \in [Index -> Entry] /\ At(p) = Table(l)[i]
      /\ At(p) \in Entry /\ At(p).name = Leaf(p) /\ At(p).type # "free"
  BY <1>1, FoundIs
<1> QED  BY <1>3, <1>4

\* The root has no entry DEV after one that is not a DEV.
LEMMA EditIs ==
  ASSUME TypeOK, DevReserved, NEW l \in Lba, NEW i \in Index, NEW e \in Entry,
         (l = ROOT /\ e.type # "free") => e.name # DEV
  PROVE  /\ [Table(l) EXCEPT ![i] = e] \in [Index -> Entry]
         /\ l = ROOT => Named([Table(l) EXCEPT ![i] = e], DEV) = {}
<1>1. Table(l) \in [Index -> Entry]
  BY TableIs
<1>2. [Table(l) EXCEPT ![i] = e] \in [Index -> Entry]
  BY <1>1
<1>3. ASSUME l = ROOT PROVE Named([Table(l) EXCEPT ![i] = e], DEV) = {}
  <2>1. Named(Table(l), DEV) = {}
    BY <1>3 DEF DevReserved
  <2> QED  BY <1>1, <1>3, <2>1, StillReserved
<1> QED  BY <1>2, <1>3

\* A call of one table.
LEMMA OneTable ==
  ASSUME TypeOK, DevReserved, NEW l \in Lba, NEW i \in Index, NEW e \in Entry,
         (l = ROOT /\ e.type # "free") => e.name # DEV,
         e.type = "file" => e.size <= Table(l)[i].size,
         Perform(<< ToTable(l, [Table(l) EXCEPT ![i] = e]) >>, FALSE)
  PROVE  Edits({}, l, i, e, next)
<1>1. PICK t : t = [Table(l) EXCEPT ![i] = e]
  OBVIOUS
<1>2. t \in [Index -> Entry] /\ (l = ROOT => Named(t, DEV) = {})
  BY <1>1, EditIs
<1>3. next \in START .. LIMIT
  BY DEF TypeOK
<1>4. Settles(<< ToTable(l, t) >>, {}, l, t, next)
  BY <1>2, <1>3, TableSettles
<1>5. Brings(<< ToTable(l, t) >>, e, Table(l)[i].size)
  <2>1. PICK ws : ws = << ToTable(l, t) >>
    OBVIOUS
  <2>2. Len(ws) - 1 = 0
    BY <2>1
  <2>3. PICK a \in Nat, b \in Nat : a = e.size /\ b = Table(l)[i].size
    <3>1. Table(l)[i] \in Entry
      BY TableIs
    <3> QED  BY <3>1, EntryParts
  <2>4. ASSUME e.type = "file", NEW u \in 1 .. e.size PROVE u <= b /\ Leaves(ws, 0, e, u)
    <3>1. a <= b
      BY <2>3, <2>4
    <3>2. u <= b
      BY <2>3, <2>4, <3>1
    <3>3. 1 .. 0 = {}
      OBVIOUS
    <3> QED  BY <3>2, <3>3, Zenon DEF Leaves
  <2> QED  BY <2>1, <2>2, <2>3, <2>4, Zenon DEF Brings
<1> QED  BY <1>1, <1>4, <1>5, Zenon DEF Edits

\* A slot no entry has is an entry as well, a free one.
LEMMA NoEntryIs == NoEntry \in Entry /\ NoEntry.type = "free"
BY DEF Entry, NoEntry

\* fs_delete.
LEMMA DeleteDoes ==
  ASSUME TypeOK, DevReserved, NEW p \in Path, Delete(p)
  PROVE  Does
<1>1. Found(p) /\ Deletable(p)
  BY DEF Delete, Deletable
<1>2. PICK l \in Lba, i \in Index : SlotAt(p, l, i)
  BY <1>1, SlotIs
<1>3. Perform(<< ToTable(l, [Table(l) EXCEPT ![i] = NoEntry]) >>, FALSE)
  BY <1>2 DEF Delete, Removed, SlotAt
<1>4. Edits({}, l, i, NoEntry, next)
  BY <1>3, NoEntryIs, OneTable
<1>5. Removes(p, l, i)
  BY <1>1, <1>2, <1>4 DEF Removes
<1> QED  BY <1>5, Zenon DEF Does

\* fs_rename.
LEMMA RenameDoes ==
  ASSUME TypeOK, DevReserved, NEW p \in Path, NEW n \in Names \ {Leaf(p)}, Rename(p, n)
  PROVE  Does
<1>1. Found(p)
  BY DEF Rename
<1>2. PICK l \in Lba, i \in Index :
        /\ SlotAt(p, l, i) /\ Table(l) \in [Index -> Entry] /\ At(p) = Table(l)[i]
        /\ At(p) \in Entry /\ At(p).name = Leaf(p) /\ At(p).type # "free"
  BY <1>1, SlotIs
<1>3. l = InTable(p) /\ i = SlotOf(p)
  BY <1>2 DEF SlotAt
<1>4. PICK f : f = [At(p) EXCEPT !.name = n]
  OBVIOUS
<1>5. f \in Entry /\ f.name = n /\ f.size = At(p).size
  <2>1. At(p) \in [name : Names, type : {"file", "dir"}, start : START .. LIMIT - 1, size : 0 .. MaxSize]
    BY <1>2 DEF Entry, NoEntry
  <2>2. f \in [name : Names, type : {"file", "dir"}, start : START .. LIMIT - 1, size : 0 .. MaxSize]
        /\ f.name = n /\ f.size = At(p).size
    BY <1>4, <2>1
  <2> QED  BY <2>2 DEF Entry
<1>6. [Table(l) EXCEPT ![i].name = n] = [Table(l) EXCEPT ![i] = f]
  BY <1>2, <1>4
<1>7. Perform(<< ToTable(l, [Table(l) EXCEPT ![i] = f]) >>, FALSE)
      /\ ~(l = ROOT /\ n = DEV) /\ Named(Table(l), n) \subseteq {i}
  BY <1>3, <1>6 DEF Rename
<1>8. Edits({}, l, i, f, next)
  <2>1. f.size <= Table(l)[i].size
    <3>1. PICK a \in Nat : a = At(p).size
      BY <1>2, EntryParts
    <3> QED  BY <1>2, <1>5, <3>1
  <2> QED  BY <1>5, <1>7, <2>1, OneTable
<1>9. Renames(p, l, i, n)
  BY <1>2, <1>4, <1>7, <1>8 DEF Renames
<1> QED  BY <1>9, Zenon DEF Does

\* What a program writes.
LEMMA PieceIs ==
  ASSUME NEW s \in Piece
  PROVE  s \in Seq(Byte) /\ Len(s) \in Nat /\ Len(s) <= MaxSize
<1>1. PICK n \in 0 .. MaxSize, b \in Byte : s \in [1 .. n -> {b}]
  BY DEF Piece
<1>2. n \in Nat /\ n <= MaxSize
  BY Constants
<1>3. s \in [1 .. n -> Byte]
  BY <1>1
<1>4. s \in Seq(Byte) /\ Len(s) = n
  BY <1>2, <1>3
<1> QED  BY <1>2, <1>4

\* The units of a sequence of so many are all bytes in the sectors they are written to.
Bytes(dw, z) ==
  \A u \in 1 .. z : dw[(u - 1) \div SECTOR + 1].sector.data[OffsetOf(u)] \in Byte

\* Bytes are written as they are.
LEMMA SequenceBytes ==
  ASSUME NEW lba, NEW s \in Seq(Byte), NEW dw, dw = DataWrites(lba, s), NEW z, z = Len(s)
  PROVE  Bytes(dw, z)
<1> SUFFICES ASSUME NEW u \in 1 .. z
             PROVE  dw[(u - 1) \div SECTOR + 1].sector.data[OffsetOf(u)] \in Byte
  BY Zenon DEF Bytes
<1>1. u \in 1 .. Len(s)
  OBVIOUS
<1>2. PICK d, r : d = (u - 1) \div SECTOR /\ r = (u - 1) % SECTOR
  OBVIOUS
<1>3. u - 1 \in Nat
  OBVIOUS
<1>4. UnitAt(u - 1, d, r)
  BY <1>2, <1>3, UnitPlace, Zenon
<1>5. DataWrites(lba, s)[d + 1].sector.data[r + 1] \in Byte
  BY <1>1, <1>4, BytesWritten, Zenon
<1>6. OffsetOf(u) = r + 1
  BY <1>2, Zenon DEF OffsetOf
<1> QED  BY <1>2, <1>5, <1>6, Zenon

\* A unit that is written on a new sector.
LEMMA AllocFills ==
  ASSUME next \in START .. LIMIT, NEW n \in Nat, NEW ws, NEW dw, Runs(ws, n, dw),
         \A k \in 1 .. n : dw[k].lba = next + k - 1, NEW e, NEW u, NEW k \in 1 .. n,
         SectorOf(e, u) = next + k - 1, dw[k].sector.data[OffsetOf(u)] \in Byte
  PROVE  Fills(ws, n + 1, e, u)
<1>1. next \in Nat /\ next >= 2 /\ SUPER = 0
  BY Constants
<1>2. k + 1 \in 1 .. n + 1 /\ ws[k + 1].lba = SectorOf(e, u)
  <2>1. k + 1 \in 1 .. n + 1
    OBVIOUS
  <2>2. ws[k + 1] = dw[k] /\ dw[k].lba = SectorOf(e, u)
    BY Zenon DEF Runs
  <2> QED  BY <2>1, <2>2, Zenon
<1>3. ASSUME NEW j \in 1 .. n + 1, ws[j].lba = SectorOf(e, u)
      PROVE  ws[j].sector.data[OffsetOf(u)] \in Byte
  <2>1. j # 1
    BY <1>1, <1>3 DEF Runs
  <2>2. PICK i \in 1 .. n : j = i + 1
    <3>1. j - 1 \in 1 .. n /\ j = (j - 1) + 1
      BY <2>1
    <3> QED  BY <3>1
  <2>3. ws[j] = dw[i]
    BY <2>2 DEF Runs
  <2>4. next + i - 1 = next + k - 1
    BY <1>3, <2>3
  <2>5. i = k
    BY <1>1, <2>4
  <2> QED  BY <2>3, <2>5, Zenon
<1> QED  BY <1>2, <1>3, Zenon DEF Fills

\* A new file is filled.
LEMMA FileBrought ==
  ASSUME next \in START .. LIMIT, NEW f \in Entry, f.start = next, NEW n \in Nat \ {0},
         n = Sectors(f.size), NEW ws, NEW dw, Runs(ws, n, dw),
         \A k \in 1 .. n : dw[k].lba = next + k - 1, f.type = "file" => Bytes(dw, f.size)
  PROVE  Brings(ws, f, 0)
<1> SUFFICES ASSUME f.type = "file", NEW u \in 1 .. f.size
             PROVE  ~(u <= 0) /\ Fills(ws, Len(ws) - 1, f, u)
  BY Zenon DEF Brings
<1>1. next \in Nat
  BY Constants
<1>2. Len(ws) - 1 = n + 1
  BY DEF Runs
<1>3. PICK d : d = (u - 1) \div SECTOR
  OBVIOUS
<1>4. d \in Nat /\ d < n
  BY <1>3, UnitIs DEF UnitAt
<1>5. d + 1 \in 1 .. n /\ next + (d + 1) - 1 = next + d
  BY <1>1, <1>4
<1>6. SectorOf(f, u) = next + (d + 1) - 1
  BY <1>3, <1>5 DEF SectorOf
<1>7. dw[d + 1].sector.data[OffsetOf(u)] \in Byte
  BY <1>3, Zenon DEF Bytes
<1>8. Fills(ws, n + 1, f, u)
  BY <1>5, <1>6, <1>7, AllocFills
<1>9. u >= 1
  BY EntryParts
<1> QED  BY <1>2, <1>8, <1>9

\* A call of new sectors and one table.
LEMMA NewSectors ==
  ASSUME TypeOK, DevReserved, NEW l \in Lba \cup {NoTable}, OnWalk(l),
         NEW f \in Entry, f.type \in {"file", "dir"}, f.start = next, f.type = "dir" => f.size = 0,
         CanAdd(l, f.name), NEW n, n = Sectors(f.size), SpanValid(next, n),
         NEW dw \in Seq(Writes), Len(dw) = n,
         \A k \in 1 .. n : dw[k].lba = next + k - 1 /\ dw[k].sector.entries = Blank.entries,
         (AllFilled /\ f.type = "file") => Bytes(dw, f.size),
         Perform(Alloc(n, dw \o << ToTable(l, Added(l, f)) >>), FALSE)
  PROVE  Does
<1>1. f.size \in Nat
  BY EntryParts
<1>2. n \in Nat \ {0}
  BY <1>1, SectorsIsNat
<1>3. PICK i \in Index : Table(l)[i].type = "free" /\ Added(l, f) = [Table(l) EXCEPT ![i] = f]
  BY AddedIs
<1>4. l \in Lba /\ (l = ROOT => f.name # DEV) /\ Named(Table(l), f.name) = {}
  BY AddedIs DEF CanAdd
<1>5. PICK t : t = [Table(l) EXCEPT ![i] = f]
  OBVIOUS
<1>6. t \in [Index -> Entry] /\ (l = ROOT => Named(t, DEV) = {})
  BY <1>4, <1>5, EditIs
<1>7. next \in START .. LIMIT /\ next + n <= LIMIT /\ next < LIMIT
  <2>1. next \in START .. LIMIT
    BY DEF TypeOK
  <2> QED  BY <1>2, <2>1, Constants DEF SpanValid
<1>8. PICK ws : /\ ws = Alloc(n, dw \o << ToTable(l, t) >>)
                /\ Settles(ws, {}, l, t, next + n) /\ Runs(ws, n, dw)
  BY <1>2, <1>4, <1>6, <1>7, AllocSettles
<1>9. Perform(ws, FALSE)
  BY <1>3, <1>5, <1>8
<1>10. Edits({}, l, i, f, next + Sectors(f.size))
  <2>1. Table(l)[i].size = 0
    BY <1>3, <1>4, TableIs DEF Entry, NoEntry
  <2>2. ASSUME AllFilled PROVE Brings(ws, f, 0)
    BY <1>2, <1>7, <1>8, <2>2, FileBrought
  <2>3. Settles(ws, {}, l, [Table(l) EXCEPT ![i] = f], next + Sectors(f.size))
    BY <1>5, <1>8
  <2> QED  BY <1>4, <1>9, <2>1, <2>2, <2>3, Zenon DEF Edits
<1>11. Adds(l, i, f)
  BY <1>3, <1>4, <1>7, <1>10 DEF Adds
<1> QED  BY <1>11, Zenon DEF Does

\* The table a path goes into is on its walk.
LEMMA InTableIs ==
  ASSUME TypeOK, NEW p \in Path
  PROVE  InTable(p) \in Lba \cup {NoTable} /\ OnWalk(InTable(p))
<1>1. InTable(p) \in Lba \cup {NoTable}
  BY WalkIsTable
<1>2. OnWalk(InTable(p))
  BY PathParts, Zenon DEF OnWalk, InTable
<1> QED  BY <1>1, <1>2

\* fs_create_dir, fs_create_file.
LEMMA CreateDoes ==
  ASSUME TypeOK, DevReserved, NEW p \in Path, NEW type \in {"file", "dir"},
         NEW s \in Piece \cup {<< >>}, type = "dir" => s = << >>, Create(p, type, s)
  PROVE  Does
<1>1. PICK l \in Lba \cup {NoTable} : l = InTable(p) /\ OnWalk(l)
  BY InTableIs
<1>2. s \in Seq(Byte) /\ Len(s) \in Nat /\ Len(s) <= MaxSize
  <2>1. << >> \in Seq(Byte) /\ Len(<< >>) = 0 /\ 0 <= MaxSize
    BY Constants
  <2>2. CASE s \in Piece
    BY <2>2, PieceIs
  <2>3. CASE s \in {<< >>}
    BY <2>1, <2>3
  <2> QED  BY <2>2, <2>3
<1>3. PICK n : n = Sectors(Len(s))
  OBVIOUS
<1>4. n = IF type = "dir" THEN 1 ELSE Sectors(Len(s))
  <2>1. CASE type = "dir"
    <3>1. Len(s) = 0
      BY <2>1
    <3>2. 0 \div SECTOR = 0 /\ 0 % SECTOR = 0
      BY Constants
    <3> QED  BY <1>3, <2>1, <3>1, <3>2 DEF Sectors
  <2> QED  BY <1>3, <2>1
<1>5. n \in Nat \ {0}
  BY <1>2, <1>3, SectorsIsNat
<1>6. PICK f : f = [name |-> Leaf(p), type |-> type, start |-> next, size |-> Len(s)]
  OBVIOUS
<1>7. CanAdd(l, Leaf(p)) /\ SpanValid(next, n)
      /\ Perform(Alloc(n, DataWrites(next, s) \o << ToTable(l, Added(l, f)) >>), FALSE)
  BY <1>1, <1>4, <1>6 DEF Create
<1>8. next \in START .. LIMIT /\ next + n <= LIMIT /\ next < LIMIT
  <2>1. next \in START .. LIMIT
    BY DEF TypeOK
  <2> QED  BY <1>5, <1>7, <2>1, Constants DEF SpanValid
<1>9. f \in Entry
  <2>1. Leaf(p) \in Names /\ Len(s) \in 0 .. MaxSize
    BY <1>2, PathParts, Constants
  <2>2. next \in START .. LIMIT - 1
    BY <1>8, Constants
  <2>3. f \in [name : Names, type : {"file", "dir"}, start : START .. LIMIT - 1, size : 0 .. MaxSize]
    BY <1>6, <2>1, <2>2
  <2> QED  BY <2>3 DEF Entry
<1>10. f.type = type /\ f.start = next /\ f.size = Len(s) /\ f.name = Leaf(p)
  BY <1>6
<1>11. type = "dir" => Len(s) = 0
  OBVIOUS
<1>12. next \in Lba /\ s \in Seq(Byte \cup {0})
  BY <1>2, <1>8, Constants DEF Lba
<1>13. PICK dw : dw = DataWrites(next, s)
  OBVIOUS
<1>14. /\ dw \in Seq(Writes) /\ Len(dw) = n
       /\ \A k \in 1 .. n : dw[k].lba = next + k - 1 /\ dw[k].sector.entries = Blank.entries
  BY <1>3, <1>8, <1>12, <1>13, DataWritesAre
<1>15. Perform(Alloc(n, dw \o << ToTable(l, Added(l, f)) >>), FALSE)
  BY <1>7, <1>13
<1>16. CanAdd(l, f.name) /\ f.type \in {"file", "dir"} /\ (f.type = "dir" => f.size = 0) /\ n = Sectors(f.size)
  BY <1>3, <1>7, <1>10, <1>11
<1>17. Bytes(dw, f.size)
  BY <1>2, <1>10, <1>13, SequenceBytes
<1> QED  BY <1>1, <1>7, <1>9, <1>10, <1>14, <1>15, <1>16, <1>17, NewSectors

\* Where a file is copied or moved to.
LEMMA TargetIs ==
  ASSUME TypeOK, NEW d \in Path \cup {<< >>}
  PROVE  Walk(d) \in Lba \cup {NoTable} /\ OnWalk(Walk(d))
<1>1. d \in Seq(Names) /\ Len(d) <= MaxDepth
  <2>1. << >> \in Seq(Names) /\ Len(<< >>) = 0 /\ 0 <= MaxDepth
    BY Constants
  <2>2. CASE d \in Path
    BY <2>2, PathParts
  <2>3. CASE d \in {<< >>}
    BY <2>1, <2>3
  <2> QED  BY <2>2, <2>3
<1>2. Walk(d) \in Lba \cup {NoTable}
  BY <1>1, WalkIsTable
<1> QED  BY <1>1, <1>2, Zenon DEF OnWalk

\* fs_copy_file.
LEMMA CopyDoes ==
  ASSUME TypeOK, DevReserved, NEW p \in Path, NEW d \in Path \cup {<< >>}, CopyFile(p, d)
  PROVE  Does
<1>2. PICK to \in Lba \cup {NoTable} : to = Walk(d) /\ OnWalk(to)
  BY TargetIs, Zenon
<1>3. PICK e \in Entry : e = At(p) /\ e.type = "file" /\ e.name = Leaf(p)
  BY SlotIs DEF CopyFile, IsFile
<1>4. PICK n : n = Sectors(e.size)
  OBVIOUS
<1>5. n \in Nat \ {0}
  BY <1>4, EntryParts, SectorsIsNat
<1>6. PICK f : f = [e EXCEPT !.start = next]
  OBVIOUS
<1>7. PICK dw : dw = [k \in 1 .. n |-> ToData(next + k - 1, sector[e.start + k - 1].data)]
  OBVIOUS
<1>8. /\ CanAdd(to, Leaf(p)) /\ SpanValid(e.start, n) /\ SpanValid(next, n)
      /\ Perform(Alloc(n, dw \o << ToTable(to, Added(to, f)) >>), FALSE)
  BY <1>2, <1>3, <1>4, <1>6, <1>7 DEF CopyFile
<1>9. next \in START .. LIMIT /\ next + n <= LIMIT /\ next < LIMIT
  <2>1. next \in START .. LIMIT
    BY DEF TypeOK
  <2> QED  BY <1>5, <1>8, <2>1, Constants DEF SpanValid
<1>10. f \in Entry /\ f.type = "file" /\ f.start = next /\ f.size = e.size /\ f.name = Leaf(p)
  <2>1. e \in [name : Names, type : {"file", "dir"}, start : START .. LIMIT - 1, size : 0 .. MaxSize]
    BY <1>3 DEF Entry, NoEntry
  <2>2. next \in START .. LIMIT - 1
    BY <1>9, Constants
  <2>3. f \in [name : Names, type : {"file", "dir"}, start : START .. LIMIT - 1, size : 0 .. MaxSize]
        /\ f.type = e.type /\ f.start = next /\ f.size = e.size /\ f.name = e.name
    BY <1>6, <2>1, <2>2
  <2> QED  BY <1>3, <2>3 DEF Entry
<1>11. ASSUME NEW k \in 1 .. n
       PROVE  /\ dw[k] \in Writes /\ dw[k].lba = next + k - 1 /\ dw[k].sector.entries = Blank.entries
              /\ dw[k].sector.data = sector[e.start + k - 1].data
  <2>1. next + k - 1 \in Lba
    BY <1>5, <1>9, Constants DEF Lba
  <2>2. e.start + k - 1 \in Lba
    <3>1. PICK a \in Nat : a = e.start
      <4>1. e.start \in Nat
        BY EntryParts
      <4> QED  BY <4>1, Zenon
    <3>2. a >= START /\ a < LIMIT /\ n <= LIMIT - a
      BY <1>8, <3>1 DEF SpanValid
    <3>3. a + k - 1 \in Lba
      BY <1>5, <3>2, Constants DEF Lba
    <3> QED  BY <3>1, <3>3
  <2>3. sector[e.start + k - 1].data \in Data
    BY <2>2 DEF TypeOK, Data
  <2>4. dw[k] = ToData(next + k - 1, sector[e.start + k - 1].data)
    BY <1>7
  <2> QED  BY <2>1, <2>3, <2>4, ToDataIs
<1>12. dw \in Seq(Writes) /\ Len(dw) = n
  <2>1. dw \in [1 .. n -> Writes]
    BY <1>7, <1>11
  <2> QED  BY <1>5, <2>1
<1>13. n = Sectors(f.size) /\ CanAdd(to, f.name) /\ f.type \in {"file", "dir"} /\ f.type # "dir"
  BY <1>4, <1>8, <1>10
<1>14. AllFilled => Bytes(dw, f.size)
  <2> SUFFICES ASSUME AllFilled, NEW u \in 1 .. f.size
               PROVE  dw[(u - 1) \div SECTOR + 1].sector.data[OffsetOf(u)] \in Byte
    BY Zenon DEF Bytes
  <2>1. u \in 1 .. e.size
    BY <1>10
  <2>2. Unit(sector, e, u) \in Byte
    <3>1. Filled(sector, e)
      BY <1>3 DEF AllFilled, CopyFile
    <3> QED  BY <2>1, <3>1, Zenon DEF Filled
  <2>3. PICK x : x = (u - 1) \div SECTOR
    OBVIOUS
  <2>4. x \in Nat /\ x < n
    BY <1>4, <2>1, <2>3, UnitIs DEF UnitAt
  <2>5. x + 1 \in 1 .. n
    BY <1>5, <2>4
  <2>6. dw[x + 1].sector.data = sector[e.start + (x + 1) - 1].data
    BY <1>11, <2>5, Zenon
  <2>7. e.start + (x + 1) - 1 = SectorOf(e, u)
    <3>1. PICK a \in Nat : a = e.start
      BY EntryParts, Zenon
    <3>2. a + (x + 1) - 1 = a + x
      BY <2>4
    <3> QED  BY <2>3, <3>1, <3>2, Zenon DEF SectorOf
  <2> QED  BY <2>2, <2>3, <2>6, <2>7, Zenon DEF Unit
<1> QED  BY <1>2, <1>8, <1>10, <1>11, <1>12, <1>13, <1>14, NewSectors

\* fs_move.
LEMMA MoveDoes ==
  ASSUME TypeOK, DevReserved, NEW p \in Path, NEW d \in Path \cup {<< >>}, Move(p, d)
  PROVE  Does
<1>2. PICK to \in Lba \cup {NoTable} : to = Walk(d) /\ OnWalk(to)
  BY TargetIs, Zenon
<1>3. PICK l \in Lba, i \in Index :
        /\ SlotAt(p, l, i) /\ Table(l) \in [Index -> Entry] /\ At(p) = Table(l)[i]
        /\ At(p) \in Entry /\ At(p).name = Leaf(p) /\ At(p).type # "free"
  BY SlotIs DEF Move, IsFile
<1>4. l = InTable(p) /\ i = SlotOf(p) /\ At(p).type = "file"
  BY <1>3 DEF SlotAt, Move, IsFile
<1>5. PICK e \in Entry : e = At(p) /\ e.type = "file" /\ e.name = Leaf(p)
  BY <1>3, <1>4
<1>6. /\ CanAdd(to, e.name)
      /\ Perform(<< ToTable(to, Added(to, e)), ToTable(l, [Table(l) EXCEPT ![i] = NoEntry]) >>, TRUE)
  BY <1>2, <1>4, <1>5 DEF Move, Removed
<1>7. PICK j \in Index : Table(to)[j].type = "free" /\ Added(to, e) = [Table(to) EXCEPT ![j] = e]
  BY <1>6, AddedIs
<1>8. to \in Lba /\ (to = ROOT => e.name # DEV) /\ Named(Table(to), e.name) = {}
  BY <1>6, AddedIs DEF CanAdd
<1>9. to # l
  <2>1. SlotOf(p) \in Named(Table(l), e.name)
    <3>1. i \in Named(Table(l), e.name)
      BY <1>3, <1>5 DEF Named
    <3> QED  BY <1>4, <3>1
  <2> QED  BY <1>8, <2>1
<1>10. PICK v \in Writes : /\ v = ToTable(to, [Table(to) EXCEPT ![j] = e])
                           /\ v.lba = to /\ v.sector.entries = [Table(to) EXCEPT ![j] = e]
  <2>1. PICK t : t = [Table(to) EXCEPT ![j] = e]
    OBVIOUS
  <2>2. t \in [Index -> Entry] /\ (to = ROOT => Named(t, DEV) = {})
    BY <1>8, <2>1, EditIs
  <2>3. ToTable(to, t) \in Writes /\ ToTable(to, t).lba = to /\ ToTable(to, t).sector.entries = t
    BY <1>8, <2>2, ToTableIs
  <2> QED  BY <2>1, <2>3
<1>11. PICK w \in Writes : /\ w = ToTable(l, [Table(l) EXCEPT ![i] = NoEntry])
                           /\ w.lba = l /\ w.sector.entries = [Table(l) EXCEPT ![i] = NoEntry]
  <2>1. PICK t : t = [Table(l) EXCEPT ![i] = NoEntry]
    OBVIOUS
  <2>2. t \in [Index -> Entry] /\ (l = ROOT => Named(t, DEV) = {})
    BY <2>1, NoEntryIs, EditIs
  <2>3. ToTable(l, t) \in Writes /\ ToTable(l, t).lba = l /\ ToTable(l, t).sector.entries = t
    BY <2>2, ToTableIs
  <2> QED  BY <2>1, <2>3
<1>12. Perform(<< v, w >>, TRUE)
  BY <1>6, <1>7, <1>10, <1>11
<1>13. Moves(p, l, i, to, j)
  BY <1>2, <1>3, <1>5, <1>7, <1>8, <1>9, <1>10, <1>11, <1>12 DEF Moves
<1> QED  BY <1>13, Zenon DEF Does

\* What is left of a sequence after its first elements.
LEMMA RestIs ==
  ASSUME NEW S, NEW s \in Seq(S), NEW n \in Nat
  PROVE  /\ SubSeq(s, n + 1, Len(s)) \in Seq(S)
         /\ Len(SubSeq(s, n + 1, Len(s))) = IF Len(s) <= n THEN 0 ELSE Len(s) - n
<1>1. PICK m \in Nat : m = Len(s)
  OBVIOUS
<1>2. Len(SubSeq(s, n + 1, m)) = IF m <= n THEN 0 ELSE m - n
  BY <1>1
<1>3. SubSeq(s, n + 1, m) \in Seq(S)
  <2>1. ASSUME NEW k \in n + 1 .. m PROVE s[k] \in S
    BY <1>1
  <2> QED  BY <1>1, <2>1
<1> QED  BY <1>1, <1>2, <1>3

\* The last sector of a file, and the first unit after it.
Cap(e) == Sectors(e.size) * SECTOR

\* Where the last sector of a file is, and how full.
LEMMA TailIs ==
  ASSUME NEW e \in Entry
  PROVE  \E n \in Nat \ {0}, c \in Nat, b \in Nat, a \in Nat, z \in Nat :
           /\ n = Sectors(e.size) /\ c = Cap(e) /\ c = n * SECTOR /\ b = (n - 1) * SECTOR
           /\ c = b + SECTOR /\ a = e.start /\ z = e.size /\ b <= z /\ z <= c
           /\ TailOffset(e) = z - b /\ TailLba(e) = a + n - 1
<1>1. PICK a \in Nat, z \in Nat : a = e.start /\ z = e.size
  BY EntryParts
<1>2. PICK S \in Nat \ {0} : S = SECTOR
  BY Constants
<1>3. PICK n \in Nat \ {0}, c \in Nat : n = Sectors(z) /\ c = n * S /\ z <= c
  BY <1>2, SectorsIsNat, SectorsFit
<1>4. PICK m \in Nat : m = n - 1 /\ n = m + 1
  <2>1. n - 1 \in Nat /\ n = (n - 1) + 1
    OBVIOUS
  <2> QED  BY <2>1
<1>5. PICK b \in Nat : b = m * S
  BY <1>2, <1>4, ProductIsNat
<1>6. c = b + S
  <2>1. (m + 1) * S = m * S + S
    BY <1>2, <1>4
  <2>2. c = m * S + S
    BY <1>3, <1>4, <2>1, Zenon
  <2> QED  BY <1>5, <2>2, Zenon
<1>7. b <= z
  <2>1. CASE m = 0
    BY <1>5, <2>1
  <2>2. CASE m # 0
    <3>1. \A q \in Nat \ {0} : z <= q * S => n <= q
      BY <1>1, <1>2, <1>3, SectorsFit
    <3>2. z <= m * S => n <= m
      BY <2>2, <3>1
    <3>3. ~(z <= b)
      BY <1>4, <1>5, <3>2
    <3> QED  BY <3>3
  <2> QED  BY <2>1, <2>2
<1>8. TailOffset(e) = z - b /\ TailLba(e) = a + n - 1
  BY <1>1, <1>2, <1>3, <1>4, <1>5, Zenon DEF TailOffset, TailLba
<1>9. c = Cap(e) /\ n = Sectors(e.size) /\ c = n * SECTOR
  BY <1>1, <1>2, <1>3, Zenon DEF Cap
<1>10. b = (n - 1) * SECTOR /\ c = b + SECTOR
  BY <1>2, <1>4, <1>5, <1>6, Zenon
<1> QED  BY <1>1, <1>3, <1>7, <1>8, <1>9, <1>10, Zenon

\* What the tail's write has at a place.
LEMMA TailData ==
  ASSUME NEW e, NEW s, NEW o \in 1 .. SECTOR
  PROVE  TailWrite(e, s).sector.data[o] =
           IF o - TailOffset(e) \in 1 .. Len(s) THEN s[o - TailOffset(e)]
           ELSE sector[TailLba(e)].data[o]
<1>1. PICK f : f = [u \in 1 .. SECTOR |->
                      LET i == u - TailOffset(e) IN
                        IF i \in 1 .. Len(s) THEN s[i] ELSE sector[TailLba(e)].data[u]]
  OBVIOUS
<1>2. TailWrite(e, s) = ToData(TailLba(e), f)
  BY <1>1, Zenon DEF TailWrite
<1>3. ToData(TailLba(e), f).sector.data = f
  BY DEF ToData, AsData, Blank
<1>4. f[o] = IF o - TailOffset(e) \in 1 .. Len(s) THEN s[o - TailOffset(e)]
             ELSE sector[TailLba(e)].data[o]
  BY <1>1, Zenon
<1> QED  BY <1>2, <1>3, <1>4, Zenon

\* It leaves the units the file has, and has those after them that fit.
LEMMA TailLeaves ==
  ASSUME NEW e \in Entry, NEW s, NEW u \in 1 .. e.size, SectorOf(e, u) = TailLba(e)
  PROVE  TailWrite(e, s).sector.data[OffsetOf(u)] = Unit(sector, e, u)
<1>1. PICK n \in Nat \ {0}, c \in Nat, b \in Nat, a \in Nat, z \in Nat :
        /\ n = Sectors(e.size) /\ c = Cap(e) /\ c = n * SECTOR /\ b = (n - 1) * SECTOR
        /\ c = b + SECTOR /\ a = e.start /\ z = e.size /\ b <= z /\ z <= c
        /\ TailOffset(e) = z - b /\ TailLba(e) = a + n - 1
  BY TailIs, Zenon
<1>2. PICK d, r : d = (u - 1) \div SECTOR /\ r = (u - 1) % SECTOR
  OBVIOUS
<1>3. UnitAt(u - 1, d, r) /\ OffsetOf(u) \in 1 .. SECTOR
  BY <1>2, UnitIs, Zenon
<1>4. d \in Nat /\ r \in 0 .. SECTOR - 1 /\ u - 1 = d * SECTOR + r
  BY <1>3, Zenon DEF UnitAt
<1>5. a + d = a + n - 1
  BY <1>1, <1>2, Zenon DEF SectorOf
<1>6. d = n - 1
  BY <1>4, <1>5
<1>7. u - 1 = b + r
  BY <1>1, <1>4, <1>6, Zenon
<1>8. OffsetOf(u) = r + 1
  BY <1>2, Zenon DEF OffsetOf
<1>9. PICK y \in Nat : y = r
  BY <1>4, Constants
<1>10. ~((y + 1) - (z - b) \in 1 .. Len(s))
  <2>1. u \in Nat /\ u <= z /\ u = b + y + 1
    BY <1>1, <1>7, <1>9
  <2>2. (y + 1) - (z - b) <= 0
    BY <2>1
  <2> QED  BY <2>2
<1>11. ~(OffsetOf(u) - TailOffset(e) \in 1 .. Len(s))
  BY <1>1, <1>8, <1>9, <1>10, Zenon
<1>12. TailWrite(e, s).sector.data[OffsetOf(u)] = sector[TailLba(e)].data[OffsetOf(u)]
  BY <1>3, <1>11, TailData
<1> QED  BY <1>12, Zenon DEF Unit

\* The units that go into what is left of the last sector are bytes there.
LEMMA TailFills ==
  ASSUME NEW e \in Entry, NEW s \in Seq(Byte), NEW u \in Nat, e.size < u, u <= Cap(e),
         u <= e.size + Len(s)
  PROVE  SectorOf(e, u) = TailLba(e) /\ TailWrite(e, s).sector.data[OffsetOf(u)] \in Byte
<1>1. PICK n \in Nat \ {0}, c \in Nat, b \in Nat, a \in Nat, z \in Nat :
        /\ n = Sectors(e.size) /\ c = Cap(e) /\ c = n * SECTOR /\ b = (n - 1) * SECTOR
        /\ c = b + SECTOR /\ a = e.start /\ z = e.size /\ b <= z /\ z <= c
        /\ TailOffset(e) = z - b /\ TailLba(e) = a + n - 1
  BY TailIs, Zenon
<1>2. PICK S \in Nat \ {0} : S = SECTOR
  BY Constants
<1>20. c = b + S /\ b <= z /\ z <= c /\ z < u /\ u <= c /\ u <= z + Len(s)
  BY <1>1, <1>2, Zenon
<1>3. PICK r \in Nat : r = u - 1 - b /\ u - 1 = b + r /\ r + 1 = u - b
  <2>1. u - 1 - b \in Nat /\ u - 1 = b + (u - 1 - b) /\ (u - 1 - b) + 1 = u - b
    BY <1>20
  <2> QED  BY <2>1
<1>4. r \in 0 .. S - 1
  BY <1>20, <1>3
<1>5. n - 1 \in Nat /\ u - 1 \in Nat
  BY <1>3
<1>6. UnitAt(u - 1, n - 1, r)
  BY <1>1, <1>2, <1>3, <1>4, <1>5, Zenon DEF UnitAt
<1>7. (u - 1) \div SECTOR = n - 1 /\ (u - 1) % SECTOR = r
  BY <1>5, <1>6, PlaceIs, Zenon
<1>8. SectorOf(e, u) = TailLba(e)
  <2>1. a + (n - 1) = a + n - 1
    OBVIOUS
  <2> QED  BY <1>1, <1>7, <2>1, Zenon DEF SectorOf
<1>9. OffsetOf(u) = r + 1 /\ r + 1 \in 1 .. SECTOR
  <2>1. r + 1 \in 1 .. S
    BY <1>2, <1>4
  <2> QED  BY <1>2, <1>7, <2>1, Zenon DEF OffsetOf
<1>10. PICK k \in Int : k = (r + 1) - (z - b) /\ k \in 1 .. Len(s)
  <2>1. PICK m \in Nat : m = Len(s) /\ u <= z + m
    BY <1>20
  <2>2. (r + 1) - (z - b) = u - z
    BY <1>3
  <2>3. u - z \in 1 .. m
    BY <1>20, <2>1
  <2> QED  BY <2>1, <2>2, <2>3
<1>11. s[k] \in Byte
  BY <1>10
<1>12. OffsetOf(u) - TailOffset(e) = k /\ OffsetOf(u) \in 1 .. SECTOR
  BY <1>1, <1>9, <1>10, Zenon
<1>13. TailWrite(e, s).sector.data[OffsetOf(u)] = s[OffsetOf(u) - TailOffset(e)]
  <2>1. OffsetOf(u) - TailOffset(e) \in 1 .. Len(s)
    BY <1>10, <1>12, Zenon
  <2> QED  BY <1>12, <2>1, TailData
<1> QED  BY <1>8, <1>11, <1>12, <1>13, Zenon

\* The units after the last sector of a file are those of sectors of their own.
Beyond(e, u, j, d, r) == UnitAt(j - 1, d, r) /\ u = Cap(e) + j
BehindTail(e, u, d, r) ==
  /\ SectorOf(e, u) = (e.start + Sectors(e.size)) + d /\ OffsetOf(u) = r + 1
  /\ d \in Nat /\ TailLba(e) < SectorOf(e, u)

\* The unit after those of the last sector is the first of the next, and so on.
LEMMA BeyondTail ==
  ASSUME NEW e \in Entry, NEW j \in Nat \ {0}, NEW d, NEW r, NEW u, Beyond(e, u, j, d, r)
  PROVE  BehindTail(e, u, d, r)
<1>0. UnitAt(j - 1, d, r) /\ u = Cap(e) + j
  BY Zenon DEF Beyond
<1>1. PICK n \in Nat \ {0}, c \in Nat, b \in Nat, a \in Nat, z \in Nat :
        /\ n = Sectors(e.size) /\ c = Cap(e) /\ c = n * SECTOR /\ b = (n - 1) * SECTOR
        /\ c = b + SECTOR /\ a = e.start /\ z = e.size /\ b <= z /\ z <= c
        /\ TailOffset(e) = z - b /\ TailLba(e) = a + n - 1
  BY TailIs, Zenon
<1>2. d \in Nat /\ r \in 0 .. SECTOR - 1 /\ j - 1 = d * SECTOR + r
  BY <1>0, Zenon DEF UnitAt
<1>3. PICK x \in Nat : x = u - 1 /\ x = c + (j - 1)
  <2>1. u = c + j
    BY <1>0, <1>1, Zenon
  <2>2. u - 1 \in Nat /\ u - 1 = c + (j - 1)
    BY <2>1
  <2> QED  BY <2>2
<1>4. PICK S \in Nat \ {0} : S = SECTOR
  BY Constants
<1>5. x = (n + d) * S + r
  <2>1. PICK y \in Nat, v \in Nat : y = n * S /\ v = d * S
    BY <1>2, <1>4, ProductIsNat, Zenon
  <2>2. (n + d) * S = y + v
    BY <1>1, <1>2, <2>1
  <2>3. x = y + (v + r)
    BY <1>1, <1>2, <1>3, <1>4, <2>1, Zenon
  <2>4. r \in Nat
    BY <1>2, Constants
  <2> QED  BY <2>1, <2>2, <2>3, <2>4
<1>6. n + d \in Nat
  BY <1>1, <1>2
<1>7. UnitAt(x, n + d, r)
  BY <1>2, <1>4, <1>5, <1>6, Zenon DEF UnitAt
<1>8. (u - 1) \div SECTOR = n + d /\ (u - 1) % SECTOR = r
  BY <1>3, <1>7, PlaceIs, Zenon
<1>9. a + (n + d) = (a + n) + d /\ a + n - 1 < a + (n + d)
  BY <1>1, <1>2
<1> QED  BY <1>1, <1>2, <1>8, <1>9, Zenon DEF SectorOf, OffsetOf, BehindTail

\* Of the first n writes none is to a sector file f has up to unit c; the rest are filled.
Meets(ws, n, f, c) ==
  \A u \in 1 .. f.size :
    IF u <= c THEN \A k \in 1 .. n : ws[k].lba # SectorOf(f, u) ELSE Fills(ws, n, f, u)

\* The new sectors of a file are filled with what is left for them.
LEMMA RestMeets ==
  ASSUME next \in START .. LIMIT, NEW e \in Entry, e.start + Sectors(e.size) = next,
         NEW f \in Entry, f.start = e.start, NEW s \in Seq(Byte), f.size <= Cap(e) + Len(s),
         e.type = "file",
         NEW n \in Nat \ {0}, n = Sectors(Len(s)), NEW dw, dw = DataWrites(next, s),
         \A k \in 1 .. n : dw[k].lba = next + k - 1, NEW ws, Runs(ws, n, dw)
  PROVE  Meets(ws, n + 1, f, Cap(e))
<1>1. PICK m \in Nat \ {0}, c \in Nat, a \in Nat :
        m = Sectors(e.size) /\ c = Cap(e) /\ a = e.start /\ c = m * SECTOR
  BY TailIs, Zenon
<1>2. next \in Nat /\ next >= 2 /\ a + m = next
  BY <1>1, Constants
<1> SUFFICES ASSUME NEW u \in 1 .. f.size
             PROVE  IF u <= c THEN \A k \in 1 .. n + 1 : ws[k].lba # SectorOf(f, u)
                    ELSE Fills(ws, n + 1, f, u)
  BY <1>1, Zenon DEF Meets
<1>3. u \in Nat \ {0}
  BY EntryParts
<1>4. SectorOf(f, u) = SectorOf(e, u) /\ SectorOf(e, u) = a + (u - 1) \div SECTOR
  BY <1>1, Zenon DEF SectorOf
<1>5. PICK x \in Nat : x = u - 1
  <2>1. u - 1 \in Nat
    BY <1>3
  <2> QED  BY <2>1
<1>6. CASE u <= c
  <2>1. PICK d, r : d = x \div SECTOR /\ UnitAt(x, d, r)
    BY <1>5, UnitPlace, Zenon
  <2>2. x < c
    BY <1>3, <1>5, <1>6
  <2>3. d < m /\ d \in Nat
    BY <1>1, <2>1, <2>2, PlaceBelow DEF UnitAt
  <2>4. SectorOf(f, u) = a + d
    BY <1>4, <1>5, <2>1, Zenon
  <2>5. SectorOf(f, u) \in Nat /\ SectorOf(f, u) < next
    BY <1>2, <2>3, <2>4
  <2>6. ASSUME NEW k \in 1 .. n + 1, ws[k].lba = SectorOf(f, u) PROVE FALSE
    <3>1. CASE k = 1
      <4>1. SectorOf(f, u) = SUPER
        BY <2>6, <3>1, Zenon DEF Runs
      <4>2. (u - 1) \div SECTOR \in Nat /\ a >= 2
        <5>1. a \in START .. LIMIT - 1
          BY <1>1, EntryParts
        <5> QED  BY <1>5, <2>1, <2>3, <5>1, Constants
      <4> QED  BY <1>4, <4>1, <4>2, Constants
    <3>2. CASE k # 1
      <4>1. PICK i \in 1 .. n : k = i + 1
        <5>1. k - 1 \in 1 .. n /\ k = (k - 1) + 1
          BY <3>2
        <5> QED  BY <5>1
      <4>2. ws[k] = dw[i] /\ dw[i].lba = next + i - 1
        BY <4>1, Zenon DEF Runs
      <4>3. SectorOf(f, u) = next + i - 1
        BY <2>6, <4>2, Zenon
      <4> QED  BY <1>2, <2>5, <4>3
    <3> QED  BY <3>1, <3>2
  <2> QED  BY <1>6, <2>6
<1>7. CASE ~(u <= c)
  <2>1. PICK j \in Nat \ {0} : u = c + j /\ j \in 1 .. Len(s)
    <3>1. PICK z \in Nat, v \in Nat : z = f.size /\ v = Len(s) /\ z <= c + v
      <4>1. f.size \in Nat /\ Len(s) \in Nat
        BY EntryParts
      <4> QED  BY <1>1, <4>1
    <3>2. u - c \in Nat \ {0} /\ u = c + (u - c) /\ u - c \in 1 .. v
      BY <1>3, <1>7, <3>1
    <3> QED  BY <3>1, <3>2
  <2>2. j - 1 \in Nat
    BY <2>1
  <2>3. PICK d, r : UnitAt(j - 1, d, r)
    BY <2>2, UnitPlace, Zenon
  <2>4. SectorOf(e, u) = next + d /\ OffsetOf(u) = r + 1 /\ d \in Nat
    <3>1. Beyond(e, u, j, d, r)
      BY <1>1, <2>1, <2>3, Zenon DEF Beyond
    <3>4. BehindTail(e, u, d, r)
      BY <3>1, BeyondTail, Zenon
    <3>2. /\ SectorOf(e, u) = (e.start + Sectors(e.size)) + d /\ OffsetOf(u) = r + 1
          /\ d \in Nat
      BY <3>4, Zenon DEF BehindTail
    <3>3. e.start + Sectors(e.size) = next
      OBVIOUS
    <3> QED  BY <3>2, <3>3, Zenon
  <2>5. d + 1 \in 1 .. n /\ dw[d + 1].sector.data[OffsetOf(u)] \in Byte
    <3>1. d + 1 \in 1 .. Sectors(Len(s)) /\ DataWrites(next, s)[d + 1].sector.data[r + 1] \in Byte
      BY <2>1, <2>3, BytesWritten, Zenon
    <3> QED  BY <2>4, <3>1, Zenon
  <2>6. SectorOf(f, u) = next + (d + 1) - 1
    BY <1>2, <1>4, <2>4
  <2>7. Fills(ws, n + 1, f, u)
    BY <2>5, <2>6, AllocFills
  <2> QED  BY <1>7, <2>7
<1> QED  BY <1>6, <1>7

\* A file that grows is brought to its size, what it had being left as it was.
LEMMA BehindBrings ==
  ASSUME NEW e \in Entry, NEW s \in Seq(Byte), NEW f \in Entry, f.start = e.start,
         f.size = e.size + Len(s), NEW n \in Nat, NEW ws, Len(ws) = n + 1,
         Meets(ws, n, f, Cap(e))
  PROVE  /\ \A all : Behind(all, TailWrite(e, s), ws) => Brings(all, f, e.size)
         /\ e.size = Cap(e) => Brings(ws, f, e.size)
<1>1. PICK z \in Nat, c \in Nat, v \in Nat : z = e.size /\ c = Cap(e) /\ z <= c /\ v = Len(s)
  <2>1. PICK z \in Nat, c \in Nat : z = e.size /\ c = Cap(e) /\ z <= c
    BY TailIs, Zenon
  <2> QED  BY <2>1
<1>2. PICK w : w = TailWrite(e, s)
  OBVIOUS
<1>3. w.lba = TailLba(e)
  BY <1>2 DEF TailWrite, ToData
<1>4. \A u : SectorOf(f, u) = SectorOf(e, u) /\ Unit(sector, f, u) = Unit(sector, e, u)
  BY Zenon DEF Unit, SectorOf
<1>5. f.size = z + v
  BY <1>1
<1>6. ASSUME NEW u \in 1 .. f.size
      PROVE  /\ u \in Nat \ {0} /\ u <= z + v
             /\ u <= c => \A k \in 1 .. n : ws[k].lba # SectorOf(f, u)
             /\ ~(u <= c) => Fills(ws, n, f, u) /\ w.lba # SectorOf(f, u)
  <2>1. u \in Nat \ {0} /\ u <= z + v
    BY <1>5
  <2>2. /\ u <= c => \A k \in 1 .. n : ws[k].lba # SectorOf(f, u)
        /\ ~(u <= c) => Fills(ws, n, f, u)
    BY <1>1, Zenon DEF Meets
  <2>3. ASSUME ~(u <= c) PROVE w.lba # SectorOf(f, u)
    <3>1. PICK j \in Nat \ {0} : u = c + j
      <4>1. u - c \in Nat \ {0} /\ u = c + (u - c)
        BY <2>1, <2>3
      <4> QED  BY <4>1
    <3>2. j - 1 \in Nat
      BY <3>1
    <3>3. PICK d, r : UnitAt(j - 1, d, r)
      BY <3>2, UnitPlace, Zenon
    <3>4. TailLba(e) < SectorOf(e, u) /\ SectorOf(e, u) = (e.start + Sectors(e.size)) + d /\ d \in Nat
      <4>1. Beyond(e, u, j, d, r)
        BY <1>1, <3>1, <3>3, Zenon DEF Beyond
      <4>2. BehindTail(e, u, d, r)
        BY <4>1, BeyondTail, Zenon
      <4> QED  BY <4>2, Zenon DEF BehindTail
    <3>5. TailLba(e) \in Int
      <4>1. PICK a \in Nat, m \in Nat \ {0} : TailLba(e) = a + m - 1
        BY TailIs, Zenon
      <4> QED  BY <4>1
    <3>6. TailLba(e) # SectorOf(e, u)
      BY <3>4, <3>5
    <3> QED  BY <1>3, <1>4, <3>6
  <2> QED  BY <2>1, <2>2, <2>3, Zenon
<1>7. ASSUME NEW all, Behind(all, w, ws) PROVE Brings(all, f, e.size)
  <2>1. Len(all) - 1 = n + 1 /\ all[1] = w /\ \A k \in 1 .. n : all[k + 1] = ws[k]
    <3>1. Len(all) = (n + 1) + 1 /\ all[1] = w /\ \A k \in 1 .. n + 1 : all[k + 1] = ws[k]
      BY <1>7, Zenon DEF Behind
    <3> QED  BY <3>1
  <2>2. ASSUME NEW k \in 1 .. n + 1
        PROVE  k = 1 \/ \E i \in 1 .. n : k = i + 1 /\ all[k] = ws[i]
    <3>1. k = 1 \/ (k - 1 \in 1 .. n /\ k = (k - 1) + 1)
      OBVIOUS
    <3> QED  BY <2>1, <3>1, Zenon
  <2> SUFFICES ASSUME f.type = "file", NEW u \in 1 .. f.size
               PROVE  IF u <= z THEN Leaves(all, n + 1, f, u) ELSE Fills(all, n + 1, f, u)
    BY <1>1, <2>1, Zenon DEF Brings
  <2>3. CASE u <= z
    <3>1. u <= c /\ u \in 1 .. e.size
      BY <1>1, <1>6, <2>3
    <3>2. ASSUME NEW k \in 1 .. n + 1, all[k].lba = SectorOf(f, u)
          PROVE  all[k].sector.data[OffsetOf(u)] = Unit(sector, f, u)
      <4>1. \A i \in 1 .. n : ws[i].lba # SectorOf(f, u)
        BY <1>6, <3>1, Zenon
      <4>2. ASSUME NEW i \in 1 .. n, all[k] = ws[i] PROVE FALSE
        BY <3>2, <4>1, <4>2, Zenon
      <4>3. k # 1 => \E i \in 1 .. n : all[k] = ws[i]
        BY <2>2, Zenon
      <4>4. all[k] = w
        BY <2>1, <4>2, <4>3, Zenon
      <4>5. SectorOf(e, u) = TailLba(e)
        BY <1>3, <1>4, <3>2, <4>4, Zenon
      <4>6. w.sector.data[OffsetOf(u)] = Unit(sector, e, u)
        BY <1>2, <3>1, <4>5, TailLeaves, Zenon
      <4> QED  BY <1>4, <4>4, <4>6, Zenon
    <3> QED  BY <2>3, <3>2, Zenon DEF Leaves
  <2>4. CASE ~(u <= z) /\ u <= c
    <3>1. u \in Nat /\ z < u /\ u <= z + v
      BY <1>6, <2>4
    <3>2. SectorOf(e, u) = TailLba(e) /\ w.sector.data[OffsetOf(u)] \in Byte
      BY <1>1, <1>2, <2>4, <3>1, TailFills, Zenon
    <3>3. ASSUME NEW k \in 1 .. n + 1, all[k].lba = SectorOf(f, u)
          PROVE  all[k].sector.data[OffsetOf(u)] \in Byte
      <4>1. \A i \in 1 .. n : ws[i].lba # SectorOf(f, u)
        BY <1>6, <2>4, Zenon
      <4>2. ASSUME NEW i \in 1 .. n, all[k] = ws[i] PROVE FALSE
        BY <3>3, <4>1, <4>2, Zenon
      <4>3. k # 1 => \E i \in 1 .. n : all[k] = ws[i]
        BY <2>2, Zenon
      <4>4. all[k] = w
        BY <2>1, <4>2, <4>3, Zenon
      <4> QED  BY <3>2, <4>4, Zenon
    <3>4. 1 \in 1 .. n + 1 /\ all[1].lba = SectorOf(f, u)
      <4>1. 1 \in 1 .. n + 1
        OBVIOUS
      <4> QED  BY <1>3, <1>4, <2>1, <3>2, <4>1, Zenon
    <3> QED  BY <2>4, <3>3, <3>4, Zenon DEF Fills
  <2>5. CASE ~(u <= z) /\ ~(u <= c)
    <3>1. Fills(ws, n, f, u) /\ w.lba # SectorOf(f, u)
      BY <1>6, <2>5, Zenon
    <3>2. PICK k \in 1 .. n : ws[k].lba = SectorOf(f, u)
      BY <3>1, Zenon DEF Fills
    <3>3. k + 1 \in 1 .. n + 1 /\ all[k + 1].lba = SectorOf(f, u)
      <4>1. k + 1 \in 1 .. n + 1
        OBVIOUS
      <4> QED  BY <2>1, <3>2, <4>1, Zenon
    <3>4. ASSUME NEW m \in 1 .. n + 1, all[m].lba = SectorOf(f, u)
          PROVE  all[m].sector.data[OffsetOf(u)] \in Byte
      <4>1. PICK i \in 1 .. n : all[m] = ws[i]
        BY <2>1, <2>2, <3>1, <3>4, Zenon
      <4> QED  BY <3>1, <3>4, <4>1, Zenon DEF Fills
    <3> QED  BY <2>5, <3>3, <3>4, Zenon DEF Fills
  <2> QED  BY <2>3, <2>4, <2>5, Zenon
<1>8. ASSUME e.size = Cap(e) PROVE Brings(ws, f, e.size)
  <2>1. z = c /\ Len(ws) - 1 = n
    BY <1>1, <1>8
  <2> SUFFICES ASSUME f.type = "file", NEW u \in 1 .. f.size
               PROVE  IF u <= c THEN Leaves(ws, n, f, u) ELSE Fills(ws, n, f, u)
    BY <1>1, <2>1, Zenon DEF Brings
  <2>2. CASE u <= c
    BY <1>6, <2>2, Zenon DEF Leaves
  <2>3. CASE ~(u <= c)
    BY <1>6, <2>3, Zenon
  <2> QED  BY <2>2, <2>3, Zenon
<1> QED  BY <1>2, <1>7, <1>8, Zenon

\* fs_append_file.
LEMMA AppendDoes ==
  ASSUME TypeOK, DevReserved, NEW p \in Path, NEW s \in Piece, AppendFile(p, s)
  PROVE  Does
<1>1. IsFile(p) /\ s # << >> /\ At(p).size + Len(s) <= MaxSize
      /\ SpanValid(At(p).start, Sectors(At(p).size))
  BY DEF AppendFile
<1>2. PICK l \in Lba, i \in Index :
        /\ SlotAt(p, l, i) /\ Table(l) \in [Index -> Entry] /\ At(p) = Table(l)[i]
        /\ At(p) \in Entry /\ At(p).name = Leaf(p) /\ At(p).type # "free"
  BY <1>1, SlotIs DEF IsFile
<1>3. l = InTable(p) /\ i = SlotOf(p) /\ At(p).type = "file"
  BY <1>1, <1>2 DEF SlotAt, IsFile
<1>4. PICK e \in Entry : e = At(p)
  BY <1>2
<1>5. e \in [name : Names, type : {"file", "dir"}, start : START .. LIMIT - 1, size : 0 .. MaxSize]
      /\ e.type = "file"
  BY <1>3, <1>4 DEF Entry, NoEntry
<1>6. e.size \in Nat /\ e.start \in Nat /\ e.start >= 2
  BY <1>5, Constants
<1>7. s \in Seq(Byte) /\ Len(s) \in Nat
  BY PieceIs
<1>8. PICK size : size = e.size + Len(s)
  OBVIOUS
<1>9. size \in Nat /\ size \in 0 .. MaxSize
  BY <1>1, <1>4, <1>6, <1>7, <1>8, Constants
<1>10. PICK f : f = [e EXCEPT !.size = size]
  OBVIOUS
<1>11. f \in Entry /\ f.type = "file" /\ f.name = e.name
  <2>1. f \in [name : Names, type : {"file", "dir"}, start : START .. LIMIT - 1, size : 0 .. MaxSize]
        /\ f.type = e.type /\ f.name = e.name
    BY <1>5, <1>9, <1>10
  <2> QED  BY <1>5, <2>1 DEF Entry
<1>12. PICK t : t = [Table(l) EXCEPT ![i] = f]
  OBVIOUS
<1>13. [Table(l) EXCEPT ![i].size = @ + Len(s)] = t
  BY <1>2, <1>4, <1>8, <1>10, <1>12
<1>14. l = ROOT => f.name # DEV
  <2> SUFFICES ASSUME l = ROOT, e.name = DEV PROVE FALSE
    BY <1>11
  <2>1. i \in Named(Table(ROOT), DEV)
    BY <1>2, <1>4 DEF Named
  <2> QED  BY <2>1 DEF DevReserved
<1>15. t \in [Index -> Entry] /\ (l = ROOT => Named(t, DEV) = {})
  BY <1>11, <1>12, <1>14, EditIs
<1>16. PICK q : q = TailLba(e)
  OBVIOUS
<1>17. PICK ns \in Nat \ {0} : ns = Sectors(e.size)
  BY <1>6, SectorsIsNat
<1>18. q = e.start + ns - 1 /\ q \in Lba /\ q \in Span(e)
  <2>1. q = e.start + ns - 1
    BY <1>16, <1>17 DEF TailLba
  <2>2. e.start < LIMIT /\ ns <= LIMIT - e.start
    BY <1>1, <1>4, <1>17 DEF SpanValid
  <2>3. Span(e) = e.start .. e.start + ns - 1
    BY <1>5, <1>17 DEF Span
  <2>4. PICK a \in Nat : a = e.start
    BY <1>6
  <2>5. a + ns - 1 \in Lba /\ a + ns - 1 \in a .. a + ns - 1
    BY <1>6, <2>2, <2>4, Constants DEF Lba
  <2> QED  BY <2>1, <2>3, <2>4, <2>5
<1>19. PICK room : room = SECTOR - TailOffset(e)
  OBVIOUS
<1>20. PICK cap \in Nat : cap = ns * SECTOR
  BY <1>6, <1>17, SectorsFit
<1>21. room \in Nat /\ room = cap - e.size /\ TailOffset(e) \in Int
  <2>1. (ns - 1) * SECTOR = cap - SECTOR
    BY <1>20, Constants
  <2>2. TailOffset(e) = e.size - (cap - SECTOR)
    BY <1>17, <2>1 DEF TailOffset
  <2>3. e.size <= cap
    BY <1>6, <1>17, <1>20, SectorsFit
  <2> QED  BY <1>6, <1>19, <2>2, <2>3, Constants
<1>22. PICK rest : rest = SubSeq(s, room + 1, Len(s))
  OBVIOUS
<1>23. rest \in Seq(Byte) /\ Len(rest) = IF Len(s) <= room THEN 0 ELSE Len(s) - room
  BY <1>7, <1>21, <1>22, Zenon, RestIs
<1>24. PICK w : w = TailWrite(e, s)
  OBVIOUS
<1>25. w \in Writes /\ w.lba = q /\ w.sector.entries = Blank.entries
  <2> DEFINE d == [u \in 1 .. SECTOR |->
                     LET k == u - TailOffset(e) IN
                       IF k \in 1 .. Len(s) THEN s[k] ELSE sector[q].data[u]]
  <2>1. d \in Data
    <3>1. ASSUME NEW u \in 1 .. SECTOR
          PROVE  LET k == u - TailOffset(e) IN
                   (IF k \in 1 .. Len(s) THEN s[k] ELSE sector[q].data[u]) \in Byte \cup {0}
      <4>1. sector[q].data[u] \in Byte \cup {0}
        BY <1>18 DEF TypeOK
      <4>2. \A k \in 1 .. Len(s) : s[k] \in Byte
        BY <1>7
      <4> QED  BY <4>1, <4>2
    <3> QED  BY <3>1 DEF Data
  <2>2. w = ToData(q, d)
    BY <1>16, <1>24 DEF TailWrite
  <2> HIDE DEF d
  <2> QED  BY <1>18, <2>1, <2>2, ToDataIs
<1>26. PICK tail : tail = IF room > 0 THEN << w >> ELSE << >>
  OBVIOUS
<1>27. PICK grown : grown = << ToTable(l, t) >>
  OBVIOUS
<1>28. IF rest = << >> THEN Perform(tail \o grown, FALSE)
       ELSE IF CanGrow(e, rest)
         THEN Perform(tail \o Alloc(Sectors(Len(rest)), DataWrites(next, rest) \o grown), FALSE)
         ELSE Perform(tail, FALSE)
  BY <1>3, <1>4, <1>13, <1>19, <1>22, <1>24, <1>26, <1>27 DEF AppendFile
<1>29. next \in START .. LIMIT /\ next \in Nat
  BY Constants DEF TypeOK
<1>34. cap = Cap(e) /\ f.start = e.start /\ f.size = size /\ f.size = e.size + Len(s)
  <2>1. f.start = e.start /\ f.size = size
    BY <1>5, <1>10
  <2> QED  BY <1>8, <1>17, <1>20, <2>1, Zenon DEF Cap
<1>30. ASSUME NEW ws, NEW m, Settles(ws, {}, l, t, m), Perform(tail \o ws, FALSE),
              NEW n \in Nat, Len(ws) = n + 1, Meets(ws, n, f, Cap(e)),
              \/ Sectors(size) <= ns
              \/ e.start + ns = next /\ e.start + Sectors(size) <= m
       PROVE  Does
  <2>0. /\ \A all : Behind(all, w, ws) => Brings(all, f, e.size)
        /\ e.size = Cap(e) => Brings(ws, f, e.size)
    BY <1>7, <1>11, <1>24, <1>29, <1>30, <1>34, BehindBrings, Zenon
  <2>1. Settles(tail \o ws, {q}, l, t, m) /\ Brings(tail \o ws, f, e.size)
    <3>1. CASE room > 0
      <4>1. Settles(<< w >> \o ws, {q}, l, t, m) /\ Behind(<< w >> \o ws, w, ws)
        BY <1>18, <1>25, <1>30, AfterData
      <4>2. tail = << w >>
        BY <1>26, <3>1, Zenon
      <4> QED  BY <2>0, <4>1, <4>2, Zenon
    <3>2. CASE ~(room > 0)
      <4>1. tail \o ws = ws
        <5>1. ws \in Seq(Writes)
          BY <1>30 DEF Settles
        <5> QED  BY <1>26, <3>2, <5>1
      <4>2. Settles(ws, {q}, l, t, m)
        BY <1>30 DEF Settles
      <4>3. e.size = Cap(e)
        <5>1. e.size <= cap
          BY <1>6, <1>17, <1>20, SectorsFit
        <5>2. e.size = cap
          BY <1>6, <1>21, <3>2, <5>1
        <5> QED  BY <1>34, <5>2
      <4> QED  BY <2>0, <4>1, <4>2, <4>3, Zenon
    <3> QED  BY <3>1, <3>2
  <2>2. Edits({q}, l, i, f, m)
    <3>1. l \in Lba /\ i \in Index /\ Table(l)[i].size = e.size
      BY <1>2, <1>4
    <3>2. PICK all : all = tail \o ws
      OBVIOUS
    <3>3. /\ Settles(all, {q}, l, [Table(l) EXCEPT ![i] = f], m)
          /\ Brings(all, f, Table(l)[i].size) /\ Perform(all, FALSE)
      BY <1>12, <1>30, <2>1, <3>1, <3>2, Zenon
    <3> QED  BY <1>11, <3>1, <3>3, Zenon DEF Edits
  <2>3. Extends(p, l, i, size, q, m)
    <3>1. SlotAt(p, l, i) /\ At(p).type = "file" /\ q \in Span(At(p)) /\ size \in Nat
      BY <1>2, <1>3, <1>4, <1>9, <1>18, Zenon
    <3>2. At(p).size < size
      <4>1. PICK z \in Nat, v \in Nat : z = e.size /\ v = Len(s)
        BY <1>6, <1>7
      <4>2. v # 0
        BY <1>1, <1>7, <4>1
      <4>3. z < z + v
        BY <4>2
      <4> QED  BY <1>4, <1>8, <4>1, <4>3, Zenon
    <3>3. \/ Sectors(size) <= Sectors(At(p).size)
          \/ At(p).start + Sectors(At(p).size) = next /\ At(p).start + Sectors(size) <= m
      BY <1>4, <1>17, <1>30, Zenon
    <3>4. Edits({q}, l, i, [At(p) EXCEPT !.size = size], m)
      BY <1>4, <1>10, <2>2, Zenon
    <3> QED  BY <3>1, <3>2, <3>3, <3>4, Zenon DEF Extends
  <2> QED  BY <2>3, Zenon DEF Does
<1>31. CASE rest = << >>
  <2>6. Len(grown) = 0 + 1 /\ Meets(grown, 0, f, Cap(e))
    <3>1. Len(grown) = 0 + 1
      BY <1>27
    <3>2. f.size <= Cap(e)
      <4>1. Len(rest) = 0
        BY <1>31
      <4>2. Len(s) <= room
        BY <1>7, <1>21, <1>23, <4>1
      <4>3. size <= cap
        BY <1>6, <1>7, <1>8, <1>21, <4>2
      <4> QED  BY <1>34, <4>3
    <3>3. ASSUME NEW u \in 1 .. f.size PROVE u <= Cap(e)
      <4>1. PICK z \in Nat, c \in Nat : z = f.size /\ c = Cap(e)
        BY <1>9, <1>20, <1>34, Zenon
      <4>2. u \in 1 .. z /\ z <= c
        BY <3>2, <4>1, Zenon
      <4>3. u <= c
        BY <4>2
      <4> QED  BY <4>1, <4>3, Zenon
    <3>4. ASSUME NEW k \in 1 .. 0 PROVE FALSE
      OBVIOUS
    <3>5. Meets(grown, 0, f, Cap(e))
      BY <3>3, <3>4 DEF Meets
    <3> QED  BY <3>1, <3>5, Zenon
  <2>1. Len(s) <= room
    <3>1. Len(rest) = 0
      BY <1>31
    <3> QED  BY <1>7, <1>21, <1>23, <3>1
  <2>2. size <= ns * SECTOR
    BY <1>6, <1>7, <1>8, <1>20, <1>21, <2>1
  <2>3. Sectors(size) <= ns
    BY <1>9, <2>2, SectorsFit
  <2>4. Settles(grown, {}, l, t, next)
    BY <1>15, <1>27, <1>29, TableSettles
  <2>5. Perform(tail \o grown, FALSE)
    BY <1>28, <1>31
  <2>7. 0 \in Nat
    OBVIOUS
  <2> QED  BY <1>30, <2>3, <2>4, <2>5, <2>6, <2>7
<1>32. CASE rest # << >> /\ CanGrow(e, rest)
  <2>1. PICK lr \in Nat : lr = Len(rest)
    BY <1>23
  <2>2. PICK n \in Nat \ {0} : n = Sectors(lr)
    BY SectorsIsNat
  <2>3. e.start + ns = next /\ next + n <= LIMIT /\ next < LIMIT
    BY <1>17, <1>29, <1>32, <2>1, <2>2, Constants DEF CanGrow, SpanValid
  <2>4. next \in Lba /\ rest \in Seq(Byte \cup {0})
    BY <1>23, <1>29, <2>3, Constants DEF Lba
  <2>5. PICK dw : dw = DataWrites(next, rest)
    OBVIOUS
  <2>6. /\ dw \in Seq(Writes) /\ Len(dw) = n
        /\ \A k \in 1 .. n : dw[k].lba = next + k - 1 /\ dw[k].sector.entries = Blank.entries
    BY <2>1, <2>2, <2>3, <2>4, <2>5, DataWritesAre
  <2>7. Settles(Alloc(n, dw \o grown), {}, l, t, next + n) /\ Runs(Alloc(n, dw \o grown), n, dw)
    BY <1>15, <1>27, <1>29, <2>3, <2>6, AllocSettles
  <2>11. n + 1 \in Nat /\ Len(Alloc(n, dw \o grown)) = (n + 1) + 1
         /\ Meets(Alloc(n, dw \o grown), n + 1, f, Cap(e))
    <3>1. PICK ws : ws = Alloc(n, dw \o grown) /\ Runs(ws, n, dw)
      BY <2>7, Zenon
    <3>2. n + 1 \in Nat /\ Len(ws) = (n + 1) + 1
      BY <3>1 DEF Runs
    <3>3. f.size <= Cap(e) + Len(rest)
      <4>1. PICK es \in Nat, ls \in Nat : es = e.size /\ ls = Len(s)
        BY <1>6, <1>7
      <4>2. size = es + ls /\ room = cap - es /\ lr = (IF ls <= room THEN 0 ELSE ls - room)
        BY <1>8, <1>21, <1>23, <2>1, <4>1
      <4>3. size <= cap + lr
        BY <1>21, <4>2
      <4> QED  BY <1>34, <2>1, <4>3
    <3>4. /\ e.start + Sectors(e.size) = next /\ n = Sectors(Len(rest))
          /\ \A k \in 1 .. n : dw[k].lba = next + k - 1
      BY <1>17, <2>1, <2>2, <2>3, <2>6, Zenon
    <3>5. Meets(ws, n + 1, f, Cap(e))
      BY <1>5, <1>11, <1>23, <1>29, <1>34, <2>5, <3>1, <3>3, <3>4, RestMeets
    <3> QED  BY <3>1, <3>2, <3>5, Zenon
  <2>8. Perform(tail \o Alloc(n, dw \o grown), FALSE)
    BY <1>28, <1>32, <2>1, <2>2, <2>5
  <2>9. Sectors(size) <= ns + n
    <3>1. lr <= n * SECTOR /\ n * SECTOR \in Nat
      BY <2>2, SectorsFit
    <3>2. size <= cap + lr
      <4>1. PICK es \in Nat, ls \in Nat : es = e.size /\ ls = Len(s)
        BY <1>6, <1>7
      <4>2. size = es + ls /\ room = cap - es /\ lr = (IF ls <= room THEN 0 ELSE ls - room)
        BY <1>8, <1>21, <1>23, <2>1, <4>1
      <4> QED  BY <1>21, <4>2
    <3>3. (ns + n) * SECTOR = cap + n * SECTOR
      BY <1>20, Constants
    <3>4. size <= (ns + n) * SECTOR /\ ns + n \in Nat \ {0}
      BY <1>9, <3>1, <3>2, <3>3
    <3> QED  BY <1>9, <3>4, SectorsFit
  <2>10. e.start + Sectors(size) <= next + n
    <3>1. Sectors(size) \in Nat
      BY <1>9, SectorsIsNat
    <3> QED  BY <1>6, <2>3, <2>9, <3>1
  <2> QED  BY <1>30, <2>3, <2>7, <2>8, <2>10, <2>11
<1>33. CASE rest # << >> /\ ~CanGrow(e, rest)
  <2>1. Perform(tail, FALSE)
    BY <1>28, <1>33
  <2>2. tail \in Seq(Writes) /\ \A k \in 1 .. Len(tail) : tail[k].lba = q
    <3>1. CASE room > 0
      BY <1>25, <1>26, <3>1
    <3>2. CASE ~(room > 0)
      BY <1>26, <3>2
    <3> QED  BY <3>1, <3>2
  <2>4. \A u \in 1 .. At(p).size : Leaves(tail, Len(tail), At(p), u)
    <3> SUFFICES ASSUME NEW u \in 1 .. e.size, NEW k \in 1 .. Len(tail), tail[k].lba = SectorOf(e, u)
                 PROVE  tail[k].sector.data[OffsetOf(u)] = Unit(sector, e, u)
      BY <1>4, Zenon DEF Leaves
    <3>1. tail[k] = w
      <4>1. CASE room > 0
        BY <1>26, <4>1
      <4>2. CASE ~(room > 0)
        BY <1>26, <4>2
      <4> QED  BY <4>1, <4>2
    <3>2. SectorOf(e, u) = TailLba(e)
      BY <1>16, <2>2, Zenon
    <3> QED  BY <1>24, <3>1, <3>2, TailLeaves, Zenon
  <2>3. Scribbles(p, l, i, q)
    BY <1>2, <1>3, <1>4, <1>18, <2>1, <2>2, <2>4, Zenon DEF Scribbles
  <2> QED  BY <2>3, Zenon DEF Does
<1> QED  BY <1>31, <1>32, <1>33

\* Every call, and the calls of the editor's SAVE.
LEMMA CallDoes ==
  ASSUME TypeOK, DevReserved, saving \in Path \cup {<< >>}
  PROVE  /\ Call => Does
         /\ \A p \in Path : SaveDelete(p) => Does
         /\ saving # << >> => \A s \in Piece : SaveCreate(s) =>
              Does \/ UNCHANGED <<diskVars, mounted, next, hurt>>
<1>1. ASSUME Call PROVE Does
  <2>1. PICK p \in Path :
          \/ CreateDir(p)
          \/ \E s \in Piece : CreateFile(p, s) \/ AppendFile(p, s)
          \/ Delete(p)
          \/ \E n \in Names \ {Leaf(p)} : Rename(p, n)
          \/ \E d \in Path \cup {<<>>} : Move(p, d) \/ CopyFile(p, d)
    BY <1>1, Zenon DEF Call
  <2>2. CASE CreateDir(p)
    BY <2>2, CreateDoes DEF CreateDir
  <2>3. ASSUME NEW s \in Piece, CreateFile(p, s) PROVE Does
    BY <2>3, CreateDoes DEF CreateFile
  <2>4. ASSUME NEW s \in Piece, AppendFile(p, s) PROVE Does
    BY <2>4, AppendDoes
  <2>5. CASE Delete(p)
    BY <2>5, DeleteDoes
  <2>6. ASSUME NEW n \in Names \ {Leaf(p)}, Rename(p, n) PROVE Does
    BY <2>6, RenameDoes
  <2>7. ASSUME NEW d \in Path \cup {<<>>}, Move(p, d) PROVE Does
    BY <2>7, MoveDoes
  <2>8. ASSUME NEW d \in Path \cup {<<>>}, CopyFile(p, d) PROVE Does
    BY <2>8, CopyDoes
  <2> QED  BY <2>1, <2>2, <2>3, <2>4, <2>5, <2>6, <2>7, <2>8, Zenon
<1>2. ASSUME NEW p \in Path, SaveDelete(p) PROVE Does
  BY <1>2, DeleteDoes DEF SaveDelete
<1>3. ASSUME saving # << >>, NEW s \in Piece, SaveCreate(s)
      PROVE  Does \/ UNCHANGED <<diskVars, mounted, next, hurt>>
  <2>1. CreateFile(saving, s) \/ UNCHANGED <<diskVars, mounted, next, hurt>>
    BY <1>3, Zenon DEF SaveCreate
  <2>2. PICK p \in Path : p = saving
    BY <1>3
  <2>3. CASE CreateFile(p, s)
    BY <2>3, CreateDoes DEF CreateFile
  <2> QED  BY <2>1, <2>2, <2>3
<1> QED  BY <1>1, <1>2, <1>3, Zenon

----------------------------------------------------------------------------
(* Types, and the name the root keeps for itself.                          *)

\* Whatever a call does, it performs a list of writes.
LEMMA DoesPerforms ==
  ASSUME Does
  PROVE  \E ws \in Seq(Writes), twice \in BOOLEAN : Perform(ws, twice)
<1>1. ASSUME NEW own, NEW l, NEW i, NEW f, NEW m, Edits(own, l, i, f, m)
      PROVE  \E ws \in Seq(Writes), twice \in BOOLEAN : Perform(ws, twice)
  <2>1. PICK ws : Settles(ws, own, l, [Table(l) EXCEPT ![i] = f], m) /\ Perform(ws, FALSE)
    BY <1>1 DEF Edits
  <2>2. ws \in Seq(Writes)
    BY <2>1 DEF Settles
  <2> QED  BY <2>1, <2>2
<1>2. ASSUME NEW l, NEW i, NEW f, Adds(l, i, f)
      PROVE  \E ws \in Seq(Writes), twice \in BOOLEAN : Perform(ws, twice)
  BY <1>1, <1>2 DEF Adds
<1>3. ASSUME NEW p, NEW l, NEW i, Removes(p, l, i)
      PROVE  \E ws \in Seq(Writes), twice \in BOOLEAN : Perform(ws, twice)
  BY <1>1, <1>3 DEF Removes
<1>4. ASSUME NEW p, NEW l, NEW i, NEW n, Renames(p, l, i, n)
      PROVE  \E ws \in Seq(Writes), twice \in BOOLEAN : Perform(ws, twice)
  BY <1>1, <1>4 DEF Renames
<1>5. ASSUME NEW p, NEW l, NEW i, NEW size, NEW q, NEW m, Extends(p, l, i, size, q, m)
      PROVE  \E ws \in Seq(Writes), twice \in BOOLEAN : Perform(ws, twice)
  BY <1>1, <1>5 DEF Extends
<1>6. ASSUME NEW p, NEW l, NEW i, NEW q, Scribbles(p, l, i, q)
      PROVE  \E ws \in Seq(Writes), twice \in BOOLEAN : Perform(ws, twice)
  BY <1>6 DEF Scribbles
<1>7. ASSUME NEW p, NEW l, NEW i, NEW d, NEW j, Moves(p, l, i, d, j)
      PROVE  \E ws \in Seq(Writes), twice \in BOOLEAN : Perform(ws, twice)
  <2>1. PICK v \in Writes, w \in Writes : Perform(<< v, w >>, TRUE)
    BY <1>7 DEF Moves
  <2>2. << v, w >> \in Seq(Writes)
    OBVIOUS
  <2> QED  BY <2>1, <2>2
<1> QED  BY <1>2, <1>3, <1>4, <1>5, <1>6, <1>7, Zenon DEF Does

\* Booting keeps the types, and DEV out of the root.
LEMMA BootKeeps ==
  ASSUME TypeOK, DevReserved, Mount \/ Format
  PROVE  TypeOK' /\ DevReserved'
<1>1. CASE Mount
  <2>1. /\ super' = super /\ sector' = sector /\ hurt' = hurt
        /\ mounted' = TRUE /\ next' \in START .. LIMIT
    BY <1>1 DEF Mount, diskVars
  <2>2. DevReserved'
    BY <2>1 DEF DevReserved, Table
  <2> QED  BY <2>1, <2>2 DEF TypeOK
<1>2. CASE Format
  <2>1. PICK K \in SUBSET (1 .. 2), stop \in BOOLEAN :
          /\ OnDisk(<<ToSuper(START), [lba |-> ROOT, sector |-> Blank]>>, K)
          /\ mounted' = ~stop
          /\ next' = START
          /\ hurt' = (hurt \/ (~Empty(ROOT) /\ ~(stop /\ K = {})))
    BY <1>2, Zenon DEF Format
  <2>2. PICK v \in Writes : v = ToSuper(START)
    BY Constants, ToSuperIs
  <2>3. PICK w \in Writes : w = [lba |-> ROOT, sector |-> Blank]
    <3>1. [lba |-> ROOT, sector |-> Blank] \in Writes
      BY BlankIs, Constants DEF Writes
    <3> QED  BY <3>1
  <2>4. << v, w >> \in Seq(Writes) /\ Len(<< v, w >>) = 2
    OBVIOUS
  <2>5. DiskOK'
    <3>1. OnDisk(<< v, w >>, K) /\ K \subseteq 1 .. 2
      BY <2>1, <2>2, <2>3
    <3>2. DiskOK
      BY DEF TypeOK, DiskOK
    <3> QED  BY <2>4, <3>1, <3>2, OnDiskKeeps
  <2>6. mounted' \in BOOLEAN /\ next' \in START .. LIMIT
    BY <2>1, Constants
  <2>7. hurt' \in BOOLEAN
    <3>1. hurt \in BOOLEAN
      BY DEF TypeOK
    <3> QED  BY <2>1, <3>1, Zenon
  <2> QED  BY <2>5, <2>6, <2>7 DEF DiskOK, TypeOK
<1> QED  BY <1>1, <1>2

SafeInv == TypeOK /\ DevReserved /\ saving \in Path \cup {<< >>}

\* The invariant behind both: a path that is being saved is one.
LEMMA SafeInvariant == Spec => []SafeInv
<1>1. Init => SafeInv
  <2> SUFFICES ASSUME Init PROVE SafeInv
    OBVIOUS
  <2>1. \A l \in Lba : sector[l] = Blank
    BY DEF Init
  <2>2. \A l \in Lba : sector[l].entries \in [Index -> Entry] /\ sector[l].data \in Data
    BY <2>1, BlankIs DEF Sec
  <2>3. DevReserved
    BY <2>1, BlankIs, Constants DEF DevReserved, Table
  <2>4. START \in START .. LIMIT
    BY Constants
  <2>5. /\ super \in {0} \cup START .. LIMIT
        /\ mounted \in BOOLEAN /\ next \in START .. LIMIT /\ hurt \in BOOLEAN
        /\ saving \in Path \cup {<< >>}
    BY <2>4 DEF Init
  <2> QED  BY <2>2, <2>3, <2>5 DEF SafeInv, TypeOK, Data
<1>2. SafeInv /\ [Next]_vars => SafeInv'
  <2> SUFFICES ASSUME SafeInv, [Next]_vars PROVE SafeInv'
    OBVIOUS
  <2>1. TypeOK /\ DevReserved /\ saving \in Path \cup {<< >>}
    BY DEF SafeInv
  <2>2. ASSUME Does PROVE TypeOK' /\ DevReserved'
    <3>1. PICK ws \in Seq(Writes), twice \in BOOLEAN : Perform(ws, twice)
      BY <2>2, DoesPerforms
    <3> QED  BY <2>1, <3>1, PerformKeeps
  <2>3. ASSUME super' = super, sector' = sector, mounted' \in BOOLEAN,
               next' \in START .. LIMIT, hurt' \in BOOLEAN
        PROVE  TypeOK' /\ DevReserved'
    <3>1. DevReserved'
      BY <2>1, <2>3 DEF DevReserved, Table
    <3> QED  BY <2>1, <2>3, <3>1 DEF TypeOK
  <2>4. CASE Boot
    BY <2>1, <2>4, BootKeeps DEF Boot, SafeInv
  <2>5. CASE PowerOff
    <3>1. START \in START .. LIMIT
      BY Constants
    <3>2. hurt' \in BOOLEAN
      <4>1. hurt \in BOOLEAN /\ hurt' = (hurt \/ super < next)
        BY <2>1, <2>5 DEF PowerOff, TypeOK
      <4> QED  BY <4>1, Zenon
    <3>3. super' = super /\ sector' = sector /\ mounted' = FALSE /\ next' = START /\ saving' = << >>
      BY <2>5 DEF PowerOff, diskVars
    <3> QED  BY <2>3, <3>1, <3>2, <3>3 DEF SafeInv
  <2>6. CASE Call /\ UNCHANGED saving
    BY <2>1, <2>2, <2>6, CallDoes DEF SafeInv
  <2>7. ASSUME NEW p \in Path, SaveDelete(p) PROVE SafeInv'
    <3>1. saving' \in Path \cup {<< >>}
      BY <2>7 DEF SaveDelete
    <3> QED  BY <2>1, <2>2, <2>7, <3>1, CallDoes DEF SafeInv
  <2>8. ASSUME saving # << >>, NEW s \in Piece, SaveCreate(s) PROVE SafeInv'
    <3>1. saving' = << >>
      BY <2>8 DEF SaveCreate
    <3>2. Does \/ UNCHANGED <<diskVars, mounted, next, hurt>>
      BY <2>1, <2>8, CallDoes
    <3>3. CASE UNCHANGED <<diskVars, mounted, next, hurt>>
      <4>1. super' = super /\ sector' = sector /\ mounted' = mounted /\ next' = next /\ hurt' = hurt
        BY <3>3 DEF diskVars
      <4>2. mounted' \in BOOLEAN /\ next' \in START .. LIMIT /\ hurt' \in BOOLEAN
        BY <2>1, <4>1 DEF TypeOK
      <4> QED  BY <2>3, <3>1, <4>1, <4>2 DEF SafeInv
    <3> QED  BY <2>2, <3>1, <3>2, <3>3 DEF SafeInv
  <2>9. CASE UNCHANGED vars
    <3>1. /\ super' = super /\ sector' = sector /\ mounted' = mounted /\ next' = next /\ hurt' = hurt
          /\ saving' = saving
      BY <2>9 DEF vars
    <3>2. mounted' \in BOOLEAN /\ next' \in START .. LIMIT /\ hurt' \in BOOLEAN
      BY <2>1, <3>1 DEF TypeOK
    <3> QED  BY <2>1, <2>3, <3>1, <3>2 DEF SafeInv
  <2>10. \/ Boot \/ PowerOff \/ (Call /\ UNCHANGED saving)
         \/ \E p \in Path : SaveDelete(p)
         \/ (saving # << >> /\ \E s \in Piece : SaveCreate(s))
         \/ UNCHANGED vars
    BY Zenon DEF Next
  <2> QED  BY <2>4, <2>5, <2>6, <2>7, <2>8, <2>9, <2>10, Zenon
<1> QED  BY <1>1, <1>2, PTL DEF Spec

\* Every table on the disk holds entries with spans on the disk, and the allocator is
\* within it, whichever writes failed: fs.c's next_free_lba and struct fs_entry.
THEOREM DiskWellTyped == Spec => []TypeOK
<1>1. SafeInv => TypeOK
  BY DEF SafeInv
<1> QED  BY <1>1, SafeInvariant, PTL

\* The root never holds a file called DEV, the name fs_list_dir gives the device
\* directory: no create, rename, move or copy puts one there.
THEOREM DevStaysReserved == Spec => []DevReserved
<1>1. SafeInv => DevReserved
  BY DEF SafeInv
<1> QED  BY <1>1, SafeInvariant, PTL

----------------------------------------------------------------------------
(* The tree on the disk.                                                   *)

Ent(s, x)  == s[x[1]].entries[x[2]]
Busy(s, D) == {x \in D \X Index : Ent(s, x).type # "free"}

\* D holds the tables of a tree: a directory's own sector is one of them, a file has
\* none, what entries have is below k, and no two have the same sector or path.
Tree(s, D, k) ==
  /\ D \subseteq Lba /\ ROOT \in D /\ \A l \in D : l = ROOT \/ l < k
  /\ \A x \in Busy(s, D) :
       /\ Span(Ent(s, x)) \subseteq START .. k - 1
       /\ Ent(s, x).type = "dir" => Ent(s, x).start \in D
       /\ Ent(s, x).type # "dir" => Span(Ent(s, x)) \cap D = {}
  /\ \A x, y \in Busy(s, D) : x # y =>
       /\ Span(Ent(s, x)) \cap Span(Ent(s, y)) = {}
       /\ x[1] = y[1] => Ent(s, x).name # Ent(s, y).name

\* What an entry f at slot i of table l must be for the tree to stay one.
Fits(s, D, k, l, i, f) ==
  /\ Span(f) \subseteq START .. k - 1
  /\ f.type = "dir" => f.start \in D
  /\ f.type # "dir" => Span(f) \cap D = {}
  /\ \A x \in Busy(s, D) : x # << l, i >> =>
       /\ Span(f) \cap Span(Ent(s, x)) = {}
       /\ x[1] = l => Ent(s, x).name # f.name

\* The tables of D are those of s, but for entry i of the one at l.
Patched(s, t, D, l, i, f) ==
  /\ \A d \in D : d # l => t[d].entries = s[d].entries
  /\ t[l].entries = [s[l].entries EXCEPT ![i] = f]

\* A tree is one whatever the allocator gives out.
LEMMA TreeSame ==
  ASSUME NEW s, NEW t, NEW D, NEW k \in Int, NEW n \in Int, k <= n, Tree(s, D, k),
         \A d \in D : t[d].entries = s[d].entries
  PROVE  Tree(t, D, n)
<1>1. \A x \in D \X Index : Ent(t, x) = Ent(s, x)
  BY DEF Ent
<1>2. Busy(t, D) = Busy(s, D) /\ Busy(s, D) \subseteq D \X Index
  BY <1>1 DEF Busy
<1>3. START .. k - 1 \subseteq START .. n - 1
  BY Constants
<1>4. D \subseteq Lba /\ ROOT \in D /\ \A l \in D : l = ROOT \/ l < n
  <2>1. \A l \in D : l \in Int
    BY Constants DEF Tree
  <2> QED  BY <2>1 DEF Tree
<1>5. \A x \in Busy(t, D) :
        /\ Span(Ent(t, x)) \subseteq START .. n - 1
        /\ Ent(t, x).type = "dir" => Ent(t, x).start \in D
        /\ Ent(t, x).type # "dir" => Span(Ent(t, x)) \cap D = {}
  <2> TAKE x \in Busy(t, D)
  <2>1. x \in Busy(s, D) /\ Ent(t, x) = Ent(s, x)
    BY <1>1, <1>2
  <2>2. /\ Span(Ent(s, x)) \subseteq START .. k - 1
        /\ Ent(s, x).type = "dir" => Ent(s, x).start \in D
        /\ Ent(s, x).type # "dir" => Span(Ent(s, x)) \cap D = {}
    BY <2>1 DEF Tree
  <2>3. Span(Ent(t, x)) \subseteq START .. n - 1
    BY <1>3, <2>1, <2>2
  <2> QED  BY <2>1, <2>2, <2>3
<1>6. \A x, y \in Busy(t, D) : x # y =>
        /\ Span(Ent(t, x)) \cap Span(Ent(t, y)) = {}
        /\ x[1] = y[1] => Ent(t, x).name # Ent(t, y).name
  <2> TAKE x, y \in Busy(t, D)
  <2>1. x \in Busy(s, D) /\ Ent(t, x) = Ent(s, x) /\ y \in Busy(s, D) /\ Ent(t, y) = Ent(s, y)
    BY <1>1, <1>2
  <2> QED  BY <2>1 DEF Tree
<1> QED  BY <1>4, <1>5, <1>6 DEF Tree

\* A tree is one after an entry that is free, or fits.
LEMMA TreePut ==
  ASSUME NEW s, NEW t, NEW D, NEW k \in Int, NEW n \in Int, k <= n, Tree(s, D, k),
         NEW l \in D, NEW i \in Index, NEW f,
         s[l].entries \in [Index -> Entry], Patched(s, t, D, l, i, f),
         f.type # "free" => Fits(s, D, n, l, i, f)
  PROVE  Tree(t, D, n)
<1>1. ASSUME NEW x \in D \X Index
      PROVE  Ent(t, x) = IF x = << l, i >> THEN f ELSE Ent(s, x)
  <2>1. PICK d \in D, j \in Index : x = << d, j >> /\ x[1] = d /\ x[2] = j
    OBVIOUS
  <2>2. CASE d # l
    BY <2>1, <2>2 DEF Ent, Patched
  <2>3. CASE d = l
    <3>1. Ent(t, x) = [s[l].entries EXCEPT ![i] = f][j]
      BY <2>1, <2>3 DEF Ent, Patched
    <3>2. [s[l].entries EXCEPT ![i] = f][j] = IF j = i THEN f ELSE s[l].entries[j]
      OBVIOUS
    <3> QED  BY <2>1, <2>3, <3>1, <3>2 DEF Ent
  <2> QED  BY <2>2, <2>3
<1>2. Busy(t, D) \subseteq D \X Index
  BY DEF Busy
<1>3. ASSUME NEW x \in Busy(t, D), x # << l, i >>
      PROVE  x \in Busy(s, D) /\ Ent(t, x) = Ent(s, x)
  BY <1>1, <1>2, <1>3 DEF Busy
<1>4. ASSUME << l, i >> \in Busy(t, D)
      PROVE  Ent(t, << l, i >>) = f /\ Fits(s, D, n, l, i, f)
  <2>1. << l, i >> \in D \X Index
    OBVIOUS
  <2>2. Ent(t, << l, i >>) = f
    BY <1>1, <2>1
  <2> QED  BY <1>4, <2>2 DEF Busy
<1>5. D \subseteq Lba /\ ROOT \in D /\ \A d \in D : d = ROOT \/ d < n
  <2>1. \A d \in D : d \in Int
    BY Constants DEF Tree
  <2> QED  BY <2>1 DEF Tree
<1>6. START .. k - 1 \subseteq START .. n - 1
  BY Constants
<1>7. \A x \in Busy(t, D) :
        /\ Span(Ent(t, x)) \subseteq START .. n - 1
        /\ Ent(t, x).type = "dir" => Ent(t, x).start \in D
        /\ Ent(t, x).type # "dir" => Span(Ent(t, x)) \cap D = {}
  <2> TAKE x \in Busy(t, D)
  <2>1. CASE x = << l, i >>
    BY <1>4, <2>1 DEF Fits
  <2>2. CASE x # << l, i >>
    <3>1. x \in Busy(s, D) /\ Ent(t, x) = Ent(s, x)
      BY <1>3, <2>2
    <3>2. /\ Span(Ent(s, x)) \subseteq START .. k - 1
          /\ Ent(s, x).type = "dir" => Ent(s, x).start \in D
          /\ Ent(s, x).type # "dir" => Span(Ent(s, x)) \cap D = {}
      BY <3>1 DEF Tree
    <3>3. Span(Ent(t, x)) \subseteq START .. n - 1
      BY <1>6, <3>1, <3>2
    <3> QED  BY <3>1, <3>2, <3>3
  <2> QED  BY <2>1, <2>2
<1>8. ASSUME NEW x \in Busy(t, D), x # << l, i >>, << l, i >> \in Busy(t, D)
      PROVE  /\ Span(f) \cap Span(Ent(t, x)) = {}
             /\ x[1] = l => Ent(t, x).name # f.name
  <2>1. x \in Busy(s, D) /\ Ent(t, x) = Ent(s, x)
    BY <1>3, <1>8
  <2>2. Fits(s, D, n, l, i, f)
    BY <1>4, <1>8
  <2> QED  BY <1>8, <2>1, <2>2 DEF Fits
<1>9. \A x, y \in Busy(t, D) : x # y =>
        /\ Span(Ent(t, x)) \cap Span(Ent(t, y)) = {}
        /\ x[1] = y[1] => Ent(t, x).name # Ent(t, y).name
  <2> SUFFICES ASSUME NEW x \in Busy(t, D), NEW y \in Busy(t, D), x # y
               PROVE  /\ Span(Ent(t, x)) \cap Span(Ent(t, y)) = {}
                      /\ x[1] = y[1] => Ent(t, x).name # Ent(t, y).name
    OBVIOUS
  <2>1. CASE x # << l, i >> /\ y # << l, i >>
    <3>1. x \in Busy(s, D) /\ Ent(t, x) = Ent(s, x) /\ y \in Busy(s, D) /\ Ent(t, y) = Ent(s, y)
      BY <1>3, <2>1
    <3> QED  BY <3>1 DEF Tree
  <2>2. CASE x = << l, i >>
    <3>1. Ent(t, x) = f /\ x[1] = l
      BY <1>4, <2>2
    <3>2. /\ Span(f) \cap Span(Ent(t, y)) = {}
          /\ y[1] = l => Ent(t, y).name # f.name
      BY <1>8, <2>2
    <3> QED  BY <3>1, <3>2
  <2>3. CASE y = << l, i >>
    <3>1. Ent(t, y) = f /\ y[1] = l
      BY <1>4, <2>3
    <3>2. /\ Span(f) \cap Span(Ent(t, x)) = {}
          /\ x[1] = l => Ent(t, x).name # f.name
      BY <1>8, <2>3
    <3> QED  BY <3>1, <3>2
  <2> QED  BY <2>1, <2>2, <2>3
<1> QED  BY <1>5, <1>7, <1>9 DEF Tree

\* A tree has room for an empty table where nothing has been allocated.
LEMMA TreeWider ==
  ASSUME NEW s, NEW D, NEW k \in Int, NEW n \in Int, k <= n, Tree(s, D, k),
         NEW d \in Lba, k <= d, d < n, s[d].entries = Blank.entries
  PROVE  Tree(s, D \cup {d}, n)
<1>1. ASSUME NEW j \in Index PROVE Ent(s, << d, j >>).type = "free"
  <2>1. s[d].entries[j] = NoEntry
    BY DEF Blank
  <2> QED  BY <2>1, NoEntryIs DEF Ent
<1>2. Busy(s, D \cup {d}) = Busy(s, D)
  BY <1>1 DEF Busy
<1>3. Tree(s, D, n)
  BY TreeSame
<1>4. \A x \in Busy(s, D) : Span(Ent(s, x)) \cap {d} = {}
  <2> TAKE x \in Busy(s, D)
  <2>1. Span(Ent(s, x)) \subseteq START .. k - 1
    BY DEF Tree
  <2>2. d \notin START .. k - 1
    BY Constants
  <2> QED  BY <2>1, <2>2
<1>5. D \cup {d} \subseteq Lba /\ ROOT \in D \cup {d} /\ \A l \in D \cup {d} : l = ROOT \/ l < n
  BY <1>3 DEF Tree
<1>6. \A x \in Busy(s, D) :
        /\ Span(Ent(s, x)) \subseteq START .. n - 1
        /\ Ent(s, x).type = "dir" => Ent(s, x).start \in D \cup {d}
        /\ Ent(s, x).type # "dir" => Span(Ent(s, x)) \cap (D \cup {d}) = {}
  <2> TAKE x \in Busy(s, D)
  <2>1. /\ Span(Ent(s, x)) \subseteq START .. n - 1
        /\ Ent(s, x).type = "dir" => Ent(s, x).start \in D
        /\ Ent(s, x).type # "dir" => Span(Ent(s, x)) \cap D = {}
    BY <1>3 DEF Tree
  <2>2. Span(Ent(s, x)) \cap {d} = {}
    BY <1>4
  <2> QED  BY <2>1, <2>2
<1>7. \A x, y \in Busy(s, D) : x # y =>
        /\ Span(Ent(s, x)) \cap Span(Ent(s, y)) = {}
        /\ x[1] = y[1] => Ent(s, x).name # Ent(s, y).name
  BY <1>3 DEF Tree
<1> QED  BY <1>2, <1>5, <1>6, <1>7 DEF Tree

----------------------------------------------------------------------------
(* What the calls do to the tree.                                          *)

\* The allocator knows of all below it in memory, and on the disk if that survives.
LEMMA KnownAfter ==
  ASSUME TypeOK, NEW ws \in Seq(Writes), NEW twice, NEW done \in 0 .. Len(ws), NEW stop \in BOOLEAN,
         NEW K, K \subseteq 1 .. Len(ws), Did(ws, twice, done, stop, K), ~hurt'
  PROVE  /\ ~hurt /\ ~(twice /\ done = 1) /\ Known' \in Nat
         /\ NextAfter(ws, done) \in START .. LIMIT /\ NextAfter(ws, done) <= Known'
<1>1. /\ OnDisk(ws, K) /\ mounted' = ~stop
      /\ next' = IF stop THEN START ELSE NextAfter(ws, done)
      /\ hurt' = (hurt \/ (twice /\ done = 1) \/ (stop /\ super' < NextAfter(ws, done)))
  BY Zenon DEF Did
<1>2. ~hurt /\ ~(twice /\ done = 1) /\ ~(stop /\ super' < NextAfter(ws, done))
  BY <1>1, Zenon
<1>3. PICK n \in START .. LIMIT : n = NextAfter(ws, done)
  BY NextAfterIs DEF TypeOK
<1>4. super' \in Nat
  <2>1. \A k \in K : ws[k] \in Writes
    OBVIOUS
  <2>2. \A k \in K : ws[k].lba = SUPER => ws[k].free \in Nat
    BY <2>1, WriteParts, Constants, SMTT(20)
  <2>3. super' = super \/ \E k \in K : ws[k].lba = SUPER /\ super' = ws[k].free
    BY <1>1, SuperIs
  <2> QED  BY <2>2, <2>3, Constants DEF TypeOK
<1>5. Known' = IF mounted' THEN next' ELSE super'
  BY DEF Known
<1>6. Known' \in Nat /\ n <= Known'
  <2>1. n \in Nat
    BY <1>3, Constants
  <2>2. CASE stop
    <3>1. Known' = super' /\ ~(super' < n)
      <4>1. mounted' = FALSE
        BY <1>1, <2>2
      <4> QED  BY <1>2, <1>3, <1>5, <2>2, <4>1
    <3> QED  BY <1>4, <2>1, <3>1
  <2>3. CASE ~stop
    <3>1. Known' = n
      <4>1. mounted' = TRUE /\ next' = n
        BY <1>1, <1>3, <2>3
      <4> QED  BY <1>5, <4>1
    <3> QED  BY <2>1, <3>1
  <2> QED  BY <2>2, <2>3
<1> QED  BY <1>2, <1>3, <1>6

\* Of the sectors that are not new, t has others than the disk only in own and at l; the
\* first z units of a file f are those on the disk, and the units after them are bytes.
Kept(t, own, l) == \A y \in Lba : y < next /\ y \notin own /\ y # l => t[y] = sector[y]
Keeps(t, f, l, z) ==
  f.type = "file" => \A u \in 1 .. f.size :
    SectorOf(f, u) \in Lba \ {l} /\ u <= z => Unit(t, f, u) = Unit(sector, f, u)
Brought(t, f, l, z) ==
  f.type = "file" => \A u \in 1 .. f.size :
    SectorOf(f, u) \in Lba \ {l} /\ ~(u <= z) => Unit(t, f, u) \in Byte

\* The tables of D after a call that settles the one at l: as they were, or that
\* one as it should be and new sectors written; and the units of files.
LEMMA EditAll ==
  ASSUME TypeOK, NEW D, D \subseteq Lba, \A d \in D : d = ROOT \/ d < next,
         NEW own, own \subseteq Lba, own \cap D = {},
         NEW l \in D, NEW i, NEW f, NEW m, Edits(own, l, i, f, m), ~hurt'
  PROVE  /\ ~hurt /\ Known' \in Nat /\ next <= Known'
         /\ Kept(sector', own, l) /\ (AllFilled => Keeps(sector', f, l, Table(l)[i].size))
         /\ \/ \A d \in D : sector'[d].entries = sector[d].entries
            \/ /\ m \in next .. Known' /\ Patched(sector, sector', D, l, i, f)
               /\ m > next => sector'[next].entries = Blank.entries
               /\ AllFilled => Brought(sector', f, l, Table(l)[i].size)
<1>1. PICK t : t = [Table(l) EXCEPT ![i] = f]
  OBVIOUS
<1>2. PICK ws : /\ Settles(ws, own, l, t, m) /\ Perform(ws, FALSE)
                /\ AllFilled => Brings(ws, f, Table(l)[i].size)
  BY <1>1 DEF Edits
<1>3. PICK N \in Nat \ {0} : N = Len(ws)
  BY <1>2 DEF Settles
<1>4. ws \in Seq(Writes) /\ m \in next .. LIMIT /\ ws[N].lba = l /\ ws[N].sector.entries = t
  BY <1>2, <1>3 DEF Settles
<1>5. \A k \in 1 .. N - 1 :
        \/ ws[k].lba = SUPER /\ ws[k].free = m
        \/ ws[k].lba \in own \cup (next .. LIMIT - 1) /\ ws[k].sector.entries = Blank.entries
  BY <1>2, <1>3 DEF Settles
<1>6. m > next => /\ \E k \in 1 .. N - 1 : ws[k].lba = SUPER
                  /\ \E k \in 1 .. N - 1 : ws[k].lba = next
  BY <1>2, <1>3 DEF Settles
<1>7. next \in Nat /\ next >= 2 /\ next <= LIMIT /\ LIMIT \in Nat
  BY Constants DEF TypeOK
<1>8. PICK done \in 0 .. N, stop \in BOOLEAN :
        \E K : K \subseteq 1 .. N /\ Did(ws, FALSE, done, stop, K)
  <2>1. PICK done \in 0 .. N, stop \in BOOLEAN, K \in SUBSET (1 .. N) : Did(ws, FALSE, done, stop, K)
    BY <1>2, <1>3, <1>4, PerformDoes
  <2> QED  BY <2>1
<1>9. PICK K : K \subseteq 1 .. N /\ Did(ws, FALSE, done, stop, K)
  BY <1>8
<1>10. /\ ~hurt /\ Known' \in Nat
       /\ NextAfter(ws, done) \in START .. LIMIT /\ NextAfter(ws, done) <= Known'
  BY <1>3, <1>4, <1>9, KnownAfter
<1>11. /\ OnDisk(ws, K) /\ K \subseteq 1 .. done
       /\ \A k \in 1 .. done : ws[k].lba # SUPER => k \in K
  BY <1>9, Zenon DEF Did
<1>12. l # SUPER
  BY Constants
<1>13. \A k \in 1 .. N : ws[k].lba = SUPER => ws[k].free = m
  <2> TAKE k \in 1 .. N
  <2>1. CASE k = N
    BY <1>4, <1>12, <2>1
  <2>2. CASE k # N
    <3>1. k \in 1 .. N - 1
      BY <2>2
    <3>2. SUPER \notin own \cup (next .. LIMIT - 1)
      BY <1>7, Constants
    <3> QED  BY <1>5, <3>1, <3>2
  <2> QED  BY <2>1, <2>2
<1>14. NextAfter(ws, done) = IF \E k \in 1 .. done : ws[k].lba = SUPER THEN m ELSE next
  <2>1. CASE \E k \in 1 .. done : ws[k].lba = SUPER
    <3>1. PICK j : j = CHOOSE k \in 1 .. done : ws[k].lba = SUPER
      OBVIOUS
    <3>2. j \in 1 .. done /\ ws[j].lba = SUPER
      BY <2>1, <3>1
    <3>3. ws[j].free = m
      BY <1>13, <3>2
    <3> QED  BY <2>1, <3>1, <3>3 DEF NextAfter
  <2>2. CASE ~\E k \in 1 .. done : ws[k].lba = SUPER
    BY <2>2 DEF NextAfter
  <2> QED  BY <2>1, <2>2
<1>15. next <= NextAfter(ws, done)
  BY <1>4, <1>7, <1>14
<1>16. \A k \in 1 .. N - 1 : ws[k].lba \notin D
  <2> TAKE k \in 1 .. N - 1
  <2>1. SUPER \notin D
    BY Constants
  <2>2. \A d \in D : d \notin next .. LIMIT - 1
    BY <1>7, Constants
  <2> QED  BY <1>5, <2>1, <2>2
<1>17. ASSUME NEW d \in D, NEW k \in K, ws[k].lba = d
       PROVE  k = N /\ d = l
  <2>1. k \in 1 .. N
    BY <1>9
  <2>2. k = N
    BY <1>16, <1>17, <2>1
  <2> QED  BY <1>4, <1>17, <2>2
<1>18. ASSUME NEW d \in Lba
       PROVE  \/ (~\E k \in K : ws[k].lba = d) /\ sector'[d] = sector[d]
              \/ \E k \in K : ws[k].lba = d /\ sector'[d] = ws[k].sector
  <2>1. OnDisk(ws, K)
    BY <1>11
  <2> HIDE <1>8, <1>9, <1>11
  <2> QED  BY <2>1, SectorIs
<1>19. ASSUME NEW d \in D, d # l PROVE sector'[d].entries = sector[d].entries
  BY <1>17, <1>18, <1>19
<1>22. ASSUME NEW k \in K, ws[k].lba # l
       PROVE  /\ k \in 1 .. N - 1
              /\ ws[k].lba = SUPER \/ ws[k].lba \in own \cup (next .. LIMIT - 1)
  <2>1. k \in 1 .. N
    BY <1>9
  <2>2. k # N
    BY <1>4, <1>22
  <2>3. k \in 1 .. N - 1
    BY <2>1, <2>2
  <2> QED  BY <1>5, <2>3
<1>23. Kept(sector', own, l)
  <2> SUFFICES ASSUME NEW y \in Lba, y < next, y \notin own, y # l PROVE sector'[y] = sector[y]
    BY Zenon DEF Kept
  <2>1. y # SUPER /\ y \notin next .. LIMIT - 1
    <3>1. y \in Nat /\ y # SUPER
      BY Constants
    <3> QED  BY <1>7, <3>1
  <2>2. ~\E k \in K : ws[k].lba = y
    BY <1>22, <2>1
  <2> QED  BY <1>18, <2>2
<1>24. ASSUME AllFilled PROVE Keeps(sector', f, l, Table(l)[i].size)
  <2> SUFFICES ASSUME f.type = "file", NEW u \in 1 .. f.size, SectorOf(f, u) \in Lba \ {l},
                      u <= Table(l)[i].size
               PROVE  Unit(sector', f, u) = Unit(sector, f, u)
    BY Zenon DEF Keeps
  <2>1. Leaves(ws, N - 1, f, u)
    BY <1>2, <1>3, <1>24, Zenon DEF Brings
  <2>2. PICK y \in Lba : y = SectorOf(f, u) /\ y # l
    OBVIOUS
  <2>3. ASSUME NEW k \in K, ws[k].lba = y, sector'[y] = ws[k].sector
        PROVE  Unit(sector', f, u) = Unit(sector, f, u)
    <3>1. k \in 1 .. N - 1
      BY <1>22, <2>2, <2>3
    <3>2. ws[k].sector.data[OffsetOf(u)] = Unit(sector, f, u)
      BY <2>1, <2>2, <2>3, <3>1, Zenon DEF Leaves
    <3> QED  BY <2>2, <2>3, <3>2, Zenon DEF Unit
  <2>4. CASE sector'[y] = sector[y]
    BY <2>2, <2>4, Zenon DEF Unit
  <2> QED  BY <1>18, <2>3, <2>4, Zenon
<1>25. ASSUME AllFilled, done = N PROVE Brought(sector', f, l, Table(l)[i].size)
  <2> SUFFICES ASSUME f.type = "file", NEW u \in 1 .. f.size, SectorOf(f, u) \in Lba \ {l},
                      ~(u <= Table(l)[i].size)
               PROVE  Unit(sector', f, u) \in Byte
    BY Zenon DEF Brought
  <2>1. Fills(ws, N - 1, f, u)
    BY <1>2, <1>3, <1>25, Zenon DEF Brings
  <2>2. PICK y \in Lba : y = SectorOf(f, u) /\ y # l
    OBVIOUS
  <2>3. PICK j \in 1 .. N - 1 : ws[j].lba = y
    BY <2>1, <2>2, Zenon DEF Fills
  <2>4. j \in K
    <3>1. j \in 1 .. done /\ y # SUPER
      BY <1>25, Constants
    <3> QED  BY <1>11, <2>3, <3>1
  <2>5. PICK k \in K : ws[k].lba = y /\ sector'[y] = ws[k].sector
    BY <1>18, <2>3, <2>4
  <2>6. k \in 1 .. N - 1
    BY <1>22, <2>2, <2>5
  <2>7. ws[k].sector.data[OffsetOf(u)] \in Byte
    BY <2>1, <2>2, <2>5, <2>6, Zenon DEF Fills
  <2> QED  BY <2>2, <2>5, <2>7, Zenon DEF Unit
<1>20. CASE done # N
  <2>1. N \notin K
    BY <1>11, <1>20
  <2>2. sector'[l] = sector[l]
    BY <1>17, <1>18, <2>1
  <2>3. \A d \in D : sector'[d].entries = sector[d].entries
    BY <1>19, <2>2
  <2>4. Known' \in Nat /\ next <= Known'
    BY <1>7, <1>10, <1>15, Constants
  <2> QED  BY <1>10, <1>23, <1>24, <2>3, <2>4, Zenon
<1>21. CASE done = N
  <2>1. N \in K
    <3>1. N \in 1 .. done
      BY <1>21
    <3> QED  BY <1>4, <1>11, <1>12, <3>1
  <2>2. sector'[l].entries = t
    <3>1. PICK k \in K : ws[k].lba = l /\ sector'[l] = ws[k].sector
      BY <1>4, <1>18, <2>1
    <3>2. k = N
      BY <1>17, <3>1
    <3> QED  BY <1>4, <3>1, <3>2
  <2>3. Patched(sector, sector', D, l, i, f)
    BY <1>1, <1>19, <2>2 DEF Patched, Table
  <2>4. NextAfter(ws, done) = m
    <3>1. CASE m > next
      <4>1. \E k \in 1 .. done : ws[k].lba = SUPER
        BY <1>6, <1>21, <3>1
      <4> QED  BY <1>14, <4>1
    <3>2. CASE ~(m > next)
      BY <1>4, <1>7, <1>14, <3>2
    <3> QED  BY <3>1, <3>2
  <2>5. ASSUME m > next PROVE sector'[next].entries = Blank.entries
    <3>1. next \in Lba /\ next # SUPER
      BY <1>4, <1>7, <2>5, Constants DEF Lba
    <3>2. PICK j \in 1 .. N - 1 : ws[j].lba = next
      BY <1>6, <2>5
    <3>3. j \in K
      <4>1. j \in 1 .. done
        BY <1>21
      <4> QED  BY <1>11, <3>1, <3>2, <4>1
    <3>4. PICK k \in K : ws[k].lba = next /\ sector'[next] = ws[k].sector
      BY <1>18, <3>1, <3>2, <3>3
    <3>5. next \notin D
      BY <1>7, Constants
    <3>6. k \in 1 .. N - 1
      <4>1. k # N
        BY <1>4, <3>4, <3>5
      <4> QED  BY <1>9, <4>1
    <3> QED  BY <1>5, <3>1, <3>4, <3>6
  <2>6. Known' \in Nat /\ next <= Known' /\ m \in next .. Known'
    BY <1>4, <1>7, <1>10, <1>15, <2>4
  <2> QED  BY <1>10, <1>21, <1>23, <1>24, <1>25, <2>3, <2>5, <2>6, Zenon
<1> QED  BY <1>20, <1>21

\* The tables of D alone.
LEMMA EditDoes ==
  ASSUME TypeOK, NEW D, D \subseteq Lba, \A d \in D : d = ROOT \/ d < next,
         NEW own, own \subseteq Lba, own \cap D = {},
         NEW l \in D, NEW i, NEW f, NEW m, Edits(own, l, i, f, m), ~hurt'
  PROVE  /\ ~hurt /\ Known' \in Nat /\ next <= Known'
         /\ \/ \A d \in D : sector'[d].entries = sector[d].entries
            \/ /\ m \in next .. Known' /\ Patched(sector, sector', D, l, i, f)
               /\ m > next => sector'[next].entries = Blank.entries
<1>1. /\ ~hurt /\ Known' \in Nat /\ next <= Known'
      /\ \/ \A d \in D : sector'[d].entries = sector[d].entries
         \/ /\ m \in next .. Known' /\ Patched(sector, sector', D, l, i, f)
            /\ m > next => sector'[next].entries = Blank.entries
            /\ AllFilled => Brought(sector', f, l, Table(l)[i].size)
  BY EditAll, Zenon
<1> QED  BY <1>1, Zenon

TreeInv == ~hurt => \E D : Tree(sector, D, Known)

\* The sectors an entry has, when it has one.
LEMMA SpanIs ==
  ASSUME NEW e \in Entry, e.type # "free"
  PROVE  /\ e.start \in Span(e) /\ (e.type = "dir" => Span(e) = {e.start})
         /\ e.type # "dir" => Span(e) = e.start .. e.start + Sectors(e.size) - 1
<1>1. e.start \in Nat /\ e.size \in Nat
  BY EntryParts
<1>2. Sectors(e.size) \in Nat \ {0}
  BY <1>1, SectorsIsNat
<1> QED  BY <1>1, <1>2 DEF Span

\* Walks stay within the tables of a tree, and what they find there is an entry of it.
LEMMA WalksInTree ==
  ASSUME TypeOK, NEW D, NEW k, Tree(sector, D, k)
  PROVE  /\ \A l \in Lba : OnWalk(l) => l \in D
         /\ \A p, l, i : SlotAt(p, l, i) =>
              /\ l \in D /\ i \in Index /\ << l, i >> \in Busy(sector, D)
              /\ At(p) = Ent(sector, << l, i >>) /\ At(p) \in Entry /\ At(p).type # "free"
<1>1. D \subseteq Lba /\ ROOT \in D
  BY DEF Tree
<1>2. \A l \in D, n \in Names : Into(l, n) \in D \cup {NoTable}
  <2> TAKE l \in D, n \in Names
  <2>1. CASE Named(Table(l), n) # {} /\ EntryOf(l, n).type = "dir"
    <3>1. PICK i \in Index : i = First(Named(Table(l), n)) /\ Table(l)[i].type # "free"
      BY <1>1, <2>1, TableIs, NamedIs
    <3>2. EntryOf(l, n) = Ent(sector, << l, i >>)
      BY <3>1 DEF EntryOf, Ent, Table
    <3>3. << l, i >> \in Busy(sector, D)
      BY <3>1 DEF Busy, Ent, Table
    <3>4. EntryOf(l, n).start \in D
      BY <2>1, <3>2, <3>3 DEF Tree
    <3> QED  BY <3>4 DEF Into
  <2>2. CASE ~(Named(Table(l), n) # {} /\ EntryOf(l, n).type = "dir")
    BY <2>2 DEF Into
  <2> QED  BY <2>1, <2>2
<1>3. ASSUME NEW l \in Lba, OnWalk(l) PROVE l \in D
  <2>1. PICK path \in Seq(Names) : l = Walk(path)
    BY <1>3, Zenon DEF OnWalk
  <2>2. Walk(path) \in D \cup {NoTable}
    BY <1>1, <1>2, WalkStays
  <2> QED  BY <2>1, <2>2, Constants
<1>4. ASSUME NEW p, NEW l, NEW i, SlotAt(p, l, i)
      PROVE  /\ l \in D /\ i \in Index /\ << l, i >> \in Busy(sector, D)
             /\ At(p) = Ent(sector, << l, i >>) /\ At(p) \in Entry /\ At(p).type # "free"
  <2>1. p \in Path /\ Found(p) /\ l = InTable(p) /\ i = SlotOf(p) /\ OnWalk(l)
    BY <1>4 DEF SlotAt
  <2>2. l \in Lba /\ i \in Index /\ At(p) = Table(l)[i] /\ At(p) \in Entry /\ At(p).type # "free"
    BY <2>1, FoundIs
  <2>3. l \in D
    BY <1>3, <2>1, <2>2
  <2>4. Table(l)[i] = Ent(sector, << l, i >>)
    BY DEF Table, Ent
  <2> QED  BY <2>2, <2>3, <2>4 DEF Busy
<1> QED  BY <1>3, <1>4

\* The sectors the tree has are below the allocator, the tables too.
LEMMA TreeBelow ==
  ASSUME TypeOK, NEW D, Tree(sector, D, next)
  PROVE  /\ D \subseteq Lba /\ (\A d \in D : d = ROOT \/ d < next)
         /\ next \in Nat /\ START <= next /\ next <= LIMIT /\ LIMIT \in Nat
         /\ \A x \in Busy(sector, D) : x \in D \X Index /\ Span(Ent(sector, x)) \subseteq START .. next - 1
BY Constants DEF Tree, TypeOK, Busy

NewUpTo(S, n) == S = next .. n

\* Nothing the tree has is among new sectors.
LEMMA NewIsApart ==
  ASSUME TypeOK, NEW D, Tree(sector, D, next), NEW S, NEW n \in Int, NewUpTo(S, n)
  PROVE  /\ S \cap D = {} /\ S \subseteq START .. n
         /\ \A x \in Busy(sector, D) : S \cap Span(Ent(sector, x)) = {}
<1> USE DEF NewUpTo
<1>1. /\ D \subseteq Lba /\ (\A d \in D : d = ROOT \/ d < next)
      /\ next \in Nat /\ START <= next
      /\ \A x \in Busy(sector, D) : Span(Ent(sector, x)) \subseteq START .. next - 1
  BY TreeBelow
<1>2. S \cap D = {}
  <2>1. \A d \in D : d \in Nat /\ d \notin S
    BY <1>1, Constants
  <2> QED  BY <2>1
<1>3. S \subseteq START .. n
  BY <1>1, Constants
<1>4. \A x \in Busy(sector, D) : S \cap Span(Ent(sector, x)) = {}
  <2> TAKE x \in Busy(sector, D)
  <2>1. \A y \in START .. next - 1 : y \notin S
    BY <1>1, Constants
  <2> QED  BY <1>1, <2>1
<1> QED  BY <1>2, <1>3, <1>4

\* The names of a table of the tree.
LEMMA NamesIn ==
  ASSUME NEW D, NEW l \in D, NEW n, NEW x \in Busy(sector, D), x[1] = l, Ent(sector, x).name = n
  PROVE  x[2] \in Named(Table(l), n) /\ x = << l, x[2] >>
BY DEF Busy, Ent, Named, Table

\* A new file or directory.
LEMMA AddsTree ==
  ASSUME TypeOK, NEW D, Tree(sector, D, next), NEW l, NEW i, NEW f, Adds(l, i, f), ~hurt'
  PROVE  ~hurt /\ \E E : Tree(sector', E, Known')
<1>1. /\ D \subseteq Lba /\ (\A d \in D : d = ROOT \/ d < next)
      /\ next \in Nat /\ START <= next /\ next <= LIMIT /\ LIMIT \in Nat
  BY TreeBelow
<1>2. /\ OnWalk(l) /\ Table(l)[i].type = "free" /\ Named(Table(l), f.name) = {}
      /\ f.type \in {"file", "dir"} /\ f.start = next /\ next < LIMIT
      /\ f.type = "dir" => f.size = 0
      /\ Edits({}, l, i, f, next + Sectors(f.size))
  BY DEF Adds
<1>3. l \in Lba /\ i \in Index /\ f \in Entry
  BY <1>2 DEF Edits
<1>4. l \in D
  BY <1>2, <1>3, WalksInTree
<1>5. PICK n \in Nat \ {0} : n = Sectors(f.size)
  BY <1>3, EntryParts, SectorsIsNat
<1>6. PICK m \in Nat : m = next + n
  BY <1>1
<1>7. PICK known \in Nat : known = Known' /\ next <= known /\ ~hurt
        /\ \/ \A d \in D : sector'[d].entries = sector[d].entries
           \/ /\ m \in next .. known /\ Patched(sector, sector', D, l, i, f)
              /\ m > next => sector'[next].entries = Blank.entries
  <2>1. {} \subseteq Lba /\ {} \cap D = {}
    OBVIOUS
  <2>2. Edits({}, l, i, f, m)
    BY <1>2, <1>5, <1>6
  <2>3. /\ ~hurt /\ Known' \in Nat /\ next <= Known'
        /\ \/ \A d \in D : sector'[d].entries = sector[d].entries
           \/ /\ m \in next .. Known' /\ Patched(sector, sector', D, l, i, f)
              /\ m > next => sector'[next].entries = Blank.entries
    BY <1>1, <1>4, <2>1, <2>2, EditDoes
  <2> QED  BY <2>3
<1>8. PICK t : t = sector'
  OBVIOUS
<1>9. CASE \A d \in D : t[d].entries = sector[d].entries
  <2>1. Tree(t, D, known)
    BY <1>1, <1>7, <1>9, TreeSame
  <2> QED  BY <1>7, <1>8, <2>1
<1>10. CASE m \in next .. known /\ Patched(sector, t, D, l, i, f) /\ t[next].entries = Blank.entries
  <2>0. PICK S : S = next .. m - 1
    OBVIOUS
  <2>1. Span(f) \subseteq S
    <3>1. CASE f.type = "dir"
      <4>1. Span(f) = {next}
        BY <1>2, <1>3, <3>1, SpanIs
      <4>2. next \in next .. m - 1
        BY <1>1, <1>5, <1>6
      <4> QED  BY <2>0, <4>1, <4>2
    <3>2. CASE f.type # "dir"
      <4>1. Span(f) = next .. next + n - 1
        BY <1>2, <1>3, <1>5, <3>2, SpanIs
      <4> QED  BY <1>1, <1>6, <2>0, <4>1
    <3> QED  BY <3>1, <3>2
  <2>2. /\ S \cap D = {} /\ S \subseteq START .. m - 1
        /\ \A x \in Busy(sector, D) : S \cap Span(Ent(sector, x)) = {}
    <3>1. m - 1 \in Int /\ NewUpTo(S, m - 1)
      BY <2>0 DEF NewUpTo
    <3> QED  BY <3>1, NewIsApart
  <2>3. /\ Span(f) \cap D = {}
        /\ \A x \in Busy(sector, D) : Span(f) \cap Span(Ent(sector, x)) = {}
    BY <2>1, <2>2
  <2>4. Span(f) \subseteq START .. known - 1
    <3>1. START .. m - 1 \subseteq START .. known - 1
      BY <1>10, Constants
    <3> QED  BY <2>1, <2>2, <3>1
  <2>5. \A x \in Busy(sector, D) : x[1] = l => Ent(sector, x).name # f.name
    BY <1>2, <1>4, NamesIn
  <2>6. CASE f.type # "dir"
    <3>1. Fits(sector, D, known, l, i, f)
      BY <2>3, <2>4, <2>5, <2>6 DEF Fits
    <3>2. sector[l].entries \in [Index -> Entry]
      BY <1>3 DEF TypeOK
    <3>3. Tree(t, D, known)
      BY <1>1, <1>3, <1>4, <1>7, <1>10, <3>1, <3>2, TreePut
    <3> QED  BY <1>7, <1>8, <3>3
  <2>7. CASE f.type = "dir"
    <3>1. PICK s : s = [d \in Lba |-> IF d = next THEN Blank ELSE sector[d]]
      OBVIOUS
    <3>2. next \in Lba /\ next < m /\ next \notin D
      <4>1. next \in Lba
        BY <1>1, <1>2, Constants DEF Lba
      <4>2. next \in S
        BY <1>1, <1>5, <1>6, <2>0
      <4> QED  BY <1>1, <1>5, <1>6, <2>2, <4>1, <4>2
    <3>3. s[next] = Blank /\ \A d \in Lba : d # next => s[d] = sector[d]
      BY <3>1, <3>2
    <3>4. \A d \in D : s[d] = sector[d]
      BY <1>1, <3>2, <3>3
    <3>5. Tree(s, D, next)
      <4>1. \A d \in D : s[d].entries = sector[d].entries
        BY <3>4
      <4> QED  BY <1>1, <4>1, TreeSame
    <3>6. PICK E : E = D \cup {next}
      OBVIOUS
    <3>7. Tree(s, E, m)
      <4>1. s[next].entries = Blank.entries
        BY <3>3
      <4> QED  BY <1>1, <3>2, <3>5, <3>6, <4>1, TreeWider
    <3>8. \A x \in Busy(s, E) : x \in Busy(sector, D) /\ Ent(s, x) = Ent(sector, x)
      <4> TAKE x \in Busy(s, E)
      <4>1. PICK d \in E, j \in Index : x = << d, j >> /\ x[1] = d /\ x[2] = j
        BY DEF Busy
      <4>2. Ent(s, x).type # "free" /\ Ent(s, x) = s[d].entries[j]
        BY <4>1 DEF Busy, Ent
      <4>3. d # next
        <5>1. Blank.entries[j].type = "free"
          <6>1. Blank.entries[j] = NoEntry
            BY DEF Blank
          <6> QED  BY <6>1, NoEntryIs
        <5> QED  BY <3>3, <4>2, <5>1
      <4>4. d \in D /\ s[d] = sector[d]
        BY <3>4, <3>6, <4>1, <4>3
      <4> QED  BY <4>1, <4>2, <4>4 DEF Busy, Ent
    <3>9. Fits(s, E, known, l, i, f)
      <4>1. f.start \in E
        BY <1>2, <3>6
      <4> QED  BY <2>3, <2>4, <2>5, <2>7, <3>8, <4>1 DEF Fits
    <3>10. Patched(s, t, E, l, i, f)
      <4>1. s[l] = sector[l]
        BY <1>4, <3>4
      <4>2. ASSUME NEW d \in E, d # l PROVE t[d].entries = s[d].entries
        <5>1. CASE d = next
          BY <1>10, <3>3, <5>1
        <5>2. CASE d \in D
          BY <1>10, <3>4, <4>2, <5>2 DEF Patched
        <5> QED  BY <3>6, <5>1, <5>2
      <4> QED  BY <1>10, <4>1, <4>2 DEF Patched
    <3>11. s[l].entries \in [Index -> Entry] /\ l \in E
      BY <1>3, <1>4, <3>4, <3>6 DEF TypeOK
    <3>12. Tree(t, E, known)
      BY <1>3, <1>10, <3>7, <3>9, <3>10, <3>11, TreePut
    <3> QED  BY <1>7, <1>8, <3>12
  <2> QED  BY <2>6, <2>7
<1>11. m > next
  BY <1>1, <1>5, <1>6
<1> QED  BY <1>7, <1>8, <1>9, <1>10, <1>11

\* An entry that goes or stays in place: what is new of it fits.
LEMMA InPlaceTree ==
  ASSUME TypeOK, NEW D, Tree(sector, D, next), NEW p, NEW l, NEW i, SlotAt(p, l, i),
         NEW own, own \subseteq Span(At(p)), own # {} => At(p).type # "dir",
         NEW f, NEW m, Edits(own, l, i, f, m), ~hurt',
         f.type # "free" => /\ f.type = At(p).type /\ f.start = At(p).start
                            /\ Span(f) \subseteq Span(At(p)) \cup (next .. m - 1)
                            /\ Named(Table(l), f.name) \subseteq {i}
  PROVE  ~hurt /\ \E E : Tree(sector', E, Known')
<1>1. /\ D \subseteq Lba /\ (\A d \in D : d = ROOT \/ d < next)
      /\ next \in Nat /\ START <= next /\ next <= LIMIT /\ LIMIT \in Nat
      /\ \A x \in Busy(sector, D) : Span(Ent(sector, x)) \subseteq START .. next - 1
  BY TreeBelow
<1>2. /\ l \in D /\ i \in Index /\ << l, i >> \in Busy(sector, D)
      /\ At(p) = Ent(sector, << l, i >>) /\ At(p) \in Entry /\ At(p).type # "free"
  BY WalksInTree
<1>3. PICK e \in Entry : e = At(p) /\ e.type # "free" /\ e = Ent(sector, << l, i >>)
  BY <1>2
<1>4. /\ Span(e) \subseteq START .. next - 1
      /\ e.type = "dir" => e.start \in D
      /\ e.type # "dir" => Span(e) \cap D = {}
  BY <1>2, <1>3 DEF Tree
<1>5. own \subseteq Lba /\ own \cap D = {}
  <2>1. START .. next - 1 \subseteq Lba
    BY <1>1, Constants DEF Lba
  <2>2. own = {} \/ e.type # "dir"
    BY <1>3
  <2> QED  BY <1>3, <1>4, <2>1, <2>2
<1>6. PICK known \in Nat : known = Known' /\ next <= known /\ ~hurt
        /\ \/ \A d \in D : sector'[d].entries = sector[d].entries
           \/ m \in next .. known /\ Patched(sector, sector', D, l, i, f)
  <2>1. /\ ~hurt /\ Known' \in Nat /\ next <= Known'
        /\ \/ \A d \in D : sector'[d].entries = sector[d].entries
           \/ /\ m \in next .. Known' /\ Patched(sector, sector', D, l, i, f)
              /\ m > next => sector'[next].entries = Blank.entries
    BY <1>1, <1>2, <1>5, EditDoes
  <2> QED  BY <2>1
<1>7. PICK t : t = sector'
  OBVIOUS
<1>8. CASE \A d \in D : t[d].entries = sector[d].entries
  <2>1. Tree(t, D, known)
    BY <1>1, <1>6, <1>8, TreeSame
  <2> QED  BY <1>6, <1>7, <2>1
<1>9. CASE m \in next .. known /\ Patched(sector, t, D, l, i, f)
  <2>0. PICK z \in Nat : z = m /\ z <= known
    <3>1. m \in Nat /\ m <= known
      BY <1>1, <1>6, <1>9
    <3> QED  BY <3>1
  <2> DEFINE S == next .. z - 1
  <2>01. /\ \A y \in START .. z - 1 : y \in START .. known - 1
         /\ \A y \in START .. next - 1 : y \in START .. known - 1
    <3>1. next \in Nat /\ next <= known /\ z <= known /\ START = 2
      BY <1>1, <1>6, <2>0, Constants
    <3> QED  BY <3>1
  <2>1. ASSUME f.type # "free" PROVE Fits(sector, D, known, l, i, f)
    <3>1. /\ f.type = e.type /\ f.start = e.start
          /\ Span(f) \subseteq Span(e) \cup S
          /\ Named(Table(l), f.name) \subseteq {i}
      BY <1>3, <2>0, <2>1
    <3>2. /\ S \cap D = {} /\ S \subseteq START .. z - 1
          /\ \A x \in Busy(sector, D) : S \cap Span(Ent(sector, x)) = {}
      <4>1. z - 1 \in Int /\ NewUpTo(S, z - 1)
        BY <2>0 DEF NewUpTo
      <4> HIDE DEF S
      <4> QED  BY <4>1, NewIsApart
    <3>3. Span(f) \subseteq START .. known - 1
      <4>1. START .. z - 1 \subseteq START .. known - 1 /\ START .. next - 1 \subseteq START .. known - 1
        BY <2>01
      <4> QED  BY <1>4, <3>1, <3>2, <4>1
    <3>4. f.type = "dir" => f.start \in D
      BY <1>4, <3>1
    <3>5. f.type # "dir" => Span(f) \cap D = {}
      BY <1>4, <3>1, <3>2
    <3>6. ASSUME NEW x \in Busy(sector, D), x # << l, i >>
          PROVE  /\ Span(f) \cap Span(Ent(sector, x)) = {}
                 /\ x[1] = l => Ent(sector, x).name # f.name
      <4>1. Span(e) \cap Span(Ent(sector, x)) = {}
        BY <1>2, <1>3, <3>6 DEF Tree
      <4>2. Span(f) \cap Span(Ent(sector, x)) = {}
        BY <3>1, <3>2, <4>1
      <4>3. ASSUME x[1] = l, Ent(sector, x).name = f.name PROVE FALSE
        <5>1. x[2] \in Named(Table(l), f.name) /\ x = << l, x[2] >>
          BY <1>2, <4>3, NamesIn
        <5> QED  BY <3>1, <3>6, <5>1
      <4> QED  BY <4>2, <4>3
    <3> QED  BY <3>3, <3>4, <3>5, <3>6 DEF Fits
  <2>2. sector[l].entries \in [Index -> Entry]
    BY <1>1, <1>2 DEF TypeOK
  <2>3. Tree(t, D, known)
    BY <1>1, <1>2, <1>6, <1>9, <2>1, <2>2, TreePut
  <2> QED  BY <1>6, <1>7, <2>3
<1> QED  BY <1>6, <1>7, <1>8, <1>9

\* Writes to the last sector of a file: no table has other entries, no other sector is
\* written, and the file's units are those it had.
LEMMA ScribblesAll ==
  ASSUME TypeOK, NEW D, Tree(sector, D, next), NEW p, NEW l, NEW i, NEW q,
         Scribbles(p, l, i, q), ~hurt'
  PROVE  /\ ~hurt /\ Known' \in Nat /\ next <= Known'
         /\ \A d \in D : sector'[d].entries = sector[d].entries
         /\ Kept(sector', {q}, l) /\ Keeps(sector', At(p), l, At(p).size)
<1>1. SlotAt(p, l, i) /\ At(p).type = "file" /\ q \in Span(At(p))
  BY DEF Scribbles
<1>2. PICK ws \in Seq(Writes) : /\ (\A k \in 1 .. Len(ws) : ws[k].lba = q) /\ Perform(ws, FALSE)
                                /\ \A u \in 1 .. At(p).size : Leaves(ws, Len(ws), At(p), u)
  BY DEF Scribbles
<1>3. /\ D \subseteq Lba /\ next \in Nat /\ START <= next
      /\ \A x \in Busy(sector, D) : Span(Ent(sector, x)) \subseteq START .. next - 1
  BY TreeBelow
<1>4. << l, i >> \in Busy(sector, D) /\ At(p) = Ent(sector, << l, i >>)
  BY <1>1, WalksInTree
<1>5. q \notin D /\ q # SUPER
  <2>1. Span(At(p)) \cap D = {} /\ Span(At(p)) \subseteq START .. next - 1
    BY <1>1, <1>3, <1>4 DEF Tree
  <2>2. \A y \in START .. next - 1 : y # SUPER
    BY <1>3, Constants
  <2> QED  BY <1>1, <2>1, <2>2
<1>6. PICK done \in 0 .. Len(ws), stop \in BOOLEAN :
        \E K : K \subseteq 1 .. Len(ws) /\ Did(ws, FALSE, done, stop, K)
  <2>1. PICK done \in 0 .. Len(ws), stop \in BOOLEAN, K \in SUBSET (1 .. Len(ws)) :
          Did(ws, FALSE, done, stop, K)
    BY <1>2, PerformDoes
  <2> QED  BY <2>1
<1>7. PICK K : K \subseteq 1 .. Len(ws) /\ Did(ws, FALSE, done, stop, K)
  BY <1>6
<1>8. ~hurt /\ Known' \in Nat /\ NextAfter(ws, done) <= Known'
  BY <1>7, KnownAfter
<1>9. NextAfter(ws, done) = next
  <2>1. ~\E k \in 1 .. done : ws[k].lba = SUPER
    BY <1>2, <1>5
  <2> QED  BY <2>1 DEF NextAfter
<1>10. OnDisk(ws, K)
  BY <1>7, Zenon DEF Did
<1>11. \A d \in D : sector'[d].entries = sector[d].entries
  <2> TAKE d \in D
  <2>1. d \in Lba /\ d # q
    BY <1>3, <1>5
  <2>2. \A k \in K : ws[k].lba = q
    BY <1>2, <1>7
  <2>3. \/ (~\E k \in K : ws[k].lba = d) /\ sector'[d] = sector[d]
        \/ \E k \in K : ws[k].lba = d /\ sector'[d] = ws[k].sector
    <3> HIDE <1>6, <1>7
    <3> QED  BY <1>10, <2>1, SectorIs
  <2> QED  BY <2>1, <2>2, <2>3
<1>12. ASSUME NEW y \in Lba
       PROVE  \/ sector'[y] = sector[y]
              \/ y = q /\ \E k \in 1 .. Len(ws) : ws[k].lba = y /\ sector'[y] = ws[k].sector
  <2>1. \/ (~\E k \in K : ws[k].lba = y) /\ sector'[y] = sector[y]
        \/ \E k \in K : ws[k].lba = y /\ sector'[y] = ws[k].sector
    <3> HIDE <1>6, <1>7
    <3> QED  BY <1>10, SectorIs
  <2>2. \A k \in K : k \in 1 .. Len(ws) /\ ws[k].lba = q
    BY <1>2, <1>7
  <2> QED  BY <2>1, <2>2
<1>13. Kept(sector', {q}, l)
  <2> SUFFICES ASSUME NEW y \in Lba, y \notin {q} PROVE sector'[y] = sector[y]
    BY Zenon DEF Kept
  <2>1. y # q
    OBVIOUS
  <2> QED  BY <1>12, <2>1, Zenon
<1>14. Keeps(sector', At(p), l, At(p).size)
  <2> SUFFICES ASSUME NEW u \in 1 .. At(p).size, SectorOf(At(p), u) \in Lba \ {l}
               PROVE  Unit(sector', At(p), u) = Unit(sector, At(p), u)
    BY Zenon DEF Keeps
  <2>1. PICK y \in Lba : y = SectorOf(At(p), u)
    OBVIOUS
  <2>2. ASSUME NEW k \in 1 .. Len(ws), ws[k].lba = y, sector'[y] = ws[k].sector
        PROVE  Unit(sector', At(p), u) = Unit(sector, At(p), u)
    <3>1. ws[k].sector.data[OffsetOf(u)] = Unit(sector, At(p), u)
      BY <1>2, <2>1, <2>2, Zenon DEF Leaves
    <3> QED  BY <2>1, <2>2, <3>1, Zenon DEF Unit
  <2>3. CASE sector'[y] = sector[y]
    BY <2>1, <2>3, Zenon DEF Unit
  <2> QED  BY <1>12, <2>2, <2>3, Zenon
<1>15. Known' \in Nat /\ next <= Known'
  BY <1>3, <1>8, <1>9
<1> QED  BY <1>8, <1>11, <1>13, <1>14, <1>15, Zenon

\* They leave the tree alone.
LEMMA ScribblesTree ==
  ASSUME TypeOK, NEW D, Tree(sector, D, next), NEW p, NEW l, NEW i, NEW q,
         Scribbles(p, l, i, q), ~hurt'
  PROVE  ~hurt /\ \E E : Tree(sector', E, Known')
<1>1. ~hurt /\ Known' \in Nat /\ next <= Known' /\ next \in Nat
  BY ScribblesAll, TreeBelow, Zenon
<1>2. PICK t, known : t = sector' /\ known = Known' /\ \A d \in D : t[d].entries = sector[d].entries
  BY ScribblesAll, Zenon
<1>3. known \in Int /\ next \in Int /\ next <= known
  BY <1>1, <1>2
<1>4. Tree(t, D, known)
  BY <1>2, <1>3, TreeSame
<1> QED  BY <1>1, <1>2, <1>4, Zenon

\* Two tables written one after the other: both as they were, or both written.
LEMMA TwoWrites ==
  ASSUME TypeOK, NEW v \in Writes, NEW w \in Writes, v.lba \in Lba, w.lba \in Lba,
         v.lba # w.lba, Perform(<< v, w >>, TRUE), ~hurt'
  PROVE  /\ ~hurt /\ Known' \in Nat /\ next <= Known'
         /\ \A d \in Lba : d \notin {v.lba, w.lba} => sector'[d] = sector[d]
         /\ \/ sector'[v.lba] = sector[v.lba] /\ sector'[w.lba] = sector[w.lba]
            \/ sector'[v.lba] = v.sector /\ sector'[w.lba] = w.sector
<1>1. PICK ws \in Seq(Writes) : ws = << v, w >> /\ Len(ws) = 2 /\ ws[1] = v /\ ws[2] = w
  <2>1. << v, w >> \in Seq(Writes) /\ Len(<< v, w >>) = 2 /\ << v, w >>[1] = v /\ << v, w >>[2] = w
    OBVIOUS
  <2> QED  BY <2>1
<1>2. PICK done \in 0 .. Len(ws), stop \in BOOLEAN :
        \E K : K \subseteq 1 .. Len(ws) /\ Did(ws, TRUE, done, stop, K)
  <2>1. Perform(ws, TRUE)
    BY <1>1
  <2>2. PICK done \in 0 .. Len(ws), stop \in BOOLEAN, K \in SUBSET (1 .. Len(ws)) :
          Did(ws, TRUE, done, stop, K)
    BY <2>1, PerformDoes
  <2> QED  BY <2>2
<1>3. PICK K : K \subseteq 1 .. Len(ws) /\ Did(ws, TRUE, done, stop, K)
  BY <1>2
<1>4. ~hurt /\ done # 1 /\ Known' \in Nat /\ NextAfter(ws, done) <= Known'
  BY <1>3, KnownAfter
<1>5. v.lba # SUPER /\ w.lba # SUPER
  BY Constants
<1>6. done \in {0, 2} /\ \A k \in 1 .. done : k \in {1, 2}
  BY <1>1, <1>4
<1>7. NextAfter(ws, done) = next
  <2>1. ~\E k \in 1 .. done : ws[k].lba = SUPER
    BY <1>1, <1>5, <1>6
  <2> QED  BY <2>1 DEF NextAfter
<1>8. /\ OnDisk(ws, K) /\ K \subseteq 1 .. done
      /\ \A k \in 1 .. done : ws[k].lba # SUPER => k \in K
  BY <1>3, Zenon DEF Did
<1>9. ASSUME NEW d \in Lba
      PROVE  \/ (~\E k \in K : ws[k].lba = d) /\ sector'[d] = sector[d]
             \/ \E k \in K : ws[k].lba = d /\ sector'[d] = ws[k].sector
  <2>1. OnDisk(ws, K)
    BY <1>8
  <2> HIDE <1>2, <1>3, <1>8
  <2> QED  BY <2>1, SectorIs
<1>10. \A k \in K : k \in {1, 2}
  BY <1>6, <1>8
<1>11. \A d \in Lba : d \notin {v.lba, w.lba} => sector'[d] = sector[d]
  <2> TAKE d \in Lba
  <2> HAVE d \notin {v.lba, w.lba}
  <2>1. ~\E k \in K : ws[k].lba = d
    BY <1>1, <1>10
  <2> QED  BY <1>9, <2>1
<1>12. CASE done = 0
  <2>1. ~\E k \in K : TRUE
    BY <1>8, <1>12
  <2>2. sector'[v.lba] = sector[v.lba] /\ sector'[w.lba] = sector[w.lba]
    BY <1>9, <2>1
  <2> QED  BY <1>4, <1>7, <1>11, <2>2
<1>13. CASE done = 2
  <2>1. 1 \in K /\ 2 \in K
    BY <1>1, <1>5, <1>8, <1>13
  <2>2. sector'[v.lba] = v.sector
    <3>1. PICK k \in K : ws[k].lba = v.lba /\ sector'[v.lba] = ws[k].sector
      BY <1>1, <1>9, <2>1
    <3>2. k = 1
      BY <1>1, <1>10, <3>1
    <3> QED  BY <1>1, <3>1, <3>2
  <2>3. sector'[w.lba] = w.sector
    <3>1. PICK k \in K : ws[k].lba = w.lba /\ sector'[w.lba] = ws[k].sector
      BY <1>1, <1>9, <2>1
    <3>2. k = 2
      BY <1>1, <1>10, <3>1
    <3> QED  BY <1>1, <3>1, <3>2
  <2> QED  BY <1>4, <1>7, <1>11, <2>2, <2>3
<1> QED  BY <1>6, <1>12, <1>13

\* What a move leaves behind: the disk s when entry i of table l, e, has gone, and t when
\* slot j of table d has it.
Between(s, t, D, l, i, d, j, e) ==
  /\ l \in D /\ i \in Index /\ d \in D /\ j \in Index /\ d # l
  /\ e \in Entry /\ e.type = "file" /\ e = Ent(sector, << l, i >>) /\ << l, i >> \in Busy(sector, D)
  /\ Ent(sector, << d, j >>).type = "free" /\ Named(Table(d), e.name) = {}
  /\ \A b \in Lba : s[b].entries \in [Index -> Entry]
  /\ \A b \in D : b # l => s[b] = sector[b]
  /\ Patched(sector, s, D, l, i, NoEntry) /\ Patched(s, t, D, d, j, e)
  /\ Tree(s, D, next)

\* A file that is moved is as if it left one table before it is in the other.
LEMMA MovesBetween ==
  ASSUME TypeOK, NEW D, Tree(sector, D, next), NEW p, NEW l, NEW i, NEW d, NEW j,
         Moves(p, l, i, d, j), ~hurt'
  PROVE  /\ ~hurt /\ Known' \in Nat /\ next <= Known' /\ l \in D /\ d \in D
         /\ \A b \in Lba : b \notin {d, l} => sector'[b] = sector[b]
         /\ \/ \A b \in D : sector'[b].entries = sector[b].entries
            \/ \E s : Between(s, sector', D, l, i, d, j, At(p))
<1>1. /\ SlotAt(p, l, i) /\ OnWalk(d) /\ d \in Lba /\ d # l /\ j \in Index /\ At(p).type = "file"
      /\ Table(d)[j].type = "free" /\ Named(Table(d), At(p).name) = {}
  BY DEF Moves
<1>2. PICK v \in Writes, w \in Writes :
       /\ v.lba = d /\ v.sector.entries = [Table(d) EXCEPT ![j] = At(p)]
       /\ w.lba = l /\ w.sector.entries = [Table(l) EXCEPT ![i] = NoEntry]
       /\ Perform(<< v, w >>, TRUE)
  BY DEF Moves
<1>3. /\ D \subseteq Lba /\ next \in Nat /\ START <= next
      /\ \A x \in Busy(sector, D) : Span(Ent(sector, x)) \subseteq START .. next - 1
  BY TreeBelow
<1>4. /\ l \in D /\ i \in Index /\ << l, i >> \in Busy(sector, D)
      /\ At(p) = Ent(sector, << l, i >>) /\ At(p) \in Entry
  BY <1>1, WalksInTree
<1>5. d \in D
  BY <1>1, WalksInTree
<1>6. PICK e \in Entry : e = At(p) /\ e.type = "file" /\ e = Ent(sector, << l, i >>)
  BY <1>1, <1>4
<1>70. PICK t : t = sector'
  OBVIOUS
<1>7. /\ ~hurt /\ Known' \in Nat /\ next <= Known'
      /\ \A b \in Lba : b \notin {d, l} => t[b] = sector[b]
      /\ \/ t[d] = sector[d] /\ t[l] = sector[l]
         \/ t[d] = v.sector /\ t[l] = w.sector
  <2>1. l \in Lba
    BY <1>3, <1>4
  <2>2. /\ ~hurt /\ Known' \in Nat /\ next <= Known'
        /\ \A b \in Lba : b \notin {v.lba, w.lba} => sector'[b] = sector[b]
        /\ \/ sector'[v.lba] = sector[v.lba] /\ sector'[w.lba] = sector[w.lba]
           \/ sector'[v.lba] = v.sector /\ sector'[w.lba] = w.sector
    BY <1>1, <1>2, <2>1, TwoWrites
  <2> QED  BY <1>2, <1>70, <2>2
<1>8. CASE t[d] = sector[d] /\ t[l] = sector[l]
  <2>1. \A b \in D : t[b].entries = sector[b].entries
    BY <1>3, <1>7, <1>8
  <2> QED  BY <1>4, <1>5, <1>7, <1>70, <2>1, Zenon
<1>9. CASE t[d] = v.sector /\ t[l] = w.sector
  <2>1. PICK s : s = [b \in Lba |-> IF b = l THEN w.sector ELSE sector[b]]
    OBVIOUS
  <2>2. s[l] = w.sector /\ \A b \in D : b # l => s[b] = sector[b]
    BY <1>3, <1>4, <2>1
  <2>3. Patched(sector, s, D, l, i, NoEntry)
    BY <1>2, <2>2 DEF Patched, Table
  <2>4. \A b \in Lba : sector[b].entries \in [Index -> Entry]
    BY DEF TypeOK
  <2>5. Tree(s, D, next)
    <3>1. sector[l].entries \in [Index -> Entry] /\ next <= next /\ next \in Int
      BY <1>3, <1>4, <2>4
    <3> QED  BY <1>4, <2>3, <3>1, NoEntryIs, TreePut
  <2>6. Patched(s, t, D, d, j, e)
    <3>1. t[d].entries = [s[d].entries EXCEPT ![j] = e]
      BY <1>1, <1>2, <1>5, <1>6, <1>9, <2>2 DEF Table
    <3>2. ASSUME NEW b \in D, b # d PROVE t[b].entries = s[b].entries
      <4>1. CASE b = l
        BY <1>9, <2>2, <4>1
      <4>2. CASE b # l
        BY <1>3, <1>7, <2>2, <3>2, <4>2
      <4> QED  BY <4>1, <4>2
    <3> QED  BY <3>1, <3>2 DEF Patched
  <2>7. \A b \in Lba : s[b].entries \in [Index -> Entry]
    <3> TAKE b \in Lba
    <3>1. CASE b = l
      <4>1. w.sector.entries \in [Index -> Entry]
        BY <1>2, <1>3, <1>4, WriteParts
      <4> QED  BY <2>2, <3>1, <4>1
    <3>2. CASE b # l
      BY <2>1, <2>4, <3>2
    <3> QED  BY <3>1, <3>2
  <2>8. Ent(sector, << d, j >>).type = "free" /\ Named(Table(d), e.name) = {}
    BY <1>1, <1>6 DEF Ent, Table
  <2>9. Between(s, t, D, l, i, d, j, e)
    BY <1>1, <1>4, <1>5, <1>6, <2>2, <2>3, <2>5, <2>6, <2>7, <2>8, Zenon DEF Between
  <2> QED  BY <1>4, <1>5, <1>6, <1>7, <1>70, <2>9, Zenon
<1> QED  BY <1>7, <1>8, <1>9

\* A file that is moved: it leaves one table before it is in the other.
LEMMA MovesTree ==
  ASSUME TypeOK, NEW D, Tree(sector, D, next), NEW p, NEW l, NEW i, NEW d, NEW j,
         Moves(p, l, i, d, j), ~hurt'
  PROVE  ~hurt /\ \E E : Tree(sector', E, Known')
<1>1. /\ D \subseteq Lba /\ next \in Nat /\ START <= next
      /\ \A x \in Busy(sector, D) : Span(Ent(sector, x)) \subseteq START .. next - 1
  BY TreeBelow
<1>2. PICK t : t = sector'
  OBVIOUS
<1>3. PICK known, e :
        /\ known \in Nat /\ known = Known' /\ e = At(p) /\ ~hurt /\ next <= known
        /\ \/ \A b \in D : t[b].entries = sector[b].entries
           \/ \E s : Between(s, t, D, l, i, d, j, e)
  BY <1>2, MovesBetween, Zenon
<1>4. CASE \A b \in D : t[b].entries = sector[b].entries
  <2>1. Tree(t, D, known)
    BY <1>1, <1>3, <1>4, TreeSame
  <2> QED  BY <1>2, <1>3, <2>1
<1>5. ASSUME NEW s, Between(s, t, D, l, i, d, j, e) PROVE \E E : Tree(t, E, known)
  <2>1. /\ l \in D /\ i \in Index /\ d \in D /\ j \in Index /\ d # l
        /\ e \in Entry /\ e.type = "file" /\ e = Ent(sector, << l, i >>) /\ << l, i >> \in Busy(sector, D)
        /\ Named(Table(d), e.name) = {}
        /\ D \subseteq Lba /\ \A b \in Lba : s[b].entries \in [Index -> Entry]
        /\ \A b \in D : b # l => s[b] = sector[b]
        /\ Patched(sector, s, D, l, i, NoEntry) /\ Patched(s, t, D, d, j, e)
        /\ Tree(s, D, next)
    BY <1>1, <1>5, Zenon DEF Between
  <2>2. ASSUME NEW x \in Busy(s, D)
        PROVE  x \in Busy(sector, D) /\ Ent(s, x) = Ent(sector, x) /\ x # << l, i >>
    <3>1. PICK b \in D, k \in Index : x = << b, k >> /\ x[1] = b /\ x[2] = k
      BY DEF Busy
    <3>2. Ent(s, x).type # "free" /\ Ent(s, x) = s[b].entries[k]
      BY <2>2, <3>1 DEF Busy, Ent
    <3>3. CASE b # l
      <4>1. Ent(s, x) = Ent(sector, x)
        BY <2>1, <3>1, <3>2, <3>3 DEF Ent
      <4> QED  BY <3>1, <3>2, <3>3, <4>1 DEF Busy
    <3>4. CASE b = l
      <4>0. s[l].entries = [sector[l].entries EXCEPT ![i] = NoEntry] /\ sector[l].entries \in [Index -> Entry]
        BY <1>1, <2>1 DEF TypeOK, Patched
      <4>1. s[b].entries[k] = [sector[l].entries EXCEPT ![i] = NoEntry][k]
        BY <3>4, <4>0
      <4>2. [sector[l].entries EXCEPT ![i] = NoEntry][k]
              = IF k = i THEN NoEntry ELSE sector[l].entries[k]
        BY <2>1, <4>0
      <4>3. k # i
        BY <3>2, <4>1, <4>2, NoEntryIs
      <4>4. Ent(s, x) = Ent(sector, x)
        BY <3>1, <3>2, <3>4, <4>1, <4>2, <4>3 DEF Ent
      <4> QED  BY <3>1, <3>2, <3>4, <4>3, <4>4 DEF Busy
    <3> QED  BY <3>3, <3>4
  <2>3. Fits(s, D, known, d, j, e)
    <3>0. << l, i >> \in Busy(sector, D) /\ e = Ent(sector, << l, i >>) /\ e.type # "dir"
      BY <2>1
    <3>1. Span(e) \subseteq START .. next - 1 /\ Span(e) \cap D = {}
      BY <3>0 DEF Tree
    <3>2. Span(e) \subseteq START .. known - 1
      <4>1. \A y \in START .. next - 1 : y \in START .. known - 1
        <5>1. next \in Nat /\ known \in Nat /\ next <= known /\ START = 2
          BY <1>1, <1>3, Constants
        <5> QED  BY <5>1
      <4> QED  BY <3>1, <4>1
    <3>3. ASSUME NEW x \in Busy(s, D)
          PROVE  /\ Span(e) \cap Span(Ent(s, x)) = {}
                 /\ x[1] = d => Ent(s, x).name # e.name
      <4>1. x \in Busy(sector, D) /\ Ent(s, x) = Ent(sector, x) /\ x # << l, i >>
        BY <2>2
      <4>2. Span(e) \cap Span(Ent(s, x)) = {}
        BY <3>0, <4>1 DEF Tree
      <4>3. ASSUME x[1] = d, Ent(sector, x).name = e.name PROVE FALSE
        BY <2>1, <4>1, <4>3, NamesIn
      <4> QED  BY <4>1, <4>2, <4>3
    <3> QED  BY <2>1, <3>1, <3>2, <3>3 DEF Fits
  <2>4. s[d].entries \in [Index -> Entry]
    BY <2>1
  <2>5. Tree(t, D, known)
    BY <1>1, <1>3, <2>1, <2>3, <2>4, TreePut
  <2> QED  BY <2>5
<1> QED  BY <1>2, <1>3, <1>4, <1>5, Zenon

\* An entry with another name or size has the sectors that go with it.
LEMMA ChangedEntry ==
  ASSUME NEW e \in Entry, e.type # "free"
  PROVE  /\ \A n : LET f == [e EXCEPT !.name = n] IN
              f.name = n /\ f.type = e.type /\ f.start = e.start /\ Span(f) = Span(e)
         /\ \A z : LET f == [e EXCEPT !.size = z] IN
              f.name = e.name /\ f.type = e.type /\ f.start = e.start /\ f.size = z
<1>1. e \in [name : Names, type : {"file", "dir"}, start : START .. LIMIT - 1, size : 0 .. MaxSize]
  BY DEF Entry, NoEntry
<1>2. ASSUME NEW n
      PROVE  LET f == [e EXCEPT !.name = n] IN
               f.name = n /\ f.type = e.type /\ f.start = e.start /\ Span(f) = Span(e)
  <2>1. PICK f : f = [e EXCEPT !.name = n]
    OBVIOUS
  <2>2. f.name = n /\ f.type = e.type /\ f.start = e.start /\ f.size = e.size
    BY <1>1, <2>1
  <2>3. Span(f) = Span(e)
    BY <2>2 DEF Span
  <2> QED  BY <2>1, <2>2, <2>3
<1>3. ASSUME NEW z
      PROVE  LET f == [e EXCEPT !.size = z] IN
               f.name = e.name /\ f.type = e.type /\ f.start = e.start /\ f.size = z
  BY <1>1
<1> QED  BY <1>2, <1>3

\* A file that gets more units has its sectors and new ones.
LEMMA ExtendsSpan ==
  ASSUME TypeOK, NEW D, Tree(sector, D, next), NEW p, NEW l, NEW i, NEW size, NEW q, NEW m,
         Extends(p, l, i, size, q, m), NEW f, f = [At(p) EXCEPT !.size = size]
  PROVE  Span(f) \subseteq Span(At(p)) \cup (next .. m - 1) /\ m \in next .. LIMIT
<1>1. next \in Nat /\ START <= next
  BY TreeBelow
<1>2. /\ SlotAt(p, l, i) /\ At(p).type = "file" /\ size \in Nat
      /\ \/ Sectors(size) <= Sectors(At(p).size)
         \/ At(p).start + Sectors(At(p).size) = next /\ At(p).start + Sectors(size) <= m
      /\ Edits({q}, l, i, f, m)
  BY DEF Extends
<1>3. PICK e \in Entry : e = At(p) /\ e.type = "file"
  BY <1>2, WalksInTree
<1>4. f.type = "file" /\ f.start = e.start /\ f.size = size
  BY <1>3, ChangedEntry
<1>5. m \in next .. LIMIT
  <2>1. PICK ws : Settles(ws, {q}, l, [Table(l) EXCEPT ![i] = f], m)
    BY <1>2 DEF Edits
  <2> QED  BY <2>1 DEF Settles
<1>6. PICK a \in Nat : a = e.start
  <2>1. e.start \in Nat
    BY EntryParts
  <2> QED  BY <2>1, Zenon
<1>7. PICK ns \in Nat \ {0} : ns = Sectors(e.size)
  BY EntryParts, SectorsIsNat
<1>8. PICK nz \in Nat \ {0} : nz = Sectors(size)
  BY <1>2, SectorsIsNat
<1>9. Span(e) = a .. a + ns - 1 /\ Span(f) = a .. a + nz - 1
  BY <1>3, <1>4, <1>6, <1>7, <1>8 DEF Span
<1>10. CASE nz <= ns
  <2>1. Span(f) \subseteq Span(e)
    BY <1>9, <1>10
  <2> QED  BY <1>3, <1>5, <2>1
<1>11. CASE a + ns = next /\ a + nz <= m
  <2>1. m \in Int
    BY <1>1, <1>5, Constants
  <2>2. \A y \in a .. a + nz - 1 : y \in a .. a + ns - 1 \/ y \in next .. m - 1
    BY <1>1, <1>11, <2>1
  <2> QED  BY <1>3, <1>5, <1>9, <2>2
<1> QED  BY <1>2, <1>3, <1>6, <1>7, <1>8, <1>10, <1>11

\* What a call does leaves a tree.
LEMMA DoesTree ==
  ASSUME TypeOK, NEW D, Tree(sector, D, next), Does, ~hurt'
  PROVE  ~hurt /\ \E E : Tree(sector', E, Known')
<1>1. next \in Nat /\ START <= next
  BY TreeBelow
<1>2. ASSUME NEW l, NEW i, NEW f, Adds(l, i, f)
      PROVE  ~hurt /\ \E E : Tree(sector', E, Known')
  BY <1>2, AddsTree
<1>3. ASSUME NEW p, NEW l, NEW i, Removes(p, l, i)
      PROVE  ~hurt /\ \E E : Tree(sector', E, Known')
  <2>1. SlotAt(p, l, i) /\ Edits({}, l, i, NoEntry, next)
    BY <1>3 DEF Removes
  <2>2. NoEntry.type = "free" /\ {} \subseteq Span(At(p))
    BY NoEntryIs
  <2> QED  BY <2>1, <2>2, InPlaceTree
<1>4. ASSUME NEW p, NEW l, NEW i, NEW n, Renames(p, l, i, n)
      PROVE  ~hurt /\ \E E : Tree(sector', E, Known')
  <2>1. PICK f : f = [At(p) EXCEPT !.name = n]
    OBVIOUS
  <2>2. SlotAt(p, l, i) /\ Named(Table(l), n) \subseteq {i} /\ Edits({}, l, i, f, next)
    BY <1>4, <2>1 DEF Renames
  <2>3. At(p) \in Entry /\ At(p).type # "free"
    BY <2>2, WalksInTree
  <2>4. f.name = n /\ f.type = At(p).type /\ f.start = At(p).start /\ Span(f) = Span(At(p))
    BY <2>1, <2>3, ChangedEntry
  <2>5. Span(f) \subseteq Span(At(p)) \cup (next .. next - 1) /\ {} \subseteq Span(At(p))
    BY <2>4
  <2> QED  BY <2>2, <2>4, <2>5, InPlaceTree
<1>5. ASSUME NEW p, NEW l, NEW i, NEW size, NEW q, NEW m, Extends(p, l, i, size, q, m)
      PROVE  ~hurt /\ \E E : Tree(sector', E, Known')
  <2>1. PICK f : f = [At(p) EXCEPT !.size = size]
    OBVIOUS
  <2>2. /\ SlotAt(p, l, i) /\ At(p).type = "file" /\ size \in Nat /\ q \in Span(At(p))
        /\ \/ Sectors(size) <= Sectors(At(p).size)
           \/ At(p).start + Sectors(At(p).size) = next /\ At(p).start + Sectors(size) <= m
        /\ Edits({q}, l, i, f, m)
    BY <1>5, <2>1 DEF Extends
  <2>3. /\ l \in D /\ << l, i >> \in Busy(sector, D)
        /\ At(p) = Ent(sector, << l, i >>) /\ At(p) \in Entry /\ At(p).type # "free"
    BY <2>2, WalksInTree
  <2>4. PICK e \in Entry : e = At(p) /\ e.type = "file" /\ e = Ent(sector, << l, i >>)
    BY <2>2, <2>3
  <2>5. f.name = e.name /\ f.type = "file" /\ f.start = e.start /\ f.size = size
    BY <2>1, <2>3, <2>4, ChangedEntry
  <2>6. Named(Table(l), f.name) \subseteq {i}
    <3> SUFFICES ASSUME NEW y \in Named(Table(l), e.name), y # i PROVE FALSE
      BY <2>5
    <3>1. << l, y >> \in Busy(sector, D) /\ Ent(sector, << l, y >>).name = e.name
          /\ << l, y >>[1] = << l, i >>[1] /\ << l, y >> # << l, i >>
      BY <2>3 DEF Named, Busy, Ent, Table
    <3> QED  BY <2>3, <2>4, <3>1 DEF Tree
  <2>7. PICK z : z = m - 1
    OBVIOUS
  <2>8. Span(f) \subseteq Span(e) \cup (next .. z)
    BY <1>5, <2>1, <2>4, <2>7, ExtendsSpan, Zenon
  <2>9. {q} \subseteq Span(At(p)) /\ At(p).type # "dir"
    BY <2>2
  <2> QED  BY <2>2, <2>4, <2>5, <2>6, <2>7, <2>8, <2>9, InPlaceTree
<1>6. ASSUME NEW p, NEW l, NEW i, NEW q, Scribbles(p, l, i, q)
      PROVE  ~hurt /\ \E E : Tree(sector', E, Known')
  BY <1>6, ScribblesTree
<1>7. ASSUME NEW p, NEW l, NEW i, NEW d, NEW j, Moves(p, l, i, d, j)
      PROVE  ~hurt /\ \E E : Tree(sector', E, Known')
  BY <1>7, MovesTree
<1> QED  BY <1>2, <1>3, <1>4, <1>5, <1>6, <1>7, Zenon DEF Does

\* An empty root is a tree.
LEMMA EmptyTree ==
  ASSUME NEW s, NEW k, \A i \in Index : s[ROOT].entries[i].type = "free"
  PROVE  Tree(s, {ROOT}, k)
<1>1. Busy(s, {ROOT}) = {}
  BY DEF Busy, Ent
<1> QED  BY <1>1, Constants DEF Tree

\* Formatting an empty disk leaves it empty; stopping before the first write, as it is.
LEMMA FormatIs ==
  ASSUME TypeOK, Format, ~hurt'
  PROVE  /\ ~hurt
         /\ \/ Empty(ROOT) /\ \A i \in Index : sector'[ROOT].entries[i].type = "free"
            \/ super' = super /\ mounted' = FALSE /\ \A l \in Lba : sector'[l] = sector[l]
<1>1. PICK K \in SUBSET (1 .. 2), stop \in BOOLEAN :
        /\ OnDisk(<<ToSuper(START), [lba |-> ROOT, sector |-> Blank]>>, K)
        /\ mounted' = ~stop
        /\ next' = START
        /\ hurt' = (hurt \/ (~Empty(ROOT) /\ ~(stop /\ K = {})))
  BY Zenon DEF Format
<1>2. PICK ws : ws = <<ToSuper(START), [lba |-> ROOT, sector |-> Blank]>>
  OBVIOUS
<1>3. OnDisk(ws, K)
  BY <1>1, <1>2
<1>4. ~hurt /\ (Empty(ROOT) \/ (stop /\ K = {}))
  BY <1>1, Zenon
<1>5. CASE Empty(ROOT)
  <2>1. \A k \in {1, 2} : ws[k].lba = ROOT => ws[k].sector = Blank
    BY <1>2, Constants DEF ToSuper
  <2>2. sector'[ROOT] = sector[ROOT] \/ sector'[ROOT] = Blank
    <3>1. PICK L : L \subseteq {1, 2} /\ OnDisk(ws, L)
      <4>1. 1 .. 2 = {1, 2}
        OBVIOUS
      <4> QED  BY <1>3, <4>1
    <3>2. ROOT \in Lba
      BY Constants
    <3>3. \/ (~\E k \in L : ws[k].lba = ROOT) /\ sector'[ROOT] = sector[ROOT]
          \/ \E k \in L : ws[k].lba = ROOT /\ sector'[ROOT] = ws[k].sector
      <4>1. PICK l \in Lba : l = ROOT
        BY <3>2
      <4>2. OnDisk(ws, L)
        BY <3>1
      <4> HIDE <3>1
      <4>3. \/ (~\E k \in L : ws[k].lba = l) /\ sector'[l] = sector[l]
            \/ \E k \in L : ws[k].lba = l /\ sector'[l] = ws[k].sector
        BY <4>2, SectorIs
      <4> QED  BY <4>1, <4>3
    <3> QED  BY <2>1, <3>1, <3>3
  <2>3. \A i \in Index : sector'[ROOT].entries[i].type = "free"
    <3>1. \A i \in Index : sector[ROOT].entries[i].type = "free"
      BY <1>5 DEF Empty, Table
    <3>2. \A i \in Index : Blank.entries[i].type = "free"
      <4>1. \A i \in Index : Blank.entries[i] = NoEntry
        BY DEF Blank
      <4> QED  BY <4>1, NoEntryIs
    <3> QED  BY <2>2, <3>1, <3>2
  <2> QED  BY <1>4, <1>5, <2>3
<1>6. CASE stop /\ K = {}
  <2>1. super' = super /\ sector' = [l \in Lba |-> sector[l]] /\ mounted' = FALSE
    BY <1>1, <1>3, <1>6 DEF OnDisk
  <2>2. \A l \in Lba : sector'[l] = sector[l]
    BY <2>1
  <2> QED  BY <1>4, <2>1, <2>2, Zenon
<1> QED  BY <1>4, <1>5, <1>6

\* Booting leaves a tree.
LEMMA BootTree ==
  ASSUME TypeOK, TreeInv, ~mounted, Mount \/ Format
  PROVE  TreeInv'
<1> SUFFICES ASSUME ~hurt' PROVE \E E : Tree(sector', E, Known')
  BY DEF TreeInv
<1>1. CASE Mount
  <2>1. super' = super /\ sector' = sector /\ hurt' = hurt /\ mounted' = TRUE /\ next' = super
    BY <1>1 DEF Mount, diskVars
  <2>2. Known' = Known
    BY <2>1 DEF Known
  <2>3. PICK D : Tree(sector, D, Known)
    BY <2>1 DEF TreeInv
  <2> QED  BY <2>1, <2>2, <2>3
<1>2. CASE Format
  <2>1. PICK t, k : t = sector' /\ k = Known'
    OBVIOUS
  <2>2. /\ ~hurt
        /\ \/ \A i \in Index : t[ROOT].entries[i].type = "free"
           \/ super' = super /\ mounted' = FALSE /\ \A l \in Lba : t[l] = sector[l]
    BY <1>2, <2>1, FormatIs, Zenon
  <2>3. CASE \A i \in Index : t[ROOT].entries[i].type = "free"
    <3>1. Tree(t, {ROOT}, k)
      BY <2>3, EmptyTree
    <3> QED  BY <2>1, <3>1
  <2>4. CASE super' = super /\ mounted' = FALSE /\ \A l \in Lba : t[l] = sector[l]
    <3>1. k = Known /\ k \in Int
      BY <2>1, <2>4, Constants DEF Known, TypeOK
    <3>2. PICK D : Tree(sector, D, k)
      BY <2>2, <3>1 DEF TreeInv
    <3>3. \A d \in D : t[d].entries = sector[d].entries
      BY <2>4, <3>2 DEF Tree
    <3>4. Tree(t, D, k)
      BY <3>1, <3>2, <3>3, TreeSame
    <3> QED  BY <2>1, <3>4
  <2> QED  BY <2>2, <2>3, <2>4
<1> QED  BY <1>1, <1>2

\* A disk that is hurt remains so.
LEMMA DoesHurt ==
  ASSUME Does, ~hurt'
  PROVE  ~hurt
<1>1. PICK ws \in Seq(Writes), twice \in BOOLEAN : Perform(ws, twice)
  BY DoesPerforms
<1>2. PICK done \in 0 .. Len(ws), stop \in BOOLEAN, K \in SUBSET (1 .. Len(ws)) :
        Did(ws, twice, done, stop, K)
  BY <1>1, PerformDoes
<1> QED  BY <1>2, Zenon DEF Did

\* The disk holds a tree, until it is hurt.
LEMMA TreeInvariant == Spec => [](SafeInv /\ TreeInv)
<1>1. Init => TreeInv
  <2> SUFFICES ASSUME Init PROVE TreeInv
    OBVIOUS
  <2>1. \A i \in Index : sector[ROOT].entries[i].type = "free"
    <3>1. sector[ROOT] = Blank
      BY Constants DEF Init
    <3>2. \A i \in Index : Blank.entries[i] = NoEntry
      BY DEF Blank
    <3> QED  BY <3>1, <3>2, NoEntryIs
  <2>2. PICK s, k : s = sector /\ k = Known
    OBVIOUS
  <2>3. Tree(s, {ROOT}, k)
    BY <2>1, <2>2, EmptyTree
  <2> QED  BY <2>2, <2>3 DEF TreeInv
<1>2. SafeInv /\ TreeInv /\ [Next]_vars => TreeInv'
  <2> SUFFICES ASSUME SafeInv, TreeInv, [Next]_vars, ~hurt'
               PROVE  \E E : Tree(sector', E, Known')
    BY DEF TreeInv
  <2>1. TypeOK /\ DevReserved /\ saving \in Path \cup {<< >>}
    BY DEF SafeInv
  <2>2. ASSUME mounted, Does PROVE \E E : Tree(sector', E, Known')
    <3>1. ~hurt
      BY <2>2, DoesHurt
    <3>2. Known = next
      BY <2>2 DEF Known
    <3>3. PICK D : Tree(sector, D, next)
      BY <3>1, <3>2 DEF TreeInv
    <3> QED  BY <2>1, <2>2, <3>3, DoesTree
  <2>3. ASSUME super' = super, sector' = sector, hurt' = hurt, mounted' = mounted, next' = next
        PROVE  \E E : Tree(sector', E, Known')
    <3>1. Known' = Known
      BY <2>3 DEF Known
    <3> QED  BY <2>3, <3>1 DEF TreeInv
  <2>4. CASE Boot
    <3>1. ~mounted /\ (Mount \/ Format)
      BY <2>4 DEF Boot
    <3>2. TreeInv'
      BY <2>1, <3>1, BootTree
    <3> QED  BY <3>2 DEF TreeInv
  <2>5. CASE mounted /\ PowerOff
    <3>1. super' = super /\ sector' = sector /\ mounted' = FALSE /\ hurt' = (hurt \/ super < next)
      BY <2>5 DEF PowerOff, diskVars
    <3>2. ~hurt /\ ~(super < next)
      BY <3>1, Zenon
    <3>3. PICK n \in Nat, k \in Nat : n = next /\ k = super /\ n <= k
      <4>1. next \in Nat /\ super \in Nat
        BY <2>1, Constants DEF TypeOK
      <4> QED  BY <3>2, <4>1
    <3>4. Known = n /\ Known' = k
      BY <2>5, <3>1, <3>3 DEF Known
    <3>5. PICK D : Tree(sector, D, n)
      BY <3>2, <3>4 DEF TreeInv
    <3>6. Tree(sector, D, k)
      BY <3>3, <3>5, TreeSame
    <3> QED  BY <3>1, <3>4, <3>6
  <2>6. CASE mounted /\ Call
    BY <2>1, <2>2, <2>6, CallDoes
  <2>7. ASSUME mounted, NEW p \in Path, SaveDelete(p) PROVE \E E : Tree(sector', E, Known')
    BY <2>1, <2>2, <2>7, CallDoes
  <2>8. ASSUME mounted, saving # << >>, NEW s \in Piece, SaveCreate(s)
        PROVE  \E E : Tree(sector', E, Known')
    <3>1. Does \/ UNCHANGED <<diskVars, mounted, next, hurt>>
      BY <2>1, <2>8, CallDoes
    <3>2. CASE UNCHANGED <<diskVars, mounted, next, hurt>>
      <4>1. super' = super /\ sector' = sector /\ mounted' = mounted /\ next' = next /\ hurt' = hurt
        BY <3>2 DEF diskVars
      <4> QED  BY <2>3, <4>1
    <3> QED  BY <2>2, <2>8, <3>1, <3>2
  <2>9. CASE UNCHANGED vars
    <3>1. super' = super /\ sector' = sector /\ mounted' = mounted /\ next' = next /\ hurt' = hurt
      BY <2>9 DEF vars
    <3> QED  BY <2>3, <3>1
  <2>10. \/ Boot \/ (mounted /\ PowerOff) \/ (mounted /\ Call)
         \/ (mounted /\ \E p \in Path : SaveDelete(p))
         \/ (mounted /\ saving # << >> /\ \E s \in Piece : SaveCreate(s))
         \/ UNCHANGED vars
    BY Zenon DEF Next
  <2> QED  BY <2>4, <2>5, <2>6, <2>7, <2>8, <2>9, <2>10, Zenon
<1> QED  BY <1>1, <1>2, SafeInvariant, PTL DEF Spec

----------------------------------------------------------------------------
(* What the paths lead to.                                                 *)

\* What the paths lead to is reached step by step, within a set of listings that the
\* root's is one of and that going deeper does not lead out of.
LiveFrom(up) == /\ Live = up[MaxDepth] /\ up[0] = Listing(<< >>, ROOT)
                /\ \A n \in 0 .. MaxDepth : n # 0 => up[n] = Deeper(up[n - 1])

\* There are such steps.
LEMMA LiveRuns ==
  ASSUME NEW G, Listing(<< >>, ROOT) \in G, \A A \in G : Deeper(A) \in G
  PROVE  \E up : LiveFrom(up)
<1> DEFINE N == MaxDepth
           first == Listing(<< >>, ROOT)
           step == [n \in 1 .. N |-> [A \in G |-> Deeper(A)]]
           IsUpTo(f) == f = [n \in 0 .. N |-> IF n = 0 THEN first ELSE Deeper(f[n - 1])]
<1>1. N \in Nat /\ first \in G
  BY FSAssumption
<1>2. step \in [1 .. N -> [G -> G]]
  OBVIOUS
<1> HIDE DEF N, first
<1>3. PICK f : Stepped(G, N, first, step, f)
  <2> HIDE DEF step
  <2>1. Steps(G, N, first, step)
    BY <1>1, <1>2 DEF Steps
  <2> QED  BY <2>1, Iterates
<1>4. f = [n \in 0 .. N |-> f[n]] /\ f[0] = first /\ \A n \in 0 .. N : f[n] \in G
  <2> HIDE DEF step
  <2> QED  BY <1>3 DEF Stepped
<1>5. \A n \in 1 .. N : f[n] = Deeper(f[n - 1])
  <2> TAKE n \in 1 .. N
  <2>1. n - 1 \in 0 .. N
    BY <1>1
  <2>2. f[n - 1] \in G
    BY <1>4, <2>1
  <2>3. f[n] = step[n][f[n - 1]]
    <3> HIDE DEF step
    <3> QED  BY <1>3 DEF Stepped
  <2> QED  BY <2>2, <2>3
<1>6. IsUpTo(f)
  <2> DEFINE h == [n \in 0 .. N |-> IF n = 0 THEN first ELSE Deeper(f[n - 1])]
  <2>1. \A n \in 0 .. N : f[n] = h[n]
    <3> TAKE n \in 0 .. N
    <3>1. n = 0 \/ n \in 1 .. N
      BY <1>1
    <3> QED  BY <1>4, <1>5, <3>1
  <2>2. h = [n \in 0 .. N |-> h[n]]
    OBVIOUS
  <2>3. f = h
    <3> HIDE DEF h
    <3> QED  BY <1>4, <2>1, <2>2
  <2> QED  BY <2>3
<1>7. PICK up : IsUpTo(up) /\ Live = up[N]
  <2> HIDE DEF step
  <2> QED  BY <1>6 DEF Live, N, first
<1>8. \A n \in 0 .. N : up[n] = IF n = 0 THEN first ELSE Deeper(up[n - 1])
  <2> DEFINE h == [n \in 0 .. N |-> IF n = 0 THEN first ELSE Deeper(up[n - 1])]
  <2>1. up = h
    BY <1>7
  <2>2. \A n \in 0 .. N : h[n] = IF n = 0 THEN first ELSE Deeper(up[n - 1])
    OBVIOUS
  <2> HIDE DEF h
  <2> QED  BY <2>1, <2>2
<1>9. 0 \in 0 .. N
  BY <1>1
<1>10. LiveFrom(up)
  BY <1>7, <1>8, <1>9, Zenon DEF LiveFrom, N, first
<1> QED  BY <1>10

\* What holds of the root's listing, and of what is one step deeper, holds of all.
LEMMA LiveStays ==
  ASSUME NEW G, Listing(<< >>, ROOT) \in G, \A A \in G : Deeper(A) \in G
  PROVE  Live \in G
<1>1. PICK N \in Nat : N = MaxDepth
  BY FSAssumption
<1>2. PICK up : LiveFrom(up)
  BY LiveRuns
<1>3. Live = up[N] /\ up[0] \in G /\ \A n \in 0 .. N : n # 0 => up[n] = Deeper(up[n - 1])
  BY <1>1, <1>2, Zenon DEF LiveFrom
<1> DEFINE H == { n \in Nat : n <= N => up[n] \in G }
<1>4. 0 \in H
  BY <1>3
<1>5. \A n \in Nat : n \in H => n + 1 \in H
  <2> TAKE n \in Nat
  <2> HAVE n \in H
  <2> SUFFICES ASSUME n + 1 <= N PROVE up[n + 1] \in G
    OBVIOUS
  <2>1. up[n] \in G /\ n + 1 \in 0 .. N /\ n + 1 # 0 /\ (n + 1) - 1 = n
    OBVIOUS
  <2>2. up[n + 1] = Deeper(up[n])
    BY <1>3, <2>1
  <2> QED  BY <2>1, <2>2
<1>6. N \in H
  <2> HIDE DEF H
  <2> QED  BY <1>1, <1>4, <1>5, EveryNat
<1> QED  BY <1>3, <1>6

Items == [path : Seq(Names), lba : Lba, slot : Index]
Place(x) == << x.lba, x.slot >>

\* An item is an entry of the tree, at a path of its own or under a directory of A.
Stands(x, D)   == x \in Items /\ x.lba \in D /\ Place(x) \in Busy(sector, D) /\ x.path # << >>
From(x, p, l)  == x.lba = l /\ x.path = Append(p, EntryAt(x).name)
Under(x, y)    == EntryAt(y).type = "dir" /\ From(x, y.path, EntryAt(y).start)
Grows(A, D)    == \A x \in A : /\ Stands(x, D)
                               /\ From(x, << >>, ROOT) \/ \E y \in A : Under(x, y)

\* A sequence with one more element is one of the same set, and not empty; two are the
\* same only if what they were made from is.
Longer(w, u, a) == w = Append(u, a)
Sound(w, S) == w \in Seq(S) /\ w # << >>
Alike(u, a, v, b) == u = v /\ a = b
Ends(w, u, a) == Len(w) = Len(u) + 1 /\ w[Len(u) + 1] = a /\ \A i \in 1 .. Len(u) : w[i] = u[i]

\* What an appended element makes of a sequence.
LEMMA LongerIs ==
  ASSUME NEW S, NEW u \in Seq(S), NEW a \in S, NEW w, Longer(w, u, a)
  PROVE  Sound(w, S) /\ Ends(w, u, a)
<1>1. PICK n \in Nat : n = Len(u)
  OBVIOUS
<1>2. w \in Seq(S) /\ Len(w) = n + 1
  BY <1>1 DEF Longer
<1>3. PICK m : m = Len(w)
  OBVIOUS
<1>4. w # << >>
  <2>1. m # 0
    BY <1>2, <1>3
  <2>2. Len(<< >>) = 0
    OBVIOUS
  <2> SUFFICES ASSUME w = << >> PROVE FALSE
    OBVIOUS
  <2>3. Len(w) = 0
    BY <2>2, Zenon
  <2> QED  BY <1>3, <2>1, <2>3, Zenon
<1>5. w[n + 1] = a /\ \A i \in 1 .. n : w[i] = u[i]
  BY <1>1 DEF Longer
<1> QED  BY <1>1, <1>2, <1>4, <1>5, Zenon DEF Sound, Ends

\* Two sequences an element was appended to are the same only if both parts were.
LEMMA SameAppended ==
  ASSUME NEW S, NEW u \in Seq(S), NEW v \in Seq(S), NEW a \in S, NEW b \in S, NEW w,
         Longer(w, u, a), Longer(w, v, b)
  PROVE  Alike(u, a, v, b)
<1>1. PICK m \in Nat, n \in Nat : m = Len(u) /\ n = Len(v)
  OBVIOUS
<1>2. Ends(w, u, a) /\ Ends(w, v, b)
  BY LongerIs, Zenon
<1>3. Len(w) = m + 1 /\ w[m + 1] = a /\ \A i \in 1 .. m : w[i] = u[i]
  BY <1>1, <1>2, Zenon DEF Ends
<1>4. Len(w) = n + 1 /\ w[n + 1] = b /\ \A i \in 1 .. n : w[i] = v[i]
  BY <1>1, <1>2, Zenon DEF Ends
<1>5. m = n
  <2>1. PICK k : k = Len(w)
    OBVIOUS
  <2>2. k = m + 1
    BY <1>3, <2>1, Zenon
  <2>3. k = n + 1
    BY <1>4, <2>1, Zenon
  <2> QED  BY <2>2, <2>3
<1>6. \A i \in 1 .. m : u[i] = v[i]
  BY <1>3, <1>4, <1>5
<1>7. u = v
  <2>1. Len(u) = Len(v)
    BY <1>1, <1>5, Zenon
  <2>2. \A i \in 1 .. Len(u) : u[i] = v[i]
    BY <1>1, <1>6, Zenon
  <2> QED  BY <2>1, <2>2, SeqEqual, Zenon
<1> QED  BY <1>3, <1>4, <1>5, <1>7 DEF Alike

\* An item of a table's listing is one of its entries, at the table's path and its name.
LEMMA ListedIs ==
  ASSUME TypeOK, NEW D, NEW k, Tree(sector, D, k), NEW p \in Seq(Names), NEW l \in D,
         NEW x \in Listing(p, l)
  PROVE  Stands(x, D) /\ From(x, p, l)
<1>1. PICK i \in Index \ FreeIn(Table(l)) :
        x = [path |-> Append(p, Table(l)[i].name), lba |-> l, slot |-> i]
  BY DEF Listing
<1>2. i \in Index /\ Table(l)[i].type # "free"
  BY <1>1 DEF FreeIn
<1>3. l \in Lba
  BY DEF Tree
<1>4. Table(l)[i] \in Entry
  BY <1>2, <1>3, TableIs
<1>5. Table(l)[i].name \in Names
  BY <1>4, EntryParts
<1>6. PICK path \in Seq(Names) : path = Append(p, Table(l)[i].name) /\ path # << >>
  <2>1. PICK n \in Names : n = Table(l)[i].name
    BY <1>5, Zenon
  <2>2. Longer(Append(p, n), p, n)
    BY Zenon DEF Longer
  <2>3. Sound(Append(p, n), Names)
    BY <2>2, LongerIs, Zenon
  <2> QED  BY <2>1, <2>3, Zenon DEF Sound
<1>7. x = [path |-> path, lba |-> l, slot |-> i]
  BY <1>1, <1>6
<1>8. x \in Items /\ x.lba = l /\ x.slot = i /\ x.path = path
  BY <1>2, <1>3, <1>7 DEF Items
<1>9. EntryAt(x) = Table(l)[i]
  BY <1>8 DEF EntryAt
<1>10. Place(x) = << l, i >>
  BY <1>8 DEF Place
<1>11. << l, i >> \in Busy(sector, D)
  BY <1>2 DEF Busy, Ent, Table
<1> QED  BY <1>6, <1>8, <1>9, <1>10, <1>11 DEF Stands, From

\* The entry an item stands for.
LEMMA ItemIs ==
  ASSUME TypeOK, NEW D, NEW k, Tree(sector, D, k), NEW x, Stands(x, D)
  PROVE  /\ EntryAt(x) = Ent(sector, Place(x)) /\ EntryAt(x) \in Entry
         /\ EntryAt(x).type # "free" /\ EntryAt(x).name \in Names
         /\ Place(x) \in Busy(sector, D)
         /\ EntryAt(x).type = "dir" =>
              EntryAt(x).start \in D /\ EntryAt(x).start # ROOT
              /\ EntryAt(x).start \in Span(EntryAt(x))
<1>1. x.lba \in Lba /\ x.slot \in Index /\ Place(x) \in Busy(sector, D)
  BY DEF Stands, Items
<1>2. EntryAt(x) = Ent(sector, Place(x)) /\ EntryAt(x) = Table(x.lba)[x.slot]
  BY DEF EntryAt, Ent, Place, Table
<1>3. EntryAt(x) \in Entry
  BY <1>1, <1>2, TableIs
<1>4. EntryAt(x).type # "free"
  BY <1>1, <1>2 DEF Busy
<1>5. EntryAt(x).type = "dir" => EntryAt(x).start \in D
  BY <1>1, <1>2 DEF Tree
<1>6. EntryAt(x).start \in Span(EntryAt(x))
  BY <1>3, <1>4, SpanIs
<1>7. EntryAt(x).start # ROOT
  <2>1. Span(EntryAt(x)) \subseteq START .. k - 1
    BY <1>1, <1>2 DEF Tree
  <2> QED  BY <1>6, <2>1, Constants DEF START, ROOT
<1>8. EntryAt(x).name \in Names
  BY <1>3, EntryParts
<1> QED  BY <1>1, <1>2, <1>3, <1>4, <1>5, <1>6, <1>7, <1>8

\* The listings that grow from the root's.
Grown(D) == { A \in SUBSET Items : Grows(A, D) }

\* Going deeper does not lead out of them.
LEMMA GrownDeeper ==
  ASSUME TypeOK, NEW D, NEW k, Tree(sector, D, k)
  PROVE  Listing(<< >>, ROOT) \in Grown(D) /\ \A A \in Grown(D) : Deeper(A) \in Grown(D)
<1> DEFINE G == { A \in SUBSET Items : Grows(A, D) }
<1>1. << >> \in Seq(Names)
  OBVIOUS
<1>2. ROOT \in D
  BY DEF Tree
<1>3. Listing(<< >>, ROOT) \in G
  <2>1. \A x \in Listing(<< >>, ROOT) : Stands(x, D) /\ From(x, << >>, ROOT)
    BY <1>1, <1>2, ListedIs
  <2>2. Listing(<< >>, ROOT) \subseteq Items
    BY <2>1 DEF Stands
  <2> QED  BY <2>1, <2>2 DEF Grows
<1>4. ASSUME NEW A \in G PROVE Deeper(A) \in G
  <2>1. A \subseteq Deeper(A)
    BY DEF Deeper
  <2>2. ASSUME NEW x \in Deeper(A)
        PROVE  Stands(x, D) /\ (From(x, << >>, ROOT) \/ \E y \in Deeper(A) : Under(x, y))
    <3>1. CASE x \in A
      BY <2>1, <3>1 DEF Grows
    <3>2. CASE x \notin A
      <4>1. PICK y \in A : EntryAt(y).type = "dir" /\ x \in Listing(y.path, EntryAt(y).start)
        BY <3>2 DEF Deeper
      <4>2. Stands(y, D)
        BY DEF Grows
      <4>3. y.path \in Seq(Names)
        BY <4>2 DEF Stands, Items
      <4>4. EntryAt(y).start \in D
        BY <4>1, <4>2, ItemIs
      <4>5. Stands(x, D) /\ From(x, y.path, EntryAt(y).start)
        BY <4>1, <4>3, <4>4, ListedIs
      <4>6. Under(x, y)
        BY <4>1, <4>5 DEF Under
      <4> QED  BY <2>1, <4>5, <4>6
    <3> QED  BY <3>1, <3>2
  <2>3. Deeper(A) \subseteq Items
    BY <2>2 DEF Stands
  <2> QED  BY <2>2, <2>3 DEF Grows
<1>5. G = Grown(D)
  BY Zenon DEF Grown
<1> HIDE DEF G
<1> QED  BY <1>3, <1>4, <1>5, Zenon

\* All that the paths lead to are entries of the tree, under directories they lead to.
LEMMA LiveGrows ==
  ASSUME TypeOK, NEW D, NEW k, Tree(sector, D, k)
  PROVE  Grows(Live, D)
<1>1. PICK G : G = Grown(D)
  OBVIOUS
<1>2. Listing(<< >>, ROOT) \in G /\ \A A \in G : Deeper(A) \in G
  BY <1>1, GrownDeeper, Zenon
<1>3. Live \in G
  BY <1>2, LiveStays, Zenon
<1> QED  BY <1>1, <1>3, Zenon DEF Grown

\* Two items of a tree that stand for the same entry, or are at the same path.
Same(x, y) == Place(x) = Place(y) <=> x.path = y.path

\* An item at the root's table and one under a directory are apart; two at the root are
\* the same entry or have different names.
LEMMA AtRoot ==
  ASSUME TypeOK, NEW D, NEW k, Tree(sector, D, k), NEW A, Grows(A, D),
         NEW x \in A, NEW y \in A, From(x, << >>, ROOT)
  PROVE  Same(x, y)
<1>1. Stands(x, D) /\ Stands(y, D)
  BY DEF Grows
<1>2. x.lba = ROOT /\ x.path = Append(<< >>, EntryAt(x).name)
  BY DEF From
<1>3. PICK a \in Names : a = EntryAt(x).name
  BY <1>1, ItemIs
<1>4. Len(x.path) = 1
  BY <1>2, <1>3
<1>5. CASE From(y, << >>, ROOT)
  <2>1. y.lba = ROOT /\ y.path = Append(<< >>, EntryAt(y).name)
    BY <1>5 DEF From
  <2>2. PICK b \in Names : b = EntryAt(y).name
    BY <1>1, ItemIs
  <2>3. x.path = y.path => a = b
    <3>1. x.path = Append(<< >>, a) /\ y.path = Append(<< >>, b)
      BY <1>2, <1>3, <2>1, <2>2
    <3> QED  BY <3>1
  <2>4. Place(x) = Place(y) => x.path = y.path
    <3> SUFFICES ASSUME Place(x) = Place(y) PROVE x.path = y.path
      OBVIOUS
    <3>1. EntryAt(x) = EntryAt(y)
      BY <1>1, ItemIs
    <3> QED  BY <1>2, <2>1, <3>1
  <2>5. x.path = y.path => Place(x) = Place(y)
    <3> SUFFICES ASSUME x.path = y.path, Place(x) # Place(y) PROVE FALSE
      OBVIOUS
    <3>1. Place(x) \in Busy(sector, D) /\ Place(y) \in Busy(sector, D)
          /\ Place(x)[1] = Place(y)[1]
      BY <1>1, <1>2, <2>1, ItemIs DEF Place
    <3>2. Ent(sector, Place(x)).name # Ent(sector, Place(y)).name
      BY <3>1 DEF Tree
    <3>3. EntryAt(x).name # EntryAt(y).name
      BY <1>1, <3>2, ItemIs
    <3> QED  BY <1>3, <2>2, <2>3, <3>3
  <2> QED  BY <2>4, <2>5 DEF Same
<1>6. CASE \E z \in A : Under(y, z)
  <2>1. PICK z \in A : EntryAt(z).type = "dir" /\ From(y, z.path, EntryAt(z).start)
    BY <1>6 DEF Under
  <2>2. Stands(z, D)
    BY DEF Grows
  <2>3. EntryAt(z).start # ROOT
    BY <2>1, <2>2, ItemIs
  <2>4. Place(x) # Place(y)
    BY <1>2, <2>1, <2>3 DEF Place, From
  <2>5. x.path # y.path
    <3>1. z.path \in Seq(Names) /\ z.path # << >>
      BY <2>2 DEF Stands, Items
    <3>2. PICK b \in Names : b = EntryAt(y).name
      BY <1>1, ItemIs
    <3>3. y.path = Append(z.path, b)
      BY <2>1, <3>2 DEF From
    <3>4. Len(y.path) = Len(z.path) + 1 /\ Len(z.path) \in Nat /\ Len(z.path) # 0
      BY <3>1, <3>3
    <3>5. PICK m, n : m = Len(x.path) /\ n = Len(y.path)
      OBVIOUS
    <3>6. m # n
      BY <1>4, <3>4, <3>5
    <3> QED  BY <3>5, <3>6
  <2> QED  BY <2>4, <2>5 DEF Same
<1> QED  BY <1>5, <1>6 DEF Grows

\* Two items under directories: if these are the same or apart, so are the items.
LEMMA UnderTwo ==
  ASSUME TypeOK, NEW D, NEW k, Tree(sector, D, k), NEW A, Grows(A, D),
         NEW x \in A, NEW y \in A, NEW z \in A, NEW w \in A,
         Under(x, z), Under(y, w), Same(z, w)
  PROVE  Same(x, y)
<1>1. Stands(x, D) /\ Stands(y, D) /\ Stands(z, D) /\ Stands(w, D)
  BY DEF Grows
<1>2. PICK a \in Names, b \in Names : a = EntryAt(x).name /\ b = EntryAt(y).name
  <2>1. EntryAt(x).name \in Names /\ EntryAt(y).name \in Names
    BY <1>1, ItemIs
  <2> QED  BY <2>1
<1>3. z.path \in Seq(Names) /\ w.path \in Seq(Names)
  BY <1>1 DEF Stands, Items
<1>4. x.path = Append(z.path, a) /\ y.path = Append(w.path, b)
  BY <1>2 DEF Under, From
<1>5. /\ EntryAt(z).type = "dir" /\ EntryAt(w).type = "dir"
      /\ x.lba = EntryAt(z).start /\ y.lba = EntryAt(w).start
  BY DEF Under, From
<1>6. Place(x) = Place(y) => x.path = y.path
  <2> SUFFICES ASSUME Place(x) = Place(y) PROVE x.path = y.path
    OBVIOUS
  <2>1. a = b
    <3>1. EntryAt(x) = EntryAt(y)
      BY <1>1, ItemIs
    <3> QED  BY <1>2, <3>1
  <2>2. EntryAt(z).start = EntryAt(w).start
    BY <1>5 DEF Place
  <2>3. Place(z) = Place(w)
    <3>1. /\ Place(z) \in Busy(sector, D) /\ Place(w) \in Busy(sector, D)
          /\ EntryAt(z) = Ent(sector, Place(z)) /\ EntryAt(w) = Ent(sector, Place(w))
      BY <1>1, ItemIs
    <3>2. EntryAt(z).start \in Span(EntryAt(z)) /\ EntryAt(w).start \in Span(EntryAt(w))
      BY <1>1, <1>5, ItemIs
    <3>3. Span(EntryAt(z)) \cap Span(EntryAt(w)) # {}
      BY <2>2, <3>2
    <3> QED  BY <3>1, <3>3 DEF Tree
  <2>4. z.path = w.path
    BY <2>3 DEF Same
  <2> QED  BY <1>4, <2>1, <2>4
<1>7. x.path = y.path => Place(x) = Place(y)
  <2> SUFFICES ASSUME x.path = y.path, Place(x) # Place(y) PROVE FALSE
    OBVIOUS
  <2>1. z.path = w.path /\ a = b
    <3>1. PICK u \in Seq(Names), v \in Seq(Names) : u = z.path /\ v = w.path
      BY <1>3, Zenon
    <3>2. Longer(x.path, u, a) /\ Longer(x.path, v, b)
      BY <1>4, <3>1, Zenon DEF Longer
    <3>3. Alike(u, a, v, b)
      BY <3>2, SameAppended, Zenon
    <3> QED  BY <3>1, <3>3, Zenon DEF Alike
  <2>2. Place(z) = Place(w)
    BY <2>1 DEF Same
  <2>3. EntryAt(z) = EntryAt(w)
    BY <1>1, <2>2, ItemIs
  <2>4. Place(x) \in Busy(sector, D) /\ Place(y) \in Busy(sector, D)
        /\ Place(x)[1] = Place(y)[1]
    BY <1>1, <1>5, <2>3, ItemIs DEF Place
  <2>5. Ent(sector, Place(x)).name # Ent(sector, Place(y)).name
    BY <2>4 DEF Tree
  <2>6. EntryAt(x).name # EntryAt(y).name
    BY <1>1, <2>5, ItemIs
  <2> QED  BY <1>2, <2>1, <2>6
<1> QED  BY <1>6, <1>7 DEF Same

\* No path leads to two entries and no entry is at two paths.
LEMMA OnePathEach ==
  ASSUME TypeOK, NEW D, NEW k, Tree(sector, D, k), NEW A, Grows(A, D)
  PROVE  \A x, y \in A : Same(x, y)
<1> DEFINE G == { n \in Nat : \A x, y \in A : Len(x.path) = n => Same(x, y) }
<1>1. \A x \in A : x.path \in Seq(Names) /\ Len(x.path) \in Nat
                   /\ (Len(x.path) = 0 => x.path = << >>) /\ x.path # << >>
  <2> TAKE x \in A
  <2>1. x.path \in Seq(Names) /\ x.path # << >>
    BY DEF Grows, Stands, Items
  <2> QED  BY <2>1
<1>2. \A x, y \in A : Same(x, y) => Same(y, x)
  BY DEF Same
<1>3. 0 \in G
  BY <1>1
<1>4. \A n \in Nat : n \in G => n + 1 \in G
  <2> TAKE n \in Nat
  <2> HAVE n \in G
  <2> SUFFICES ASSUME NEW x \in A, NEW y \in A, Len(x.path) = n + 1
               PROVE  Same(x, y)
    OBVIOUS
  <2>1. CASE From(x, << >>, ROOT)
    BY <2>1, AtRoot
  <2>2. CASE From(y, << >>, ROOT)
    BY <1>2, <2>2, AtRoot
  <2>3. CASE (\E z \in A : Under(x, z)) /\ (\E w \in A : Under(y, w))
    <3>1. PICK z \in A : Under(x, z)
      BY <2>3
    <3>2. PICK w \in A : Under(y, w)
      BY <2>3
    <3>3. Len(z.path) = n
      <4>1. Stands(x, D)
        BY DEF Grows
      <4>2. PICK a \in Names : a = EntryAt(x).name
        BY <4>1, ItemIs
      <4>3. x.path = Append(z.path, a)
        BY <3>1, <4>2 DEF Under, From
      <4>4. Len(x.path) = Len(z.path) + 1
        BY <1>1, <4>3
      <4> QED  BY <1>1, <4>4
    <3>4. Same(z, w)
      BY <3>3
    <3> QED  BY <3>1, <3>2, <3>4, UnderTwo
  <2> QED  BY <2>1, <2>2, <2>3 DEF Grows
<1>5. \A n \in Nat : n \in G
  <2> HIDE DEF G
  <2> QED  BY <1>3, <1>4, EveryNat
<1> QED  BY <1>1, <1>5

\* No two entries that paths lead to share a sector, none has a sector the allocator may
\* still give out, and no path leads to two, whichever sector writes failed and whenever
\* the machine stopped: fs.c writes the entry last, and moves the allocator first.
THEOREM SectorsStayOwned == Spec => []SectorsOwned
<1>1. SafeInv /\ TreeInv => SectorsOwned
  <2> SUFFICES ASSUME SafeInv, TreeInv, ~hurt
               PROVE  /\ \A x, y \in Live : x # y => Extent(x) \cap Extent(y) = {} /\ x.path # y.path
                      /\ \A x \in Live : Extent(x) \subseteq START .. Known - 1
    BY DEF SectorsOwned
  <2>1. TypeOK
    BY DEF SafeInv
  <2>2. PICK k, D : k = Known /\ Tree(sector, D, k)
    BY DEF TreeInv
  <2>3. Grows(Live, D)
    BY <2>1, <2>2, LiveGrows
  <2>4. PICK A : A = Live
    OBVIOUS
  <2>5. Grows(A, D)
    BY <2>3, <2>4
  <2>6. \A x, y \in A : Same(x, y)
    BY <2>1, <2>2, <2>5, OnePathEach
  <2>7. \A x \in A : /\ EntryAt(x) = Ent(sector, Place(x)) /\ Place(x) \in Busy(sector, D)
                     /\ Extent(x) = Span(Ent(sector, Place(x)))
    <3> TAKE x \in A
    <3>1. Stands(x, D)
      BY <2>5 DEF Grows
    <3>2. EntryAt(x) = Ent(sector, Place(x)) /\ Place(x) \in Busy(sector, D)
      BY <2>1, <2>2, <3>1, ItemIs
    <3>3. Extent(x) = Span(EntryAt(x))
      BY DEF Extent, Span
    <3> QED  BY <3>2, <3>3
  <2>8. \A x \in A : Extent(x) \subseteq START .. k - 1
    BY <2>2, <2>7 DEF Tree
  <2>9. ASSUME NEW x \in A, NEW y \in A, x # y
        PROVE  Extent(x) \cap Extent(y) = {} /\ x.path # y.path
    <3>1. x \in Items /\ y \in Items
      BY <2>5 DEF Grows, Stands
    <3>2. ~(Place(x) = Place(y) /\ x.path = y.path)
      BY <2>9, <3>1 DEF Place, Items
    <3>3. Place(x) # Place(y) /\ x.path # y.path
      BY <2>6, <3>2 DEF Same
    <3>4. Span(Ent(sector, Place(x))) \cap Span(Ent(sector, Place(y))) = {}
      BY <2>2, <2>7, <3>3 DEF Tree
    <3> QED  BY <2>7, <3>3, <3>4
  <2> QED  BY <2>2, <2>4, <2>8, <2>9
<1> QED  BY <1>1, TreeInvariant, PTL

----------------------------------------------------------------------------
(* Paths, and the entries they lead to.                                    *)

Paths == {p \in Seq(Names) : p # << >> /\ Len(p) <= MaxDepth + 1}
Up(p) == SubSeq(p, 1, Len(p) - 1)

\* A sequence that is not empty is the one it is one element longer than, and that element.
LEMMA UpIs ==
  ASSUME NEW S, NEW w \in Seq(S), w # << >>
  PROVE  Up(w) \in Seq(S) /\ Leaf(w) \in S /\ Ends(w, Up(w), Leaf(w))
<1>1. PICK n \in Nat : n = Len(w) - 1 /\ Len(w) = n + 1
  <2>1. Len(w) \in Nat /\ Len(w) # 0
    OBVIOUS
  <2>2. Len(w) - 1 \in Nat /\ Len(w) = (Len(w) - 1) + 1
    BY <2>1
  <2> QED  BY <2>2
<1>2. PICK u : u = SubSeq(w, 1, n)
  OBVIOUS
<1>3. u \in Seq(S) /\ Len(u) = n /\ \A i \in 1 .. n : u[i] = w[i]
  <2>1. \A i \in 1 .. n : w[i] \in S
    BY <1>1
  <2> QED  BY <1>1, <1>2, <2>1
<1>4. w[n + 1] \in S
  BY <1>1
<1>5. Up(w) = u /\ Leaf(w) = w[n + 1]
  BY <1>1, <1>2, Zenon DEF Up, Leaf
<1>6. Ends(w, u, w[n + 1])
  BY <1>1, <1>3 DEF Ends
<1> QED  BY <1>3, <1>4, <1>5, <1>6, Zenon

\* Two sequences with the same start and last element are the same.
LEMMA EndsSame ==
  ASSUME NEW S, NEW w \in Seq(S), NEW v \in Seq(S), NEW u \in Seq(S), NEW a,
         Ends(w, u, a), Ends(v, u, a)
  PROVE  w = v
<1>1. PICK n \in Nat : n = Len(u)
  OBVIOUS
<1>2. Len(w) = n + 1 /\ w[n + 1] = a /\ \A i \in 1 .. n : w[i] = u[i]
  BY <1>1, Zenon DEF Ends
<1>3. Len(v) = n + 1 /\ v[n + 1] = a /\ \A i \in 1 .. n : v[i] = u[i]
  BY <1>1, Zenon DEF Ends
<1>4. \A i \in 1 .. n + 1 : i = n + 1 \/ i \in 1 .. n
  OBVIOUS
<1>5. \A i \in 1 .. Len(w) : w[i] = v[i]
  BY <1>2, <1>3, <1>4, Zenon
<1> QED  BY <1>2, <1>3, <1>5, SeqEqual, Zenon

\* What a sequence ends with, and what comes before.
LEMMA EndsAre ==
  ASSUME NEW S, NEW w \in Seq(S), NEW u \in Seq(S), NEW a \in S, Ends(w, u, a)
  PROVE  w # << >> /\ Up(w) = u /\ Leaf(w) = a /\ Len(w) = Len(u) + 1
<1>1. PICK n \in Nat : n = Len(u)
  OBVIOUS
<1>2. Len(w) = n + 1 /\ w[n + 1] = a /\ \A i \in 1 .. n : w[i] = u[i]
  BY <1>1, Zenon DEF Ends
<1>3. w # << >>
  <2>1. n + 1 # 0
    OBVIOUS
  <2> QED  BY <1>2, <2>1
<1>4. Up(w) \in Seq(S) /\ Ends(w, Up(w), Leaf(w))
  BY <1>3, UpIs, Zenon
<1>5. Len(w) = Len(Up(w)) + 1 /\ w[Len(Up(w)) + 1] = Leaf(w)
      /\ \A i \in 1 .. Len(Up(w)) : w[i] = Up(w)[i]
  BY <1>4, Zenon DEF Ends
<1>6. PICK m \in Nat : m = Len(Up(w))
  BY <1>4
<1>7. m = n
  <2>1. m + 1 = n + 1
    BY <1>2, <1>5, <1>6, Zenon
  <2> QED  BY <2>1
<1>8. \A i \in 1 .. Len(Up(w)) : Up(w)[i] = u[i]
  BY <1>2, <1>5, <1>6, <1>7, Zenon
<1>9. Up(w) = u
  BY <1>1, <1>4, <1>6, <1>7, <1>8, SeqEqual, Zenon
<1>10. Leaf(w) = a
  BY <1>2, <1>5, <1>6, <1>7, Zenon
<1> QED  BY <1>1, <1>2, <1>3, <1>9, <1>10, Zenon

\* The parts of a path.
LEMMA PathsAre ==
  ASSUME NEW p \in Paths
  PROVE  /\ p \in Seq(Names) /\ p # << >> /\ Len(p) \in Nat \ {0} /\ Len(p) <= MaxDepth + 1
         /\ Leaf(p) \in Names /\ Up(p) \in Seq(Names) /\ Up(p) # p /\ Ends(p, Up(p), Leaf(p))
         /\ Len(Up(p)) \in Nat /\ Len(p) = Len(Up(p)) + 1 /\ Len(Up(p)) <= MaxDepth
         /\ Up(p) # << >> => Up(p) \in Paths
<1>1. p \in Seq(Names) /\ p # << >> /\ Len(p) <= MaxDepth + 1
  BY DEF Paths
<1>2. Up(p) \in Seq(Names) /\ Leaf(p) \in Names /\ Ends(p, Up(p), Leaf(p))
  BY <1>1, UpIs, Zenon
<1>3. PICK n \in Nat, m \in Nat, d \in Nat : n = Len(p) /\ m = Len(Up(p)) /\ d = MaxDepth
  BY <1>1, <1>2, Constants
<1>4. n = m + 1
  BY <1>2, <1>3, Zenon DEF Ends
<1>5. n <= d + 1
  BY <1>1, <1>3, Zenon
<1>6. n \in Nat \ {0} /\ m <= d /\ m <= d + 1 /\ m # n
  BY <1>4, <1>5
<1>7. Up(p) # p
  BY <1>3, <1>6, Zenon
<1>8. Up(p) # << >> => Up(p) \in Paths
  BY <1>2, <1>3, <1>6, Zenon DEF Paths
<1> QED  BY <1>1, <1>2, <1>3, <1>4, <1>6, <1>7, <1>8, Zenon

\* A path made of a shorter one and a name.
LEMMA PathMade ==
  ASSUME NEW u \in Seq(Names), Len(u) <= MaxDepth, NEW a \in Names, NEW p, Longer(p, u, a)
  PROVE  p \in Paths /\ Up(p) = u /\ Leaf(p) = a
<1>1. Sound(p, Names) /\ Ends(p, u, a)
  BY LongerIs, Zenon
<1>2. p \in Seq(Names) /\ p # << >>
  BY <1>1, Zenon DEF Sound
<1>3. Up(p) = u /\ Leaf(p) = a /\ Len(p) = Len(u) + 1
  BY <1>1, <1>2, EndsAre, Zenon
<1>4. PICK n \in Nat, d \in Nat : n = Len(u) /\ d = MaxDepth /\ n <= d
  BY Constants
<1>5. n + 1 <= d + 1
  BY <1>4
<1>6. Len(p) <= MaxDepth + 1
  BY <1>3, <1>4, <1>5, Zenon
<1> QED  BY <1>2, <1>3, <1>6, Zenon DEF Paths

\* A path is the one path with its start and its last name.
LEMMA PathSame ==
  ASSUME NEW p \in Paths, NEW q \in Paths, Up(p) = Up(q), Leaf(p) = Leaf(q)
  PROVE  p = q
<1>1. Ends(p, Up(p), Leaf(p)) /\ Ends(q, Up(p), Leaf(p)) /\ Up(p) \in Seq(Names)
      /\ p \in Seq(Names) /\ q \in Seq(Names)
  BY PathsAre, Zenon
<1> QED  BY <1>1, EndsSame, Zenon

\* The table a path leads to, by the entries f gives the paths; and all the paths there
\* are: f gives each the entry that has its name in the table the path above it leads to.
Holds(s, b, n) == Ent(s, b).type # "free" /\ Ent(s, b).name = n
InTab(s, f, u, l) ==
  \/ u = << >> /\ l = ROOT
  \/ u \in DOMAIN f /\ Ent(s, f[u]).type = "dir" /\ Ent(s, f[u]).start = l
Leads(s, f) ==
  /\ f = [p \in DOMAIN f |-> f[p]] /\ DOMAIN f \subseteq Paths
  /\ \A p \in DOMAIN f : f[p] \in Lba \X Index
  /\ \A p \in Paths, b \in Lba \X Index :
       (p \in DOMAIN f /\ f[p] = b) <=> (Holds(s, b, Leaf(p)) /\ InTab(s, f, Up(p), b[1]))

Tables(s) == \A l \in Lba : s[l].entries \in [Index -> Entry]

\* The entry a path leads to has its name, and is in the table of the path above it.
LEMMA LeadsAre ==
  ASSUME NEW s, NEW f, Leads(s, f), NEW p \in DOMAIN f
  PROVE  /\ p \in Paths /\ f[p] \in Lba \X Index /\ Holds(s, f[p], Leaf(p))
         /\ InTab(s, f, Up(p), f[p][1])
BY DEF Leads

\* An entry that has a path's name in the table of the path above it is the path's.
LEMMA LeadsTo ==
  ASSUME NEW s, NEW f, Leads(s, f), NEW p \in Paths, NEW b \in Lba \X Index,
         Holds(s, b, Leaf(p)), InTab(s, f, Up(p), b[1])
  PROVE  p \in DOMAIN f /\ f[p] = b
BY DEF Leads

\* A path leads to one table, and only paths to directories lead to one.
LEMMA TabIs ==
  ASSUME NEW s, NEW f, Leads(s, f), NEW u, NEW l, InTab(s, f, u, l)
  PROVE  /\ u = << >> \/ u \in DOMAIN f
         /\ \A m : InTab(s, f, u, m) => m = l
<1>1. << >> \notin DOMAIN f
  BY DEF Leads, Paths
<1> QED  BY <1>1, Zenon DEF InTab

\* The entries the paths lead to are those of the tree.
LEMMA LeadsInTree ==
  ASSUME NEW s, NEW D, NEW k, Tree(s, D, k), NEW f, Leads(s, f)
  PROVE  /\ \A p \in DOMAIN f : f[p] \in Busy(s, D)
         /\ \A u, l : InTab(s, f, u, l) => l \in D
<1> DEFINE G == { n \in Nat : \A p \in DOMAIN f : Len(p) = n => f[p] \in Busy(s, D) }
<1>1. ROOT \in D /\ \A x \in Busy(s, D) : Ent(s, x).type = "dir" => Ent(s, x).start \in D
  BY Zenon DEF Tree
<1>2. ASSUME NEW u, NEW l, InTab(s, f, u, l), u \in DOMAIN f => f[u] \in Busy(s, D)
      PROVE  l \in D
  BY <1>1, <1>2, Zenon DEF InTab
<1>3. ASSUME NEW p \in DOMAIN f, Up(p) \in DOMAIN f => f[Up(p)] \in Busy(s, D)
      PROVE  f[p] \in Busy(s, D)
  <2>1. f[p] \in Lba \X Index /\ Holds(s, f[p], Leaf(p)) /\ InTab(s, f, Up(p), f[p][1])
    BY LeadsAre
  <2>2. f[p][1] \in D
    BY <1>2, <1>3, <2>1, Zenon
  <2> QED  BY <2>1, <2>2 DEF Holds, Busy
<1>4. \A p \in DOMAIN f : p \in Paths /\ Len(p) \in Nat \ {0} /\ Len(Up(p)) \in Nat
                          /\ Len(p) = Len(Up(p)) + 1
  BY LeadsAre, PathsAre, Zenon
<1>5. 0 \in G
  BY <1>4
<1>6. \A n \in Nat : n \in G => n + 1 \in G
  <2> TAKE n \in Nat
  <2> HAVE n \in G
  <2> SUFFICES ASSUME NEW p \in DOMAIN f, Len(p) = n + 1 PROVE f[p] \in Busy(s, D)
    OBVIOUS
  <2>1. Len(Up(p)) = n
    BY <1>4
  <2>2. Up(p) \in DOMAIN f => f[Up(p)] \in Busy(s, D)
    BY <2>1
  <2> HIDE DEF G
  <2> QED  BY <1>3, <2>2, Zenon
<1>7. \A n \in Nat : n \in G
  <2> HIDE DEF G
  <2> QED  BY <1>5, <1>6, EveryNat
<1>8. \A p \in DOMAIN f : f[p] \in Busy(s, D)
  BY <1>4, <1>7
<1> QED  BY <1>2, <1>8, Zenon

\* What an entry of the tree is, and the table of a directory.
LEMMA BusyIs ==
  ASSUME NEW s, Tables(s), NEW D, NEW k, Tree(s, D, k), NEW x \in Busy(s, D)
  PROVE  /\ x \in D \X Index /\ x \in Lba \X Index /\ Ent(s, x) \in Entry
         /\ Ent(s, x).type \in {"file", "dir"} /\ Ent(s, x).start \in Span(Ent(s, x))
         /\ Ent(s, x).type = "dir" => Ent(s, x).start \in D /\ Ent(s, x).start # ROOT
<1>1. x \in D \X Index /\ D \subseteq Lba /\ Ent(s, x).type # "free"
  BY DEF Busy, Tree
<1>2. Ent(s, x) \in Entry
  BY <1>1 DEF Ent, Tables
<1>3. Ent(s, x).type \in {"file", "dir"}
  BY <1>1, <1>2, NoEntryIs DEF Entry
<1>4. Ent(s, x).start \in Span(Ent(s, x))
  BY <1>1, <1>2, SpanIs
<1>5. Ent(s, x).type = "dir" => Ent(s, x).start \in D
  BY Zenon DEF Tree
<1>6. Ent(s, x).start # ROOT
  <2>1. Span(Ent(s, x)) \subseteq START .. k - 1
    BY Zenon DEF Tree
  <2> QED  BY <1>4, <2>1, Constants DEF START, ROOT
<1> QED  BY <1>1, <1>2, <1>3, <1>4, <1>5, <1>6

\* No two paths lead to one entry, nor to one table.
LEMMA LeadsOnce ==
  ASSUME NEW s, Tables(s), NEW D, NEW k, Tree(s, D, k), NEW f, Leads(s, f)
  PROVE  /\ \A p, q \in DOMAIN f : f[p] = f[q] => p = q
         /\ \A u, v, l : InTab(s, f, u, l) /\ InTab(s, f, v, l) => u = v
<1>1. \A p \in DOMAIN f : f[p] \in Busy(s, D)
  BY LeadsInTree
<1>2. \A x, y \in Busy(s, D) : Ent(s, x).start = Ent(s, y).start => x = y
  <2> TAKE x, y \in Busy(s, D)
  <2>1. Ent(s, x).start \in Span(Ent(s, x)) /\ Ent(s, y).start \in Span(Ent(s, y))
    BY BusyIs
  <2>2. x # y => Span(Ent(s, x)) \cap Span(Ent(s, y)) = {}
    BY Zenon DEF Tree
  <2> QED  BY <2>1, <2>2
<1>3. \A x \in Busy(s, D) : Ent(s, x).type = "dir" => Ent(s, x).start # ROOT
  BY BusyIs
<1>4. ASSUME NEW u, NEW v, NEW l, InTab(s, f, u, l), InTab(s, f, v, l),
             (u \in DOMAIN f /\ v \in DOMAIN f /\ f[u] = f[v]) => u = v
      PROVE  u = v
  <2>1. CASE u = << >> /\ v = << >>
    BY <2>1
  <2>2. CASE u \in DOMAIN f /\ v = << >>
    <3>1. Ent(s, f[u]).type = "dir" /\ Ent(s, f[u]).start = l
      <4>1. u # << >>
        BY <2>2 DEF Leads, Paths
      <4> QED  BY <1>4, <4>1, Zenon DEF InTab
    <3>2. l = ROOT
      <4>1. InTab(s, f, v, ROOT)
        BY <2>2, Zenon DEF InTab
      <4> QED  BY <1>4, <4>1, TabIs, Zenon
    <3> QED  BY <1>1, <1>3, <2>2, <3>1, <3>2, Zenon
  <2>3. CASE v \in DOMAIN f /\ u = << >>
    <3>1. Ent(s, f[v]).type = "dir" /\ Ent(s, f[v]).start = l
      <4>1. v # << >>
        BY <2>3 DEF Leads, Paths
      <4> QED  BY <1>4, <4>1, Zenon DEF InTab
    <3>2. l = ROOT
      <4>1. InTab(s, f, u, ROOT)
        BY <2>3, Zenon DEF InTab
      <4> QED  BY <1>4, <4>1, TabIs, Zenon
    <3> QED  BY <1>1, <1>3, <2>3, <3>1, <3>2, Zenon
  <2>4. CASE u \in DOMAIN f /\ v \in DOMAIN f
    <3>1. u # << >> /\ v # << >>
      BY <2>4 DEF Leads, Paths
    <3>2. Ent(s, f[u]).start = l /\ Ent(s, f[v]).start = l
      BY <1>4, <3>1, Zenon DEF InTab
    <3>3. f[u] = f[v]
      BY <1>1, <1>2, <2>4, <3>2, Zenon
    <3> QED  BY <1>4, <2>4, <3>3, Zenon
  <2> QED  BY <1>4, <2>1, <2>2, <2>3, <2>4, TabIs, Zenon
<1> DEFINE G == { n \in Nat : \A p, q \in DOMAIN f : Len(p) = n /\ f[p] = f[q] => p = q }
<1>5. \A p \in DOMAIN f : p \in Paths /\ Len(p) \in Nat \ {0} /\ Len(Up(p)) \in Nat
                          /\ Len(p) = Len(Up(p)) + 1
  BY LeadsAre, PathsAre, Zenon
<1>6. 0 \in G
  BY <1>5
<1>7. \A n \in Nat : n \in G => n + 1 \in G
  <2> TAKE n \in Nat
  <2> HAVE n \in G
  <2> SUFFICES ASSUME NEW p \in DOMAIN f, NEW q \in DOMAIN f, Len(p) = n + 1, f[p] = f[q]
               PROVE  p = q
    OBVIOUS
  <2>1. Len(Up(p)) = n
    BY <1>5
  <2>2. (Up(p) \in DOMAIN f /\ Up(q) \in DOMAIN f /\ f[Up(p)] = f[Up(q)]) => Up(p) = Up(q)
    BY <2>1
  <2> HIDE DEF G
  <2>3. /\ InTab(s, f, Up(p), f[p][1]) /\ InTab(s, f, Up(q), f[p][1])
        /\ Holds(s, f[p], Leaf(p)) /\ Holds(s, f[p], Leaf(q)) /\ p \in Paths /\ q \in Paths
    BY LeadsAre, Zenon
  <2>4. Up(p) = Up(q)
    BY <1>4, <2>2, <2>3, Zenon
  <2>5. Leaf(p) = Leaf(q)
    BY <2>3, Zenon DEF Holds
  <2> QED  BY <2>3, <2>4, <2>5, PathSame, Zenon
<1>8. \A n \in Nat : n \in G
  <2> HIDE DEF G
  <2> QED  BY <1>6, <1>7, EveryNat
<1>9. \A p, q \in DOMAIN f : f[p] = f[q] => p = q
  BY <1>5, <1>8
<1> QED  BY <1>4, <1>9, Zenon

\* The paths a path goes through are there.
LEMMA LeadsAbove ==
  ASSUME NEW s, NEW f, Leads(s, f), NEW p \in Paths, NEW q \in DOMAIN f, Len(p) <= Len(q),
         \A i \in 1 .. Len(p) : q[i] = p[i]
  PROVE  p \in DOMAIN f
<1> DEFINE G == { n \in Nat : \A r \in DOMAIN f :
                    Len(r) = n /\ Len(p) <= Len(r) /\ (\A i \in 1 .. Len(p) : r[i] = p[i])
                      => p \in DOMAIN f }
<1>1. \A r \in DOMAIN f : r \in Paths /\ r \in Seq(Names) /\ Len(r) \in Nat \ {0} /\ Len(Up(r)) \in Nat
                          /\ Len(r) = Len(Up(r)) + 1
  BY LeadsAre, PathsAre, Zenon
<1>2. Len(p) \in Nat \ {0} /\ p \in Seq(Names)
  BY PathsAre, Zenon
<1>3. 0 \in G
  BY <1>1
<1>4. \A n \in Nat : n \in G => n + 1 \in G
  <2> TAKE n \in Nat
  <2> HAVE n \in G
  <2> SUFFICES ASSUME NEW r \in DOMAIN f, Len(r) = n + 1, Len(p) <= Len(r),
                      \A i \in 1 .. Len(p) : r[i] = p[i]
               PROVE  p \in DOMAIN f
    OBVIOUS
  <2>1. CASE Len(p) = Len(r)
    <3>1. p = r
      BY <1>1, <1>2, <2>1, SeqEqual, Zenon
    <3> QED  BY <3>1
  <2>2. CASE Len(p) # Len(r)
    <3>1. PICK c \in Nat \ {0} : c = Len(p)
      BY <1>2
    <3>2. c <= n
      BY <2>2, <3>1
    <3>3. InTab(s, f, Up(r), f[r][1]) /\ Ends(r, Up(r), Leaf(r)) /\ Len(Up(r)) = n
      <4>1. InTab(s, f, Up(r), f[r][1]) /\ Ends(r, Up(r), Leaf(r))
        BY <1>1, LeadsAre, PathsAre, Zenon
      <4>2. Len(Up(r)) = n
        BY <1>1
      <4> QED  BY <4>1, <4>2
    <3>4. Up(r) \in DOMAIN f
      <4>1. Up(r) # << >>
        <5>1. n # 0
          BY <3>2
        <5> QED  BY <3>3, <5>1
      <4> QED  BY <3>3, <4>1, TabIs, Zenon
    <3>5. \A i \in 1 .. n : Up(r)[i] = r[i]
      BY <3>3, Zenon DEF Ends
    <3>6. \A i \in 1 .. c : i \in 1 .. n
      BY <3>2
    <3>7. \A i \in 1 .. c : Up(r)[i] = p[i]
      BY <3>1, <3>5, <3>6, Zenon
    <3>8. Len(p) <= Len(Up(r)) /\ \A i \in 1 .. Len(p) : Up(r)[i] = p[i]
      BY <3>1, <3>2, <3>3, <3>7, Zenon
    <3> QED  BY <3>3, <3>4, <3>8, Zenon
  <2> QED  BY <2>1, <2>2
<1>5. \A n \in Nat : n \in G
  <2> HIDE DEF G
  <2> QED  BY <1>3, <1>4, EveryNat
<1> QED  BY <1>1, <1>5

----------------------------------------------------------------------------
(* What the paths lead to when an entry changes.                           *)

\* The entries of the tables of D are those they were, but for one.
Changed(s, t, D, l, i, e) ==
  \A x \in D \X Index : Ent(t, x) = IF x = << l, i >> THEN e ELSE Ent(s, x)

\* An entry of a table that is no more than patched.
LEMMA PatchedIs ==
  ASSUME NEW s, NEW t, NEW D, NEW l \in D, NEW i \in Index, NEW e,
         s[l].entries \in [Index -> Entry], Patched(s, t, D, l, i, e)
  PROVE  Changed(s, t, D, l, i, e)
<1> SUFFICES \A x \in D \X Index : Ent(t, x) = IF x = << l, i >> THEN e ELSE Ent(s, x)
  BY Zenon DEF Changed
<1> TAKE x \in D \X Index
<1>1. PICK d \in D, j \in Index : x = << d, j >> /\ x[1] = d /\ x[2] = j
  OBVIOUS
<1>2. CASE d # l
  BY <1>1, <1>2 DEF Ent, Patched
<1>3. CASE d = l
  <2>1. Ent(t, x) = [s[l].entries EXCEPT ![i] = e][j]
    BY <1>1, <1>3 DEF Ent, Patched
  <2>2. [s[l].entries EXCEPT ![i] = e][j] = IF j = i THEN e ELSE s[l].entries[j]
    OBVIOUS
  <2> QED  BY <1>1, <1>3, <2>1, <2>2 DEF Ent
<1> QED  BY <1>2, <1>3

\* Entries that differ at most in their size.
SameBut(e, c)   == e.type = c.type /\ e.name = c.name /\ e.start = c.start
SameTree(s, t, D)  == \A x \in D \X Index : SameBut(Ent(t, x), Ent(s, x))

\* The same paths when no entry of the tree has another type, name or start.
LEMMA LeadsAlike ==
  ASSUME NEW s, NEW t, NEW D, NEW k, Tree(s, D, k), NEW f, Leads(s, f), SameTree(s, t, D)
  PROVE  Leads(t, f)
<1>1. \A p \in DOMAIN f : f[p] \in D \X Index
  BY LeadsInTree DEF Busy
<1>0. \A x \in D \X Index : /\ Ent(t, x).type = Ent(s, x).type /\ Ent(t, x).name = Ent(s, x).name
                            /\ Ent(t, x).start = Ent(s, x).start
  BY Zenon DEF SameTree, SameBut
<1>2. \A u, l : InTab(t, f, u, l) <=> InTab(s, f, u, l)
  BY <1>0, <1>1, Zenon DEF InTab
<1>3. ASSUME NEW p \in Paths, NEW b \in Lba \X Index
      PROVE  (p \in DOMAIN f /\ f[p] = b) <=> (Holds(t, b, Leaf(p)) /\ InTab(t, f, Up(p), b[1]))
  <2>1. (p \in DOMAIN f /\ f[p] = b) <=> (Holds(s, b, Leaf(p)) /\ InTab(s, f, Up(p), b[1]))
    BY Zenon DEF Leads
  <2>2. InTab(s, f, Up(p), b[1]) => b \in D \X Index
    <3>1. InTab(s, f, Up(p), b[1]) => b[1] \in D
      BY LeadsInTree, Zenon
    <3> QED  BY <3>1
  <2>3. b \in D \X Index => (Holds(t, b, Leaf(p)) <=> Holds(s, b, Leaf(p)))
    BY <1>0, Zenon DEF Holds
  <2> QED  BY <1>2, <2>1, <2>2, <2>3, Zenon
<1> QED  BY <1>3, Zenon DEF Leads

\* The paths with one more; no entry of a table has a name; a new directory is no table
\* of the tree and has no entries.
OneMore(f, g, p, b) == g = [q \in DOMAIN f \cup {p} |-> IF q = p THEN b ELSE f[q]]
Fresh(s, l, n)      == \A j \in Index : ~Holds(s, << l, j >>, n)
Opens(D, t, e)      == e.type = "dir" =>
  e.start \notin D /\ \A j \in Index : Ent(t, << e.start, j >>).type = "free"
Enters(s, t, D, l, i, e) ==
  /\ l \in D /\ i \in Index /\ e \in Entry /\ e.type # "free" /\ Ent(s, << l, i >>).type = "free"
  /\ Fresh(s, l, e.name) /\ Opens(D, t, e) /\ Patched(s, t, D, l, i, e)

NewPathTo(t, f, g, p, u, n) == Leads(t, g) /\ p \in Paths /\ p \notin DOMAIN f /\ Up(p) = u /\ Leaf(p) = n

\* A new entry: one more path.
LEMMA LeadsAdd ==
  ASSUME NEW s, Tables(s), NEW t, NEW D, NEW k, Tree(s, D, k), NEW f, Leads(s, f),
         NEW u \in Seq(Names), Len(u) <= MaxDepth, NEW l, InTab(s, f, u, l),
         NEW i, NEW e, Enters(s, t, D, l, i, e),
         NEW p, Longer(p, u, e.name), NEW g, NEW b, b = << l, i >>, OneMore(f, g, p, b)
  PROVE  NewPathTo(t, f, g, p, u, e.name)
<1>00. /\ l \in D /\ i \in Index /\ e \in Entry /\ e.type # "free" /\ Ent(s, << l, i >>).type = "free"
       /\ Fresh(s, l, e.name) /\ Opens(D, t, e) /\ Patched(s, t, D, l, i, e)
  BY Zenon DEF Enters
<1> USE <1>00
<1>01. \A j \in Index : ~Holds(s, << l, j >>, e.name)
  BY Zenon DEF Fresh
<1>02. e.type = "dir" => e.start \notin D /\ \A j \in Index : Ent(t, << e.start, j >>).type = "free"
  BY Zenon DEF Opens
<1>03. g = [q \in DOMAIN f \cup {p} |-> IF q = p THEN << l, i >> ELSE f[q]]
  BY Zenon DEF OneMore
<1>1. e.name \in Names
  BY EntryParts
<1>2. p \in Paths /\ Up(p) = u /\ Leaf(p) = e.name
  BY <1>1, PathMade, Zenon
<1>3. Up(p) # p /\ p # << >>
  BY <1>2, PathsAre, Zenon
<1>4. l \in Lba /\ D \subseteq Lba /\ s[l].entries \in [Index -> Entry]
  BY DEF Tree, Tables
<1>50. Changed(s, t, D, l, i, e)
  BY <1>4, PatchedIs, Zenon
<1>5. \A x \in D \X Index : Ent(t, x) = IF x = << l, i >> THEN e ELSE Ent(s, x)
  BY <1>50, Zenon DEF Changed
<1>6. ASSUME NEW a \in Lba \X Index, InTab(s, f, u, a[1]) PROVE a = << l, a[2] >> /\ ~Holds(s, a, e.name)
  <2>1. a[1] = l
    BY <1>6, TabIs, Zenon
  <2>2. a = << l, a[2] >> /\ a[2] \in Index
    BY <2>1
  <2>3. ~Holds(s, << l, a[2] >>, e.name)
    BY <1>01, <2>2, Zenon
  <2> QED  BY <2>2, <2>3, Zenon
<1>7. p \notin DOMAIN f
  BY <1>2, <1>6, LeadsAre, Zenon
<1>8. \A q \in DOMAIN f : f[q] \in D \X Index /\ f[q] # << l, i >> /\ Ent(t, f[q]) = Ent(s, f[q])
  <2> TAKE q \in DOMAIN f
  <2>1. f[q] \in Busy(s, D)
    BY LeadsInTree
  <2> QED  BY <1>5, <2>1 DEF Busy
<1>9. /\ DOMAIN g = DOMAIN f \cup {p} /\ g[p] = << l, i >> /\ \A q \in DOMAIN f : g[q] = f[q]
      /\ g = [q \in DOMAIN g |-> g[q]]
  BY <1>7, <1>03
<1>10. << l, i >> \in D \X Index /\ << l, i >> \in Lba \X Index /\ Ent(t, << l, i >>) = e
  <2>1. << l, i >> \in D \X Index /\ << l, i >> \in Lba \X Index
    BY <1>4
  <2> QED  BY <1>5, <2>1, Zenon
<1>11. ASSUME NEW v, NEW m, v # p PROVE InTab(t, g, v, m) <=> InTab(s, f, v, m)
  <2>1. CASE v \in DOMAIN f
    <3>1. v \in DOMAIN g /\ g[v] = f[v] /\ Ent(t, g[v]) = Ent(s, f[v])
      BY <1>8, <1>9, <2>1
    <3> QED  BY <2>1, <3>1, Zenon DEF InTab
  <2>2. CASE v \notin DOMAIN f
    <3>1. v \notin DOMAIN g
      BY <1>9, <1>11, <2>2
    <3> QED  BY <2>2, <3>1, Zenon DEF InTab
  <2> QED  BY <2>1, <2>2
<1>12. \A m : InTab(t, g, p, m) => e.type = "dir" /\ m = e.start
  BY <1>3, <1>9, <1>10, Zenon DEF InTab
<1>13. ASSUME NEW q \in Paths, NEW c \in Lba \X Index
       PROVE  (q \in DOMAIN g /\ g[q] = c) <=> (Holds(t, c, Leaf(q)) /\ InTab(t, g, Up(q), c[1]))
  <2>1. (q \in DOMAIN f /\ f[q] = c) <=> (Holds(s, c, Leaf(q)) /\ InTab(s, f, Up(q), c[1]))
    BY Zenon DEF Leads
  <2>2. CASE Up(q) = p
    <3>1. q # p
      BY <1>3, <2>2
    <3>2. q \notin DOMAIN f
      <4>1. q \in DOMAIN f => InTab(s, f, p, f[q][1])
        BY <2>2, LeadsAre, Zenon
      <4> QED  BY <1>3, <1>7, <4>1, TabIs, Zenon
    <3>3. q \notin DOMAIN g
      BY <1>9, <3>1, <3>2
    <3>4. ASSUME InTab(t, g, p, c[1]) PROVE ~Holds(t, c, Leaf(q))
      <4>1. e.type = "dir" /\ c[1] = e.start
        BY <1>12, <3>4, Zenon
      <4>2. c = << e.start, c[2] >> /\ c[2] \in Index
        BY <4>1
      <4>3. Ent(t, << e.start, c[2] >>).type = "free"
        BY <1>02, <4>1, <4>2, Zenon
      <4>4. Ent(t, c).type = "free"
        BY <4>2, <4>3, Zenon
      <4> QED  BY <4>4, Zenon DEF Holds
    <3> QED  BY <2>2, <3>3, <3>4, Zenon
  <2>3. CASE Up(q) # p
    <3>1. InTab(t, g, Up(q), c[1]) <=> InTab(s, f, Up(q), c[1])
      BY <1>11, <2>3, Zenon
    <3>2. InTab(s, f, Up(q), c[1]) => c \in D \X Index
      <4>1. InTab(s, f, Up(q), c[1]) => c[1] \in D
        BY LeadsInTree, Zenon
      <4> QED  BY <4>1
    <3>3. CASE c # << l, i >>
      <4>1. c \in D \X Index => (Holds(t, c, Leaf(q)) <=> Holds(s, c, Leaf(q)))
        BY <1>5, <3>3, Zenon DEF Holds
      <4>2. CASE q # p
        <5>1. (q \in DOMAIN g /\ g[q] = c) <=> (q \in DOMAIN f /\ f[q] = c)
          BY <1>9, <4>2
        <5> QED  BY <2>1, <3>1, <3>2, <4>1, <5>1, Zenon
      <4>3. CASE q = p
        <5>1. ~(q \in DOMAIN g /\ g[q] = c)
          BY <1>9, <3>3, <4>3
        <5>2. ~(Holds(s, c, Leaf(q)) /\ InTab(s, f, Up(q), c[1]))
          BY <1>2, <1>6, <4>3, Zenon
        <5> QED  BY <3>1, <3>2, <4>1, <5>1, <5>2, Zenon
      <4> QED  BY <4>2, <4>3
    <3>4. CASE c = << l, i >>
      <4>1. c[1] = l
        BY <3>4
      <4>2. Holds(t, c, Leaf(q)) <=> Leaf(q) = e.name
        BY <1>10, <3>4, Zenon DEF Holds
      <4>3. InTab(s, f, Up(q), l) <=> Up(q) = u
        BY LeadsOnce, Zenon
      <4>4. (Leaf(q) = e.name /\ Up(q) = u) <=> q = p
        BY <1>2, PathSame, Zenon
      <4>5. (q \in DOMAIN g /\ g[q] = c) <=> q = p
        BY <1>8, <1>9, <3>4
      <4> QED  BY <3>1, <4>1, <4>2, <4>3, <4>4, <4>5, Zenon
    <3> QED  BY <3>3, <3>4
  <2> QED  BY <2>2, <2>3
<1>14. DOMAIN g \subseteq Paths /\ \A q \in DOMAIN g : g[q] \in Lba \X Index
  <2>1. DOMAIN f \subseteq Paths /\ \A q \in DOMAIN f : f[q] \in Lba \X Index
    BY Zenon DEF Leads
  <2> QED  BY <1>2, <1>9, <1>10, <2>1
<1>15. Leads(t, g)
  BY <1>9, <1>13, <1>14, Zenon DEF Leads
<1> QED  BY <1>2, <1>7, <1>15, Zenon DEF NewPathTo

\* An entry that goes, no directory with entries: one path less.
LEMMA LeadsRemove ==
  ASSUME NEW s, Tables(s), NEW t, NEW D, NEW k, Tree(s, D, k), NEW f, Leads(s, f),
         NEW p \in DOMAIN f, NEW l \in D, NEW i \in Index, f[p] = << l, i >>,
         Patched(s, t, D, l, i, NoEntry),
         Ent(s, << l, i >>).type = "dir" =>
           \A j \in Index : Ent(s, << Ent(s, << l, i >>).start, j >>).type = "free",
         NEW g, g = [q \in DOMAIN f \ {p} |-> f[q]]
  PROVE  Leads(t, g) /\ \A q \in DOMAIN f : ~InTab(s, f, p, f[q][1])
<1>1. l \in Lba /\ D \subseteq Lba /\ s[l].entries \in [Index -> Entry]
  BY DEF Tree, Tables
<1>20. Changed(s, t, D, l, i, NoEntry)
  BY <1>1, PatchedIs, Zenon
<1>2. \A x \in D \X Index : Ent(t, x) = IF x = << l, i >> THEN NoEntry ELSE Ent(s, x)
  BY <1>20, Zenon DEF Changed
<1>3. p \in Paths /\ p # << >>
  BY LeadsAre, PathsAre, Zenon
<1>4. \A q \in DOMAIN f : f[q] \in D \X Index /\ f[q] \in Lba \X Index /\ (q # p => f[q] # << l, i >>)
  <2> TAKE q \in DOMAIN f
  <2>1. f[q] \in Busy(s, D) /\ f[q] \in Lba \X Index
    BY LeadsInTree, LeadsAre, Zenon
  <2>2. q # p => f[q] # << l, i >>
    BY LeadsOnce, Zenon
  <2> QED  BY <2>1, <2>2 DEF Busy
<1>5. \A q \in DOMAIN f : q # p => Ent(t, f[q]) = Ent(s, f[q])
  BY <1>2, <1>4, Zenon
<1>6. /\ DOMAIN g = DOMAIN f \ {p} /\ \A q \in DOMAIN g : g[q] = f[q]
      /\ g = [q \in DOMAIN g |-> g[q]]
  OBVIOUS
<1>7. ASSUME NEW v, NEW m, v # p PROVE InTab(t, g, v, m) <=> InTab(s, f, v, m)
  <2>1. CASE v \in DOMAIN f
    <3>1. v \in DOMAIN g /\ g[v] = f[v] /\ Ent(t, g[v]) = Ent(s, f[v])
      BY <1>5, <1>6, <1>7, <2>1
    <3> QED  BY <2>1, <3>1, Zenon DEF InTab
  <2>2. CASE v \notin DOMAIN f
    <3>1. v \notin DOMAIN g
      BY <1>6, <2>2
    <3> QED  BY <2>2, <3>1, Zenon DEF InTab
  <2> QED  BY <2>1, <2>2
<1>8. \A m : ~InTab(t, g, p, m)
  <2>1. p \notin DOMAIN g
    BY <1>6
  <2> QED  BY <1>3, <2>1, Zenon DEF InTab
<1>9. ASSUME NEW q \in DOMAIN f PROVE ~InTab(s, f, p, f[q][1])
  <2> SUFFICES ASSUME InTab(s, f, p, f[q][1]) PROVE FALSE
    OBVIOUS
  <2>1. PICK b \in Lba \X Index : b = f[q] /\ Ent(s, b).type # "free"
    <3>1. Holds(s, f[q], Leaf(q)) /\ f[q] \in Lba \X Index
      BY LeadsAre, Zenon
    <3> QED  BY <3>1, Zenon DEF Holds
  <2>2. Ent(s, << l, i >>).type = "dir" /\ Ent(s, << l, i >>).start = b[1]
    BY <1>3, <2>1, Zenon DEF InTab
  <2>3. b = << b[1], b[2] >> /\ b[2] \in Index
    BY <2>1
  <2>4. Ent(s, b).type = "free"
    BY <2>2, <2>3, Zenon
  <2> QED  BY <2>1, <2>4, Zenon
<1>10. ASSUME NEW q \in Paths, NEW b \in Lba \X Index
       PROVE  (q \in DOMAIN g /\ g[q] = b) <=> (Holds(t, b, Leaf(q)) /\ InTab(t, g, Up(q), b[1]))
  <2>1. (q \in DOMAIN f /\ f[q] = b) <=> (Holds(s, b, Leaf(q)) /\ InTab(s, f, Up(q), b[1]))
    BY Zenon DEF Leads
  <2>2. CASE Up(q) = p
    <3>1. q \notin DOMAIN f
      BY <1>9, <2>2, LeadsAre, Zenon
    <3>2. q \notin DOMAIN g
      BY <1>6, <3>1
    <3> QED  BY <1>8, <2>2, <3>2, Zenon
  <2>3. CASE Up(q) # p
    <3>1. InTab(t, g, Up(q), b[1]) <=> InTab(s, f, Up(q), b[1])
      BY <1>7, <2>3, Zenon
    <3>2. InTab(s, f, Up(q), b[1]) => b \in D \X Index
      <4>1. InTab(s, f, Up(q), b[1]) => b[1] \in D
        BY LeadsInTree, Zenon
      <4> QED  BY <4>1
    <3>3. CASE b # << l, i >>
      <4>1. b \in D \X Index => (Holds(t, b, Leaf(q)) <=> Holds(s, b, Leaf(q)))
        BY <1>2, <3>3, Zenon DEF Holds
      <4>2. (q \in DOMAIN g /\ g[q] = b) <=> (q \in DOMAIN f /\ f[q] = b)
        BY <1>6, <3>3
      <4> QED  BY <2>1, <3>1, <3>2, <4>1, <4>2, Zenon
    <3>4. CASE b = << l, i >>
      <4>1. << l, i >> \in D \X Index
        OBVIOUS
      <4>2. Ent(t, b).type = "free"
        BY <1>2, <3>4, <4>1, NoEntryIs, Zenon
      <4>3. ~(q \in DOMAIN g /\ g[q] = b)
        BY <1>4, <1>6, <3>4
      <4> QED  BY <4>2, <4>3, Zenon DEF Holds
    <3> QED  BY <3>3, <3>4
  <2> QED  BY <2>2, <2>3
<1>11. DOMAIN g \subseteq Paths /\ \A q \in DOMAIN g : g[q] \in Lba \X Index
  <2>1. DOMAIN f \subseteq Paths /\ \A q \in DOMAIN f : f[q] \in Lba \X Index
    BY Zenon DEF Leads
  <2> QED  BY <1>6, <2>1
<1>12. Leads(t, g)
  BY <1>6, <1>10, <1>11, Zenon DEF Leads
<1> QED  BY <1>9, <1>12

----------------------------------------------------------------------------
(* What the paths lead to when an entry has a new name.                    *)

\* The path x when the last name of p and the name n are exchanged: in every path that
\* goes through the table p's entry is in.
Flip(a, n, c) == IF c = a THEN n ELSE IF c = n THEN a ELSE c
Beside(p, x)  == Len(p) <= Len(x) /\ \A j \in 1 .. Len(p) - 1 : x[j] = p[j]
Turned(p, n, x) ==
  IF Beside(p, x) THEN [j \in 1 .. Len(x) |-> IF j = Len(p) THEN Flip(Leaf(p), n, x[j]) ELSE x[j]]
  ELSE x
Turns(p, n, x, w) ==
  /\ w \in Seq(Names) /\ Len(w) = Len(x)
  /\ \A j \in 1 .. Len(x) :
       w[j] = IF Beside(p, x) /\ j = Len(p) THEN Flip(Leaf(p), n, x[j]) ELSE x[j]

\* It is as long, and differs in that name only.
LEMMA TurnedIs ==
  ASSUME NEW p \in Paths, NEW n \in Names, NEW x \in Seq(Names)
  PROVE  Turns(p, n, x, Turned(p, n, x))
<1>1. PICK c \in Nat : c = Len(x) /\ \A j \in 1 .. c : x[j] \in Names
  OBVIOUS
<1>2. PICK k \in Nat \ {0}, a \in Names : k = Len(p) /\ a = Leaf(p)
  <2>1. Len(p) \in Nat \ {0} /\ Leaf(p) \in Names
    BY PathsAre, Zenon
  <2> QED  BY <2>1, Zenon
<1>3. CASE Beside(p, x)
  <2>1. PICK w : w = [j \in 1 .. c |-> IF j = k THEN Flip(a, n, x[j]) ELSE x[j]]
    OBVIOUS
  <2>2. ASSUME NEW j \in 1 .. c PROVE (IF j = k THEN Flip(a, n, x[j]) ELSE x[j]) \in Names
    <3>1. x[j] \in Names
      BY <1>1
    <3>2. Flip(a, n, x[j]) \in Names
      BY <3>1, Zenon DEF Flip
    <3> QED  BY <3>1, <3>2, Zenon
  <2>3. w \in [1 .. c -> Names]
    BY <2>1, <2>2, Zenon
  <2>4. w \in Seq(Names) /\ Len(w) = c
    BY <2>3
  <2>5. \A j \in 1 .. c : w[j] = IF j = k THEN Flip(a, n, x[j]) ELSE x[j]
    BY <2>1, Zenon
  <2>6. Turned(p, n, x) = w
    BY <1>1, <1>2, <1>3, <2>1, Zenon DEF Turned
  <2>7. Turns(p, n, x, w)
    BY <1>1, <1>2, <1>3, <2>4, <2>5, Zenon DEF Turns
  <2> QED  BY <2>6, <2>7, Zenon
<1>4. CASE ~Beside(p, x)
  BY <1>4, Zenon DEF Turned, Turns
<1> QED  BY <1>3, <1>4, Zenon

\* Exchanged again, the names are as they were.
LEMMA TurnedTwice ==
  ASSUME NEW p \in Paths, NEW n \in Names, NEW x \in Seq(Names)
  PROVE  /\ Beside(p, Turned(p, n, x)) <=> Beside(p, x)
         /\ Turned(p, n, Turned(p, n, x)) = x
         /\ x \in Paths <=> Turned(p, n, x) \in Paths
<1>1. PICK w \in Seq(Names) : w = Turned(p, n, x) /\ Turns(p, n, x, w)
  <2>1. Turns(p, n, x, Turned(p, n, x))
    BY TurnedIs, Zenon
  <2> QED  BY <2>1, Zenon DEF Turns
<1>2. PICK v \in Seq(Names) : v = Turned(p, n, w) /\ Turns(p, n, w, v)
  <2>1. Turns(p, n, w, Turned(p, n, w))
    BY TurnedIs, Zenon
  <2> QED  BY <2>1, Zenon DEF Turns
<1>3. PICK c \in Nat, k \in Nat \ {0} : c = Len(x) /\ k = Len(p)
  <2>1. Len(p) \in Nat \ {0}
    BY PathsAre, Zenon
  <2> QED  BY <2>1
<1>4. /\ Len(w) = c /\ Len(v) = c
      /\ \A j \in 1 .. c : w[j] = IF Beside(p, x) /\ j = k THEN Flip(Leaf(p), n, x[j]) ELSE x[j]
      /\ \A j \in 1 .. c : v[j] = IF Beside(p, w) /\ j = k THEN Flip(Leaf(p), n, w[j]) ELSE w[j]
  BY <1>1, <1>2, <1>3, Zenon DEF Turns
<1>5. Beside(p, w) <=> Beside(p, x)
  <2>1. ASSUME k <= c, NEW j \in 1 .. k - 1 PROVE j \in 1 .. c /\ j # k
    BY <1>3, <2>1
  <2>2. ASSUME k <= c, NEW j \in 1 .. k - 1 PROVE w[j] = x[j]
    BY <1>4, <2>1, <2>2, Zenon
  <2> QED  BY <1>3, <1>4, <2>2, Zenon DEF Beside
<1>6. \A d : Flip(Leaf(p), n, Flip(Leaf(p), n, d)) = d
  BY Zenon DEF Flip
<1>7. \A j \in 1 .. c : v[j] = x[j]
  BY <1>4, <1>5, <1>6, Zenon
<1>8. v = x
  BY <1>3, <1>4, <1>7, SeqEqual, Zenon
<1>9. x \in Paths <=> w \in Paths
  <2>1. \A y \in Seq(Names) : y # << >> <=> Len(y) # 0
    OBVIOUS
  <2> QED  BY <1>3, <1>4, <2>1, Zenon DEF Paths
<1> QED  BY <1>1, <1>2, <1>5, <1>8, <1>9, Zenon

\* What comes before the last name of an exchanged path, and that name.
TurnsUp(p, n, x) ==
  IF Len(x) = Len(p)
  THEN /\ Up(Turned(p, n, x)) = Up(x) /\ Turned(p, n, Up(x)) = Up(x)
       /\ Leaf(Turned(p, n, x)) = IF Up(x) = Up(p) THEN Flip(Leaf(p), n, Leaf(x)) ELSE Leaf(x)
  ELSE Up(Turned(p, n, x)) = Turned(p, n, Up(x)) /\ Leaf(Turned(p, n, x)) = Leaf(x)

\* It is exchanged in the part of a longer path that comes before its last name.
LEMMA TurnedUp ==
  ASSUME NEW p \in Paths, NEW n \in Names, NEW x \in Paths
  PROVE  TurnsUp(p, n, x)
<1>1. /\ x \in Seq(Names) /\ Up(x) \in Seq(Names) /\ Leaf(x) \in Names /\ Ends(x, Up(x), Leaf(x))
      /\ Up(p) \in Seq(Names) /\ Ends(p, Up(p), Leaf(p)) /\ Len(x) \in Nat \ {0} /\ Len(p) \in Nat \ {0}
      /\ Leaf(p) \in Names
  BY PathsAre, Zenon
<1>2. PICK w \in Seq(Names) : w = Turned(p, n, x) /\ Turns(p, n, x, w)
  <2>1. Turns(p, n, x, Turned(p, n, x))
    BY <1>1, TurnedIs, Zenon
  <2> QED  BY <2>1, Zenon DEF Turns
<1>3. PICK y \in Seq(Names) : y = Turned(p, n, Up(x)) /\ Turns(p, n, Up(x), y)
  <2>1. Turns(p, n, Up(x), Turned(p, n, Up(x)))
    BY <1>1, TurnedIs, Zenon
  <2> QED  BY <2>1, Zenon DEF Turns
<1>4. PICK c \in Nat, k \in Nat \ {0}, u \in Seq(Names), a \in Names :
        c = Len(u) /\ k = Len(p) /\ u = Up(x) /\ a = Leaf(x)
  BY <1>1
<1>5. Len(x) = c + 1 /\ x[c + 1] = a /\ \A j \in 1 .. c : x[j] = u[j]
  BY <1>1, <1>4, Zenon DEF Ends
<1>6. /\ Len(w) = c + 1
      /\ \A j \in 1 .. c + 1 : w[j] = IF Beside(p, x) /\ j = k THEN Flip(Leaf(p), n, x[j]) ELSE x[j]
      /\ Len(y) = c
      /\ \A j \in 1 .. c : y[j] = IF Beside(p, u) /\ j = k THEN Flip(Leaf(p), n, u[j]) ELSE u[j]
  BY <1>2, <1>3, <1>4, <1>5, Zenon DEF Turns
<1>7. c + 1 \in 1 .. c + 1 /\ \A j \in 1 .. c : j \in 1 .. c + 1 /\ j # c + 1
  OBVIOUS
<1>8. CASE c + 1 = k
  <2>1. y = u
    <3>1. ~Beside(p, u)
      <4>1. ~(k <= c)
        BY <1>8
      <4> QED  BY <1>4, <4>1, Zenon DEF Beside
    <3>2. \A j \in 1 .. c : y[j] = u[j]
      BY <1>6, <3>1, Zenon
    <3> QED  BY <1>4, <1>6, <3>2, SeqEqual, Zenon
  <2>2. \A j \in 1 .. c : w[j] = u[j]
    BY <1>5, <1>6, <1>7, <1>8, Zenon
  <2>3. Ends(w, u, w[c + 1])
    BY <1>4, <1>6, <2>2, Zenon DEF Ends
  <2>4. w[c + 1] \in Names
    BY <1>6, <1>7
  <2>5. Up(w) = u /\ Leaf(w) = w[c + 1]
    BY <2>3, <2>4, EndsAre, Zenon
  <2>6. Beside(p, x) <=> u = Up(p)
    <3>1. PICK v \in Seq(Names) : v = Up(p)
      BY <1>1
    <3>2. Len(p) = Len(v) + 1 /\ \A j \in 1 .. Len(v) : p[j] = v[j]
      BY <1>1, <3>1, Zenon DEF Ends
    <3>3. Len(v) = c /\ k - 1 = c /\ k <= c + 1
      <4>1. PICK m \in Nat : m = Len(v)
        OBVIOUS
      <4>2. k = m + 1
        BY <1>4, <3>2, <4>1, Zenon
      <4>3. m = c /\ k - 1 = c /\ k <= c + 1
        BY <1>8, <4>2
      <4> QED  BY <4>1, <4>3, Zenon
    <3>4. ASSUME Beside(p, x) PROVE u = v
      <4>1. \A j \in 1 .. c : x[j] = p[j]
        BY <1>4, <3>3, <3>4, Zenon DEF Beside
      <4>2. \A j \in 1 .. c : u[j] = v[j]
        BY <1>5, <3>2, <3>3, <4>1, Zenon
      <4> QED  BY <1>4, <3>3, <4>2, SeqEqual, Zenon
    <3>5. ASSUME u = v PROVE Beside(p, x)
      <4>1. \A j \in 1 .. c : x[j] = p[j]
        BY <1>5, <3>2, <3>3, <3>5, Zenon
      <4> QED  BY <1>4, <1>5, <3>3, <4>1, Zenon DEF Beside
    <3> QED  BY <3>1, <3>4, <3>5, Zenon
  <2>7. w[c + 1] = IF u = Up(p) THEN Flip(Leaf(p), n, a) ELSE a
    BY <1>5, <1>6, <1>7, <1>8, <2>6, Zenon
  <2> QED  BY <1>2, <1>3, <1>4, <1>5, <1>8, <2>1, <2>5, <2>7, Zenon DEF TurnsUp
<1>9. CASE c + 1 # k
  <2>1. Beside(p, x) <=> Beside(p, u)
    <3>1. k <= c + 1 <=> k <= c
      BY <1>9
    <3>2. ASSUME k <= c, NEW j \in 1 .. k - 1 PROVE j \in 1 .. c
      BY <3>2
    <3>3. ASSUME k <= c, NEW j \in 1 .. k - 1 PROVE x[j] = u[j]
      BY <1>5, <3>2, <3>3, Zenon
    <3> QED  BY <1>4, <1>5, <3>1, <3>3, Zenon DEF Beside
  <2>2. \A j \in 1 .. c : w[j] = y[j]
    BY <1>5, <1>6, <1>7, <2>1, Zenon
  <2>3. w[c + 1] = a
    BY <1>5, <1>6, <1>7, <1>9, Zenon
  <2>4. Ends(w, y, a)
    BY <1>6, <2>2, <2>3, Zenon DEF Ends
  <2>5. Up(w) = y /\ Leaf(w) = a
    BY <2>4, EndsAre, Zenon
  <2>6. Len(x) # Len(p)
    BY <1>4, <1>5, <1>9, Zenon
  <2> QED  BY <1>2, <1>3, <1>4, <2>5, <2>6, Zenon DEF TurnsUp
<1> QED  BY <1>8, <1>9, Zenon

\* What f gives the paths, under their names after p's last name and n are exchanged.
TurnedAll(f, p, n) == [x \in {Turned(p, n, y) : y \in DOMAIN f} |-> f[Turned(p, n, x)]]
TurnedTo(f, g, p, n) ==
  /\ DOMAIN g \subseteq Paths
  /\ \A x \in Paths : x \in DOMAIN g <=> Turned(p, n, x) \in DOMAIN f
  /\ \A x \in DOMAIN g : g[x] = f[Turned(p, n, x)]

\* The paths there are then.
LEMMA TurnedAllIs ==
  ASSUME NEW s, NEW f, Leads(s, f), NEW p \in Paths, NEW n \in Names
  PROVE  TurnedTo(f, TurnedAll(f, p, n), p, n)
<1>1. PICK X : X = {Turned(p, n, y) : y \in DOMAIN f}
  OBVIOUS
<1>2. PICK g : g = [x \in X |-> f[Turned(p, n, x)]] /\ g = TurnedAll(f, p, n)
  BY <1>1, Zenon DEF TurnedAll
<1>3. DOMAIN g = X /\ \A x \in X : g[x] = f[Turned(p, n, x)]
  BY <1>2, Zenon
<1>4. \A x \in Paths : x \in Seq(Names) /\ Turned(p, n, Turned(p, n, x)) = x /\ Turned(p, n, x) \in Paths
  <2> TAKE x \in Paths
  <2>1. x \in Seq(Names)
    BY PathsAre, Zenon
  <2> QED  BY <2>1, TurnedTwice, Zenon
<1>5. DOMAIN f \subseteq Paths
  BY Zenon DEF Leads
<1>6. X \subseteq Paths
  <2> SUFFICES ASSUME NEW x \in X PROVE x \in Paths
    OBVIOUS
  <2>1. PICK y \in DOMAIN f : x = Turned(p, n, y)
    BY <1>1, Zenon
  <2>2. y \in Paths
    BY <1>5
  <2> QED  BY <1>4, <2>1, <2>2, Zenon
<1>7. ASSUME NEW x \in Paths PROVE x \in X <=> Turned(p, n, x) \in DOMAIN f
  <2>1. ASSUME x \in X PROVE Turned(p, n, x) \in DOMAIN f
    <3>1. PICK y \in DOMAIN f : x = Turned(p, n, y)
      BY <1>1, <2>1, Zenon
    <3>2. y \in Paths
      BY <1>5
    <3>3. Turned(p, n, x) = y
      BY <1>4, <3>1, <3>2, Zenon
    <3> QED  BY <3>3
  <2>2. ASSUME Turned(p, n, x) \in DOMAIN f PROVE x \in X
    <3>1. x = Turned(p, n, Turned(p, n, x))
      BY <1>4
    <3> QED  BY <1>1, <2>2, <3>1, Zenon
  <2> QED  BY <2>1, <2>2, Zenon
<1> QED  BY <1>2, <1>3, <1>6, <1>7, Zenon DEF TurnedTo

\* An entry with a new name: the paths that go through its slot have that name in them.
LEMMA LeadsRename ==
  ASSUME NEW s, Tables(s), NEW t, NEW D, NEW k, Tree(s, D, k), NEW f, Leads(s, f),
         NEW p \in DOMAIN f, NEW l \in D, NEW i \in Index, f[p] = << l, i >>,
         NEW n \in Names, n # Leaf(p), \A j \in Index : ~Holds(s, << l, j >>, n),
         NEW e, e.type = Ent(s, << l, i >>).type, e.start = Ent(s, << l, i >>).start, e.name = n,
         Patched(s, t, D, l, i, e), NEW g, g = TurnedAll(f, p, n)
  PROVE  Leads(t, g)
<1>1. l \in Lba /\ D \subseteq Lba /\ s[l].entries \in [Index -> Entry]
  BY DEF Tree, Tables
<1>20. Changed(s, t, D, l, i, e)
  BY <1>1, PatchedIs, Zenon
<1>2. \A x \in D \X Index : Ent(t, x) = IF x = << l, i >> THEN e ELSE Ent(s, x)
  BY <1>20, Zenon DEF Changed
<1>3. p \in Paths /\ Holds(s, << l, i >>, Leaf(p)) /\ Len(p) \in Nat /\ Len(Up(p)) \in Nat
      /\ Len(p) = Len(Up(p)) + 1
  <2>1. p \in Paths /\ Holds(s, f[p], Leaf(p))
    BY LeadsAre, Zenon
  <2>2. Len(p) \in Nat /\ Len(Up(p)) \in Nat /\ Len(p) = Len(Up(p)) + 1
    BY <2>1, PathsAre, Zenon
  <2> QED  BY <2>1, <2>2, Zenon
<1>4. InTab(s, f, Up(p), l)
  <2>1. << l, i >>[1] = l
    OBVIOUS
  <2> QED  BY <2>1, LeadsAre, Zenon
<1>5. \A x \in D \X Index : Ent(t, x).type = Ent(s, x).type /\ Ent(t, x).start = Ent(s, x).start
  BY <1>2, Zenon
<1>6. /\ DOMAIN g \subseteq Paths
      /\ \A x \in Paths : x \in DOMAIN g <=> Turned(p, n, x) \in DOMAIN f
      /\ \A x \in DOMAIN g : g[x] = f[Turned(p, n, x)]
  <2>1. TurnedTo(f, g, p, n)
    BY <1>3, TurnedAllIs, Zenon
  <2> QED  BY <2>1, Zenon DEF TurnedTo
<1>7. g = [x \in DOMAIN g |-> g[x]]
  BY DEF TurnedAll
<1>8. \A x \in Paths : Turned(p, n, x) \in Paths /\ x \in Seq(Names) /\ x # << >>
  <2> TAKE x \in Paths
  <2>1. x \in Seq(Names) /\ x # << >>
    BY PathsAre, Zenon
  <2> QED  BY <1>3, <2>1, TurnedTwice, Zenon
<1>9. \A q \in DOMAIN f : f[q] \in D \X Index /\ f[q] \in Lba \X Index
  <2> TAKE q \in DOMAIN f
  <2>1. f[q] \in Busy(s, D) /\ f[q] \in Lba \X Index
    BY LeadsInTree, LeadsAre, Zenon
  <2> QED  BY <2>1 DEF Busy
<1>10. \A x \in DOMAIN g : g[x] \in D \X Index /\ g[x] \in Lba \X Index
  <2> TAKE x \in DOMAIN g
  <2>1. PICK y : y = Turned(p, n, x)
    OBVIOUS
  <2>2. y \in DOMAIN f /\ g[x] = f[y]
    BY <1>6, <2>1, Zenon
  <2> QED  BY <1>9, <2>2, Zenon
<1>11. << >> \notin DOMAIN g /\ << >> \notin DOMAIN f /\ << >> \notin Paths
  BY <1>6 DEF Paths, Leads
<1>12. Turned(p, n, << >>) = << >>
  <2>1. ~Beside(p, << >>)
    <3>1. ~(Len(p) <= Len(<< >>))
      BY <1>3
    <3> QED  BY <3>1, Zenon DEF Beside
  <2> QED  BY <2>1, Zenon DEF Turned
<1>13. ASSUME NEW v, v = << >> \/ v \in Paths, NEW m
       PROVE  InTab(t, g, v, m) <=> InTab(s, f, Turned(p, n, v), m)
  <2>1. CASE v = << >>
    BY <1>11, <1>12, <2>1, Zenon DEF InTab
  <2>2. CASE v \in Paths
    <3>1. v # << >> /\ Turned(p, n, v) # << >>
      BY <1>8, <1>11, <2>2, Zenon
    <3>2. v \in DOMAIN g <=> Turned(p, n, v) \in DOMAIN f
      BY <1>6, <2>2, Zenon
    <3>3. v \in DOMAIN g => /\ g[v] = f[Turned(p, n, v)]
                            /\ Ent(t, g[v]).type = Ent(s, f[Turned(p, n, v)]).type
                            /\ Ent(t, g[v]).start = Ent(s, f[Turned(p, n, v)]).start
      BY <1>5, <1>6, <1>10, Zenon
    <3> QED  BY <3>1, <3>2, <3>3, Zenon DEF InTab
  <2> QED  BY <1>13, <2>1, <2>2
<1>14. ASSUME NEW q \in Paths, NEW b \in Lba \X Index
       PROVE  (q \in DOMAIN g /\ g[q] = b) <=> (Holds(t, b, Leaf(q)) /\ InTab(t, g, Up(q), b[1]))
  <2>1. PICK x \in Paths : x = Turned(p, n, q)
    BY <1>8
  <2>2. (q \in DOMAIN g /\ g[q] = b) <=> (x \in DOMAIN f /\ f[x] = b)
    BY <1>6, <2>1, Zenon
  <2>3. (x \in DOMAIN f /\ f[x] = b) <=> (Holds(s, b, Leaf(x)) /\ InTab(s, f, Up(x), b[1]))
    BY Zenon DEF Leads
  <2>4. InTab(t, g, Up(q), b[1]) <=> InTab(s, f, Turned(p, n, Up(q)), b[1])
    <3>1. Up(q) = << >> \/ Up(q) \in Paths
      BY PathsAre, Zenon
    <3> QED  BY <1>13, <3>1, Zenon
  <2>5. TurnsUp(p, n, q)
    BY <1>3, TurnedUp, Zenon
  <2>6. \A u : InTab(s, f, u, b[1]) => b \in D \X Index
    <3>1. \A u : InTab(s, f, u, b[1]) => b[1] \in D
      BY LeadsInTree, Zenon
    <3> QED  BY <3>1
  <2>7. \A u : InTab(s, f, u, l) => u = Up(p)
    BY <1>4, LeadsOnce, Zenon
  <2>8. b = << l, i >> \/ b[1] # l \/ (b = << l, b[2] >> /\ b[2] \in Index /\ b # << l, i >>)
    OBVIOUS
  <2>9. << l, i >> \in D \X Index /\ << l, i >>[1] = l
    OBVIOUS
  <2>10. Holds(t, << l, i >>, Leaf(q)) <=> Leaf(q) = n
    BY <1>2, <1>3, <2>9, Zenon DEF Holds
  <2>11. Holds(s, << l, i >>, Leaf(x)) <=> Leaf(x) = Leaf(p)
    BY <1>3, Zenon DEF Holds
  <2>12. b \in D \X Index /\ b # << l, i >> => (Holds(t, b, Leaf(q)) <=> Holds(s, b, Leaf(q)))
    BY <1>2, Zenon DEF Holds
  <2>13. CASE Len(q) # Len(p)
    <3>1. Up(x) = Turned(p, n, Up(q)) /\ Leaf(x) = Leaf(q)
      BY <2>1, <2>5, <2>13, Zenon DEF TurnsUp
    <3>2. InTab(t, g, Up(q), b[1]) <=> InTab(s, f, Up(x), b[1])
      BY <2>4, <3>1, Zenon
    <3>3. InTab(s, f, Up(x), b[1]) => b # << l, i >>
      <4> SUFFICES ASSUME InTab(s, f, Up(x), b[1]), b = << l, i >> PROVE FALSE
        OBVIOUS
      <4>1. Up(x) = Up(p)
        BY <2>7, <2>9, Zenon
      <4>2. Len(x) = Len(Up(x)) + 1
        BY PathsAre, Zenon
      <4>3. Len(x) = Len(q)
        <5>1. Turns(p, n, q, x)
          BY <1>3, <1>8, <2>1, TurnedIs, Zenon
        <5> QED  BY <5>1, Zenon DEF Turns
      <4> QED  BY <1>3, <2>13, <4>1, <4>2, <4>3, Zenon
    <3> QED  BY <2>2, <2>3, <2>6, <2>12, <3>1, <3>2, <3>3, Zenon
  <2>14. CASE Len(q) = Len(p)
    <3>1. /\ Up(x) = Up(q) /\ Turned(p, n, Up(q)) = Up(q)
          /\ Leaf(x) = IF Up(q) = Up(p) THEN Flip(Leaf(p), n, Leaf(q)) ELSE Leaf(q)
      BY <2>1, <2>5, <2>14, Zenon DEF TurnsUp
    <3>2. InTab(t, g, Up(q), b[1]) <=> InTab(s, f, Up(q), b[1])
      BY <2>4, <3>1, Zenon
    <3>3. CASE Up(q) # Up(p)
      <4>1. InTab(s, f, Up(q), b[1]) => b # << l, i >>
        BY <2>7, <2>9, <3>3, Zenon
      <4>2. Leaf(x) = Leaf(q)
        BY <3>1, <3>3, Zenon
      <4> QED  BY <2>2, <2>3, <2>6, <2>12, <3>1, <3>2, <4>1, <4>2, Zenon
    <3>4. CASE Up(q) = Up(p)
      <4>1. Leaf(x) = Flip(Leaf(p), n, Leaf(q))
        BY <3>1, <3>4, Zenon
      <4>2. InTab(s, f, Up(q), b[1]) <=> b[1] = l
        BY <1>4, <3>4, TabIs, Zenon
      <4>3. Leaf(x) = Leaf(p) <=> Leaf(q) = n
        BY <4>1, Zenon DEF Flip
      <4>4. CASE b = << l, i >>
        BY <2>2, <2>3, <2>9, <2>10, <2>11, <3>1, <3>2, <4>2, <4>3, <4>4, Zenon
      <4>5. CASE b[1] # l
        BY <2>2, <2>3, <3>1, <3>2, <4>2, <4>5, Zenon
      <4>6. CASE b = << l, b[2] >> /\ b[2] \in Index /\ b # << l, i >>
        <5>1. ~Holds(s, b, n)
          BY <4>6, Zenon
        <5>2. ~Holds(s, b, Leaf(p))
          <6> SUFFICES ASSUME Holds(s, b, Leaf(p)) PROVE FALSE
            OBVIOUS
          <6>1. b[1] = l
            BY <4>6
          <6>3. p \in Paths /\ InTab(s, f, Up(p), b[1]) /\ Holds(s, b, Leaf(p))
            BY <1>3, <1>4, <6>1, Zenon
          <6>2. f[p] = b
            BY <6>3, LeadsTo
          <6> QED  BY <4>6, <6>2, Zenon
        <5>3. Holds(s, b, Leaf(x)) <=> Holds(s, b, Leaf(q))
          BY <4>1, <5>1, <5>2, Zenon DEF Flip
        <5> QED  BY <2>2, <2>3, <2>6, <2>12, <3>1, <3>2, <4>6, <5>3, Zenon
      <4> QED  BY <2>8, <4>4, <4>5, <4>6, Zenon
    <3> QED  BY <3>3, <3>4
  <2> QED  BY <2>13, <2>14
<1> QED  BY <1>6, <1>7, <1>10, <1>14, Zenon DEF Leads

----------------------------------------------------------------------------
(* Walks, by what the paths lead to.                                       *)

\* A walk over directories ends at the table the path leads to.
LEMMA WalkLeads ==
  ASSUME TypeOK, NEW D, NEW k, Tree(sector, D, k), NEW f, Leads(sector, f),
         NEW u \in Seq(Names), Len(u) <= MaxDepth, Walk(u) # NoTable
  PROVE  InTab(sector, f, u, Walk(u))
<1>1. PICK N \in Nat, d \in Nat : N = Len(u) /\ d = MaxDepth /\ N <= d
        /\ \A n \in 1 .. N : u[n] \in Names
  <2>1. Len(u) \in Nat /\ MaxDepth \in Nat
    BY Constants
  <2> QED  BY <2>1
<1>2. PICK at : WalkFrom(at, u)
  <2>1. ROOT \in Lba
    BY Constants
  <2> QED  BY <2>1, IntoIsTable, WalkRuns
<1>3. Walk(u) = at[N] /\ at[0] = ROOT /\ \A n \in 0 .. N : n # 0 => at[n] = Into(at[n - 1], u[n])
  BY <1>1, <1>2, Zenon DEF WalkFrom
<1> DEFINE W(n) == SubSeq(u, 1, n)
           G == { n \in Nat : n <= N /\ at[n] # NoTable => InTab(sector, f, W(n), at[n]) }
<1>4. \A n \in 0 .. N : W(n) \in Seq(Names) /\ Len(W(n)) = n /\ \A j \in 1 .. n : W(n)[j] = u[j]
  <2> TAKE n \in 0 .. N
  <2>1. n \in Nat /\ n <= N
    OBVIOUS
  <2>2. \A j \in 1 .. n : u[j] \in Names
    BY <1>1, <2>1
  <2> QED  BY <1>1, <2>1, <2>2
<1>5. 0 \in G
  <2>1. W(0) = << >>
    OBVIOUS
  <2>2. InTab(sector, f, << >>, ROOT)
    BY Zenon DEF InTab
  <2> QED  BY <1>3, <2>1, <2>2
<1>6. \A n \in Nat : n \in G => n + 1 \in G
  <2> TAKE n \in Nat
  <2> HAVE n \in G
  <2> SUFFICES ASSUME n + 1 <= N, at[n + 1] # NoTable PROVE InTab(sector, f, W(n + 1), at[n + 1])
    OBVIOUS
  <2>1. n \in 0 .. N /\ n + 1 \in 0 .. N /\ n + 1 # 0 /\ (n + 1) - 1 = n /\ n + 1 \in 1 .. N
        /\ n + 1 <= d + 1
    BY <1>1
  <2>2. PICK l : l = at[n]
    OBVIOUS
  <2>19. PICK a \in Names : a = u[n + 1]
    BY <1>1, <2>1
  <2>3. at[n + 1] = Into(l, a)
    BY <1>3, <2>1, <2>2, <2>19, Zenon
  <2>4. l # NoTable /\ Named(Table(l), a) # {} /\ EntryOf(l, a).type = "dir"
        /\ at[n + 1] = EntryOf(l, a).start
    BY <2>3, Zenon DEF Into
  <2>5. PICK w \in Seq(Names) : w = W(n)
    BY <1>4, <2>1, Zenon
  <2>6. PICK q \in Seq(Names) : q = W(n + 1)
    BY <1>4, <2>1, Zenon
  <2>7. InTab(sector, f, w, l)
    BY <2>1, <2>2, <2>4, <2>5
  <2> HIDE DEF G, W
  <2>8. Len(w) = n /\ \A j \in 1 .. n : w[j] = u[j]
    BY <1>4, <2>1, <2>5, Zenon
  <2>9. Len(q) = n + 1 /\ \A j \in 1 .. n + 1 : q[j] = u[j]
    BY <1>4, <2>1, <2>6, Zenon
  <2>10. Ends(q, w, a)
    <3>1. \A j \in 1 .. n : j \in 1 .. n + 1
      OBVIOUS
    <3>2. n + 1 \in 1 .. n + 1
      OBVIOUS
    <3> QED  BY <2>19, <2>8, <2>9, <3>1, <3>2, Zenon DEF Ends
  <2>11. q # << >> /\ Up(q) = w /\ Leaf(q) = a
    BY <2>10, EndsAre, Zenon
  <2>12. q \in Paths
    BY <1>1, <2>1, <2>9, <2>11, Zenon DEF Paths
  <2>13. l \in D /\ l \in Lba
    <3>1. l \in D
      BY <2>7, LeadsInTree, Zenon
    <3> QED  BY <3>1 DEF Tree
  <2>14. PICK i \in Index : i = First(Named(Table(l), a)) /\ Table(l)[i].name = a /\ Table(l)[i].type # "free"
    BY <2>4, <2>13, TableIs, NamedIs
  <2>15. PICK b \in Lba \X Index : b = << l, i >> /\ b[1] = l /\ b[2] = i
    <3>1. PICK m \in Lba : m = l
      BY <2>13
    <3>2. << m, i >> \in Lba \X Index /\ << m, i >>[1] = m /\ << m, i >>[2] = i
      OBVIOUS
    <3> QED  BY <3>1, <3>2, Zenon
  <2>16. Ent(sector, b) = Table(l)[i] /\ EntryOf(l, a) = Table(l)[i]
    BY <2>14, <2>15, Zenon DEF Ent, Table, EntryOf
  <2>17. Holds(sector, b, Leaf(q)) /\ InTab(sector, f, Up(q), b[1])
    BY <2>7, <2>11, <2>14, <2>15, <2>16, Zenon DEF Holds
  <2>18. q \in DOMAIN f /\ f[q] = b
    BY <2>12, <2>17, LeadsTo
  <2> QED  BY <2>4, <2>6, <2>16, <2>18, Zenon DEF InTab
<1>7. N \in G
  <2> HIDE DEF G
  <2> QED  BY <1>5, <1>6, EveryNat
<1>8. W(N) = u
  <2>1. N \in 0 .. N
    OBVIOUS
  <2>2. W(N) \in Seq(Names) /\ Len(W(N)) = Len(u) /\ \A j \in 1 .. Len(W(N)) : W(N)[j] = u[j]
    BY <1>1, <1>4, <2>1, Zenon
  <2> HIDE DEF W
  <2> QED  BY <2>2, SeqEqual, Zenon
<1>9. at[N] # NoTable => InTab(sector, f, W(N), at[N])
  BY <1>7
<1> HIDE DEF G, W
<1> QED  BY <1>3, <1>8, <1>9, Zenon

\* What a path of a call leads to, and the table a new entry goes into.
LEMMA SlotLeads ==
  ASSUME TypeOK, NEW D, NEW k, Tree(sector, D, k), NEW f, Leads(sector, f)
  PROVE  /\ \A p, l, i : SlotAt(p, l, i) =>
              p \in Paths /\ p \in DOMAIN f /\ f[p] = << l, i >> /\ l \in D /\ i \in Index
              /\ At(p) = Ent(sector, << l, i >>) /\ At(p) \in Entry /\ At(p).name = Leaf(p)
         /\ \A l \in Lba : OnWalk(l) =>
              \E u \in Seq(Names) : Len(u) <= MaxDepth /\ InTab(sector, f, u, l)
<1>1. ASSUME NEW p, NEW l, NEW i, SlotAt(p, l, i)
      PROVE  p \in Paths /\ p \in DOMAIN f /\ f[p] = << l, i >> /\ l \in D /\ i \in Index
             /\ At(p) = Ent(sector, << l, i >>) /\ At(p) \in Entry /\ At(p).name = Leaf(p)
  <2>1. p \in Path /\ Found(p) /\ l = InTable(p) /\ i = SlotOf(p)
    BY <1>1, Zenon DEF SlotAt
  <2>2. /\ p \in Seq(Names) /\ Len(p) \in Nat \ {0} /\ Len(p) <= MaxDepth
        /\ Up(p) \in Seq(Names) /\ Len(Up(p)) <= MaxDepth
    BY <2>1, PathParts, Zenon DEF Up
  <2>3. p \in Paths
    <3>1. PICK d \in Nat : d = MaxDepth
      BY Constants
    <3>2. PICK c \in Nat \ {0} : c = Len(p) /\ c <= d
      BY <2>2, <3>1, Zenon
    <3>3. c <= d + 1 /\ Len(p) # 0
      BY <3>2
    <3>4. p # << >> /\ Len(p) <= MaxDepth + 1
      <4>1. Len(<< >>) = 0
        OBVIOUS
      <4> QED  BY <3>1, <3>2, <3>3, <4>1, Zenon
    <3> QED  BY <2>2, <3>4, Zenon DEF Paths
  <2>4. l \in D /\ i \in Index /\ At(p) = Ent(sector, << l, i >>) /\ At(p) \in Entry
    BY <1>1, WalksInTree, Zenon
  <2>5. At(p).name = Leaf(p) /\ At(p).type # "free"
    BY <2>1, FoundIs, Zenon
  <2>6. l = Walk(Up(p)) /\ l # NoTable
    BY <2>1, Zenon DEF InTable, Up, Found
  <2>7. InTab(sector, f, Up(p), l)
    BY <2>2, <2>6, WalkLeads, Zenon
  <2>8. PICK b \in Lba \X Index : b = << l, i >> /\ b[1] = l
    <3>1. l \in Lba
      BY <2>4 DEF Tree
    <3> QED  BY <2>4, <3>1
  <2>9. Holds(sector, b, Leaf(p)) /\ InTab(sector, f, Up(p), b[1])
    BY <2>4, <2>5, <2>7, <2>8, Zenon DEF Holds
  <2>10. p \in DOMAIN f /\ f[p] = b
    BY <2>3, <2>9, LeadsTo
  <2> QED  BY <2>3, <2>4, <2>5, <2>8, <2>10, Zenon
<1>2. ASSUME NEW l \in Lba, OnWalk(l)
      PROVE  \E u \in Seq(Names) : Len(u) <= MaxDepth /\ InTab(sector, f, u, l)
  <2>1. PICK u \in Seq(Names) : Len(u) <= MaxDepth /\ l = Walk(u)
    BY <1>2, Zenon DEF OnWalk
  <2>2. l # NoTable
    BY Constants
  <2>3. InTab(sector, f, u, l)
    BY <2>1, <2>2, WalkLeads, Zenon
  <2> QED  BY <2>1, <2>3
<1> QED  BY <1>1, <1>2, Zenon

\* What a path that has a slot leads to.
LEMMA SlotHas ==
  ASSUME TypeOK, NEW D, NEW k, Tree(sector, D, k), NEW f, Leads(sector, f), NEW p, NEW l, NEW i, SlotAt(p, l, i)
  PROVE  /\ p \in Paths /\ p \in DOMAIN f /\ f[p] = << l, i >> /\ l \in D /\ i \in Index
         /\ At(p) = Ent(sector, << l, i >>) /\ At(p) \in Entry /\ At(p).name = Leaf(p)
<1>1. \A q, m, j : SlotAt(q, m, j) =>
        q \in Paths /\ q \in DOMAIN f /\ f[q] = << m, j >> /\ m \in D /\ j \in Index
        /\ At(q) = Ent(sector, << m, j >>) /\ At(q) \in Entry /\ At(q).name = Leaf(q)
  BY SlotLeads
<1> QED  BY <1>1, Zenon

\* A named entry is among those with its name.
LEMMA NamedHas ==
  ASSUME NEW tab, NEW n, NEW j \in Index, tab[j].type # "free", tab[j].name = n
  PROVE  j \in Named(tab, n)
BY DEF Named

----------------------------------------------------------------------------
(* The store, by what the paths lead to.                                   *)

\* What an entry says, and what the paths f gives entries say.
Value(s, e) ==
  [type |-> e.type, data |-> IF e.type = "file" THEN [u \in 1 .. e.size |-> Unit(s, e, u)] ELSE << >>]
View(s, f)  == [p \in DOMAIN f |-> Value(s, Ent(s, f[p]))]
Item(f, p)  == [path |-> p, lba |-> f[p][1], slot |-> f[p][2]]

\* The listing of the table u leads to, and one of all paths of up to n names.
Lists(A, f, u)   == \A x : x \in A <=> \E p \in DOMAIN f : Up(p) = u /\ x = Item(f, p)
Reaches(A, f, n) == \A x : x \in A <=> \E p \in DOMAIN f : Len(p) <= n /\ x = Item(f, p)

\* The item of a path.
LEMMA ItemOf ==
  ASSUME NEW f, Leads(sector, f), NEW p \in DOMAIN f
  PROVE  /\ Item(f, p).path = p /\ Item(f, p).lba = f[p][1] /\ Item(f, p).slot = f[p][2]
         /\ EntryAt(Item(f, p)) = Ent(sector, f[p])
         /\ f[p] = << f[p][1], f[p][2] >> /\ f[p][1] \in Lba /\ f[p][2] \in Index
<1>1. PICK b \in Lba \X Index : b = f[p]
  BY LeadsAre, Zenon
<1>2. b = << b[1], b[2] >> /\ b[1] \in Lba /\ b[2] \in Index
  OBVIOUS
<1>3. Item(f, p).path = p /\ Item(f, p).lba = b[1] /\ Item(f, p).slot = b[2]
  BY <1>1 DEF Item
<1>4. EntryAt(Item(f, p)) = Ent(sector, b)
  BY <1>3, Zenon DEF EntryAt, Table, Ent
<1> QED  BY <1>1, <1>2, <1>3, <1>4, Zenon

\* The entries of the table a path leads to are those of the paths with a name more.
LEMMA ListingIs ==
  ASSUME TypeOK, NEW D, NEW k, Tree(sector, D, k), NEW f, Leads(sector, f),
         NEW u \in Seq(Names), Len(u) <= MaxDepth, NEW l, InTab(sector, f, u, l)
  PROVE  Lists(Listing(u, l), f, u)
<1>1. l \in D /\ l \in Lba
  <2>1. l \in D
    BY LeadsInTree, Zenon
  <2> QED  BY <2>1 DEF Tree
<1>2. Table(l) \in [Index -> Entry] /\ Table(l) = sector[l].entries
  BY <1>1, TableIs DEF Table
<1>3. ASSUME NEW x \in Listing(u, l) PROVE \E p \in DOMAIN f : Up(p) = u /\ x = Item(f, p)
  <2>1. PICK i \in Index \ FreeIn(Table(l)) :
          x = [path |-> Append(u, Table(l)[i].name), lba |-> l, slot |-> i]
    BY <1>3, Zenon DEF Listing
  <2>2. i \in Index /\ Table(l)[i].type # "free"
    BY <2>1 DEF FreeIn
  <2>3. PICK a \in Names : a = Table(l)[i].name
    <3>1. Table(l)[i] \in Entry
      BY <1>2, <2>2, Zenon
    <3> QED  BY <3>1, EntryParts, Zenon
  <2>4. PICK p : p = Append(u, a) /\ Longer(p, u, a)
    BY Zenon DEF Longer
  <2>5. p \in Paths /\ Up(p) = u /\ Leaf(p) = a
    BY <2>4, PathMade, Zenon
  <2>6. PICK b \in Lba \X Index : b = << l, i >> /\ b[1] = l /\ b[2] = i
    <3>1. PICK m \in Lba : m = l
      BY <1>1
    <3>2. << m, i >> \in Lba \X Index /\ << m, i >>[1] = m /\ << m, i >>[2] = i
      BY <2>2
    <3> QED  BY <3>1, <3>2, Zenon
  <2>7. Holds(sector, b, Leaf(p)) /\ InTab(sector, f, Up(p), b[1])
    BY <1>2, <2>2, <2>3, <2>5, <2>6, Zenon DEF Holds, Ent
  <2>8. p \in DOMAIN f /\ f[p] = b
    BY <2>5, <2>7, LeadsTo
  <2>9. x = Item(f, p)
    BY <2>1, <2>3, <2>4, <2>6, <2>8, Zenon DEF Item
  <2> QED  BY <2>5, <2>8, <2>9
<1>4. ASSUME NEW p \in DOMAIN f, Up(p) = u PROVE Item(f, p) \in Listing(u, l)
  <2>1. PICK b \in Lba \X Index : b = f[p] /\ Holds(sector, b, Leaf(p)) /\ InTab(sector, f, u, b[1])
    BY <1>4, LeadsAre, Zenon
  <2>2. b[1] = l
    BY <2>1, TabIs, Zenon
  <2>3. PICK i \in Index : i = b[2]
    OBVIOUS
  <2>4. Table(l)[i].type # "free" /\ Table(l)[i].name = Leaf(p)
    BY <1>2, <2>1, <2>2, <2>3, Zenon DEF Holds, Ent
  <2>5. p \in Paths /\ p \in Seq(Names) /\ Leaf(p) \in Names /\ Ends(p, u, Leaf(p))
    <3>1. p \in Paths
      BY LeadsAre, Zenon
    <3> QED  BY <1>4, <3>1, PathsAre, Zenon
  <2>6. PICK q : q = Append(u, Leaf(p)) /\ Longer(q, u, Leaf(p))
    BY Zenon DEF Longer
  <2>7. q \in Seq(Names) /\ Ends(q, u, Leaf(p))
    BY <2>5, <2>6, LongerIs, Zenon DEF Sound
  <2>8. p = q
    BY <2>5, <2>7, EndsSame, Zenon
  <2>9. Item(f, p) = [path |-> Append(u, Table(l)[i].name), lba |-> l, slot |-> i]
    BY <2>1, <2>2, <2>3, <2>4, <2>6, <2>8, Zenon DEF Item
  <2>10. i \in Index \ FreeIn(Table(l))
    BY <2>4 DEF FreeIn
  <2> QED  BY <2>9, <2>10, Zenon DEF Listing
<1> QED  BY <1>3, <1>4, Zenon DEF Lists

\* One step deeper are the paths of a name more.
LEMMA DeeperIs ==
  ASSUME TypeOK, NEW D, NEW k, Tree(sector, D, k), NEW f, Leads(sector, f),
         NEW n \in Nat \ {0}, n <= MaxDepth, NEW A, Reaches(A, f, n)
  PROVE  Reaches(Deeper(A), f, n + 1)
<1>1. \A p \in DOMAIN f : p \in Paths /\ p \in Seq(Names) /\ Len(p) \in Nat \ {0} /\ Up(p) \in Seq(Names)
                          /\ Len(Up(p)) \in Nat /\ Len(p) = Len(Up(p)) + 1
  <2> TAKE p \in DOMAIN f
  <2>1. p \in Paths
    BY LeadsAre, Zenon
  <2> QED  BY <2>1, PathsAre, Zenon
<1>2. ASSUME NEW p \in DOMAIN f, Len(p) <= n, Ent(sector, f[p]).type = "dir"
      PROVE  Lists(Listing(p, Ent(sector, f[p]).start), f, p)
  <2>1. p \in Seq(Names) /\ Len(p) <= MaxDepth
    <3>1. Len(p) \in Nat /\ MaxDepth \in Nat
      BY <1>1, Constants
    <3> QED  BY <1>1, <1>2, <3>1
  <2>2. InTab(sector, f, p, Ent(sector, f[p]).start)
    BY <1>2, Zenon DEF InTab
  <2> QED  BY <2>1, <2>2, ListingIs, Zenon
<1>3. ASSUME NEW y \in Deeper(A) PROVE \E q \in DOMAIN f : Len(q) <= n + 1 /\ y = Item(f, q)
  <2>1. CASE y \in A
    <3>1. PICK q \in DOMAIN f : Len(q) <= n /\ y = Item(f, q)
      BY <2>1, Zenon DEF Reaches
    <3>2. Len(q) <= n + 1
      BY <1>1, <3>1
    <3> QED  BY <3>1, <3>2
  <2>2. CASE y \notin A
    <3>1. PICK x \in A : EntryAt(x).type = "dir" /\ y \in Listing(x.path, EntryAt(x).start)
      BY <1>3, <2>2 DEF Deeper
    <3>2. PICK p \in DOMAIN f : Len(p) <= n /\ x = Item(f, p)
      BY <3>1, Zenon DEF Reaches
    <3>3. x.path = p /\ EntryAt(x) = Ent(sector, f[p])
      BY <3>2, ItemOf, Zenon
    <3>4. Lists(Listing(p, Ent(sector, f[p]).start), f, p)
      BY <1>2, <3>1, <3>2, <3>3, Zenon
    <3>5. PICK q \in DOMAIN f : Up(q) = p /\ y = Item(f, q)
      BY <3>1, <3>3, <3>4, Zenon DEF Lists
    <3>6. Len(q) <= n + 1
      <4>1. PICK c \in Nat : c = Len(p) /\ c <= n
        BY <1>1, <3>2
      <4>2. Len(q) = c + 1
        BY <1>1, <3>5, <4>1, Zenon
      <4>3. c + 1 <= n + 1
        BY <4>1
      <4> QED  BY <4>2, <4>3, Zenon
    <3> QED  BY <3>5, <3>6
  <2> QED  BY <2>1, <2>2
<1>4. ASSUME NEW q \in DOMAIN f, Len(q) <= n + 1 PROVE Item(f, q) \in Deeper(A)
  <2>1. CASE Len(q) <= n
    <3>1. Item(f, q) \in A
      BY <2>1, Zenon DEF Reaches
    <3> QED  BY <3>1 DEF Deeper
  <2>2. CASE ~(Len(q) <= n)
    <3>1. PICK c \in Nat : c = Len(Up(q)) /\ Len(q) = c + 1
      BY <1>1, Zenon
    <3>2. c = n /\ c # 0 /\ c <= n
      <4>1. PICK m \in Nat : m = Len(q)
        BY <1>1
      <4>2. m <= n + 1 /\ ~(m <= n) /\ m = c + 1
        BY <1>4, <2>2, <3>1, <4>1, Zenon
      <4> QED  BY <4>2
    <3>3. PICK p : p = Up(q)
      OBVIOUS
    <3>4. p # << >> /\ InTab(sector, f, p, f[q][1])
      <4>1. Len(<< >>) = 0
        OBVIOUS
      <4>2. InTab(sector, f, Up(q), f[q][1])
        BY LeadsAre, Zenon
      <4> QED  BY <3>1, <3>2, <3>3, <4>1, <4>2, Zenon
    <3>5. p \in DOMAIN f /\ Ent(sector, f[p]).type = "dir" /\ Ent(sector, f[p]).start = f[q][1]
      BY <3>4, Zenon DEF InTab
    <3>6. Len(p) <= n
      BY <3>1, <3>2, <3>3, Zenon
    <3>7. Lists(Listing(p, Ent(sector, f[p]).start), f, p)
      BY <1>2, <3>5, <3>6, Zenon
    <3>8. Item(f, q) \in Listing(p, Ent(sector, f[p]).start)
      BY <3>3, <3>7, Zenon DEF Lists
    <3>9. PICK x : x = Item(f, p)
      OBVIOUS
    <3>10. x \in A
      BY <3>5, <3>6, <3>9, Zenon DEF Reaches
    <3>11. x.path = p /\ EntryAt(x) = Ent(sector, f[p])
      BY <3>5, <3>9, ItemOf, Zenon
    <3>12. Item(f, q) \in Listing(x.path, EntryAt(x).start) /\ EntryAt(x).type = "dir"
      BY <3>5, <3>8, <3>11, Zenon
    <3> QED  BY <3>10, <3>12 DEF Deeper
  <2> QED  BY <2>1, <2>2
<1> QED  BY <1>3, <1>4, Zenon DEF Reaches

\* What the paths lead to is all that f gives them.
LEMMA LiveIs ==
  ASSUME TypeOK, NEW D, NEW k, Tree(sector, D, k), NEW f, Leads(sector, f)
  PROVE  \A x : x \in Live <=> \E p \in DOMAIN f : x = Item(f, p)
<1>1. PICK N \in Nat \ {0} : N = MaxDepth
  BY Constants
<1>2. PICK up : LiveFrom(up)
  <2>1. PICK G : G = Grown(D)
    OBVIOUS
  <2>2. Listing(<< >>, ROOT) \in G /\ \A A \in G : Deeper(A) \in G
    BY <2>1, GrownDeeper, Zenon
  <2> QED  BY <2>2, LiveRuns, Zenon
<1>3. Live = up[N] /\ up[0] = Listing(<< >>, ROOT)
      /\ \A n \in 0 .. N : n # 0 => up[n] = Deeper(up[n - 1])
  BY <1>1, <1>2, Zenon DEF LiveFrom
<1>4. \A p \in DOMAIN f : Len(p) \in Nat \ {0} /\ Len(p) <= N + 1 /\ Up(p) \in Seq(Names)
                          /\ Len(p) = Len(Up(p)) + 1 /\ Len(Up(p)) \in Nat
  <2> TAKE p \in DOMAIN f
  <2>1. p \in Paths
    BY LeadsAre, Zenon
  <2> QED  BY <1>1, <2>1, PathsAre, Zenon
<1> DEFINE G == { n \in Nat : n <= N => Reaches(up[n], f, n + 1) }
<1>5. 0 \in G
  <2>1. << >> \in Seq(Names) /\ Len(<< >>) = 0
    OBVIOUS
  <2>2. 0 <= N
    OBVIOUS
  <2>3. Lists(Listing(<< >>, ROOT), f, << >>)
    <3>1. InTab(sector, f, << >>, ROOT)
      BY Zenon DEF InTab
    <3> QED  BY <1>1, <2>1, <2>2, <3>1, ListingIs, Zenon
  <2>4. \A p \in DOMAIN f : Up(p) = << >> <=> Len(p) <= 1
    <3> TAKE p \in DOMAIN f
    <3>1. PICK c \in Nat : c = Len(Up(p)) /\ Len(p) = c + 1
      BY <1>4, Zenon
    <3>2. c + 1 <= 1 <=> c = 0
      OBVIOUS
    <3>3. \A v \in Seq(Names) : Len(v) = 0 <=> v = << >>
      OBVIOUS
    <3>4. c = 0 <=> Up(p) = << >>
      BY <1>4, <3>1, <3>3, Zenon
    <3> QED  BY <3>1, <3>2, <3>4, Zenon
  <2>5. Reaches(up[0], f, 1)
    BY <1>3, <2>3, <2>4, Zenon DEF Lists, Reaches
  <2>6. 0 + 1 = 1
    OBVIOUS
  <2>7. Reaches(up[0], f, 0 + 1)
    BY <2>5, <2>6, Zenon
  <2> QED  BY <2>7
<1>6. \A n \in Nat : n \in G => n + 1 \in G
  <2> TAKE n \in Nat
  <2> HAVE n \in G
  <2> SUFFICES ASSUME n + 1 <= N PROVE Reaches(up[n + 1], f, (n + 1) + 1)
    OBVIOUS
  <2>1. n <= N /\ n + 1 \in 0 .. N /\ n + 1 # 0 /\ (n + 1) - 1 = n /\ n + 1 \in Nat \ {0}
    OBVIOUS
  <2>2. Reaches(up[n], f, n + 1)
    BY <2>1
  <2>3. up[n + 1] = Deeper(up[n])
    BY <1>3, <2>1, Zenon
  <2>4. Reaches(Deeper(up[n]), f, (n + 1) + 1)
    BY <1>1, <2>1, <2>2, DeeperIs, Zenon
  <2> QED  BY <2>3, <2>4, Zenon
<1>7. N \in G
  <2> HIDE DEF G
  <2> QED  BY <1>5, <1>6, EveryNat
<1>8. Reaches(Live, f, N + 1)
  <2>1. N <= N
    OBVIOUS
  <2>2. Reaches(up[N], f, N + 1)
    BY <1>7, <2>1
  <2> QED  BY <1>3, <2>2, Zenon
<1> QED  BY <1>4, <1>8, Zenon DEF Reaches

\* The store is what f gives the paths.
LEMMA ContentsAre ==
  ASSUME TypeOK, NEW D, NEW k, Tree(sector, D, k), NEW f, Leads(sector, f)
  PROVE  Contents = View(sector, f)
<1>1. \A x : x \in Live <=> \E p \in DOMAIN f : x = Item(f, p)
  BY LiveIs, Zenon
<1>2. \A p \in DOMAIN f : Item(f, p).path = p /\ EntryAt(Item(f, p)) = Ent(sector, f[p])
  <2> TAKE p \in DOMAIN f
  <2> QED  BY ItemOf, Zenon
<1>3. PICK P : P = {x.path : x \in Live}
  OBVIOUS
<1>4. P = DOMAIN f
  <2>1. ASSUME NEW y \in P PROVE y \in DOMAIN f
    <3>1. PICK x \in Live : y = x.path
      BY <1>3, Zenon
    <3>2. PICK p \in DOMAIN f : x = Item(f, p)
      BY <1>1, Zenon
    <3> QED  BY <1>2, <3>1, <3>2, Zenon
  <2>2. ASSUME NEW p \in DOMAIN f PROVE p \in P
    <3>1. Item(f, p) \in Live /\ Item(f, p).path = p
      BY <1>1, <1>2, Zenon
    <3> QED  BY <1>3, <3>1, Zenon
  <2> QED  BY <2>1, <2>2
<1>5. ASSUME NEW p \in DOMAIN f PROVE (CHOOSE x \in Live : x.path = p) = Item(f, p)
  <2>1. Item(f, p) \in Live /\ Item(f, p).path = p
    BY <1>1, <1>2, Zenon
  <2>2. PICK y : y = CHOOSE x \in Live : x.path = p
    OBVIOUS
  <2>3. y \in Live /\ y.path = p
    BY <2>1, <2>2, Zenon
  <2>4. PICK q \in DOMAIN f : y = Item(f, q)
    BY <1>1, <2>3, Zenon
  <2>5. q = p
    BY <1>2, <2>3, <2>4, Zenon
  <2> QED  BY <2>2, <2>4, <2>5, Zenon
<1>6. ASSUME NEW p \in DOMAIN f
      PROVE  (LET e == EntryAt(CHOOSE x \in Live : x.path = p)
              IN  [type |-> e.type, data |-> IF e.type = "file" THEN Content(e) ELSE <<>>])
             = Value(sector, Ent(sector, f[p]))
  <2>1. PICK e : e = Ent(sector, f[p])
    OBVIOUS
  <2>2. EntryAt(CHOOSE x \in Live : x.path = p) = e
    BY <1>2, <1>5, <2>1, Zenon
  <2>3. Content(e) = [u \in 1 .. e.size |-> Unit(sector, e, u)]
    BY Zenon DEF Content, Unit, SectorOf, OffsetOf
  <2> QED  BY <2>1, <2>2, <2>3, Zenon DEF Value
<1>7. Contents = [p \in {x.path : x \in Live} |-> LET e == EntryAt(CHOOSE x \in Live : x.path = p)
                                              IN  [type |-> e.type, data |-> IF e.type = "file" THEN Content(e) ELSE <<>>]]
  BY Zenon DEF Contents
<1>8. Contents = [p \in DOMAIN f |-> LET e == EntryAt(CHOOSE x \in Live : x.path = p)
                                    IN  [type |-> e.type, data |-> IF e.type = "file" THEN Content(e) ELSE <<>>]]
  BY <1>3, <1>4, <1>7, Zenon
<1> QED  BY <1>6, <1>8, Zenon DEF View

----------------------------------------------------------------------------
(* What the calls do to the store.                                         *)

\* On t, entry e says what it does on the disk, and a file that is there still is.
Intact(t, e)   == /\ Value(t, e) = Value(sector, e)
                  /\ e.type = "file" /\ Filled(sector, e) => Filled(t, e)
AllFiles(s, f) == \A p \in DOMAIN f : Ent(s, f[p]).type = "file" => Filled(s, Ent(s, f[p]))

\* t has paths that lead to what the store was, or to what a call may make of it.
Follows(f, t) ==
  \E g : /\ Leads(t, g) /\ AllFiles(t, g)
         /\ View(t, g) = View(sector, f) \/ Store!Call(View(sector, f), View(t, g))

\* An entry with the units it has.
LEMMA IntactIs ==
  ASSUME NEW t, NEW e, e.type = "file" => \A u \in 1 .. e.size : Unit(t, e, u) = Unit(sector, e, u)
  PROVE  Intact(t, e)
<1>1. CASE e.type = "file"
  <2>1. \A u \in 1 .. e.size : Unit(t, e, u) = Unit(sector, e, u)
    BY <1>1
  <2>2. [u \in 1 .. e.size |-> Unit(t, e, u)] = [u \in 1 .. e.size |-> Unit(sector, e, u)]
    BY <2>1, Zenon
  <2>3. Value(t, e) = Value(sector, e)
    BY <2>2, Zenon DEF Value
  <2>4. Filled(sector, e) => Filled(t, e)
    BY <2>1, Zenon DEF Filled
  <2> QED  BY <2>3, <2>4, Zenon DEF Intact
<1>2. CASE e.type # "file"
  <2>1. Value(t, e) = Value(sector, e)
    BY <1>2, Zenon DEF Value
  <2> QED  BY <1>2, <2>1, Zenon DEF Intact
<1> QED  BY <1>1, <1>2

\* The sectors of a file of the tree are no tables and not new.
LEMMA FileSectors ==
  ASSUME TypeOK, NEW D, Tree(sector, D, next), NEW x \in Busy(sector, D),
         Ent(sector, x).type = "file", NEW u \in 1 .. Ent(sector, x).size
  PROVE  /\ SectorOf(Ent(sector, x), u) \in Span(Ent(sector, x))
         /\ SectorOf(Ent(sector, x), u) \in Lba /\ SectorOf(Ent(sector, x), u) < next
         /\ SectorOf(Ent(sector, x), u) \notin D
<1>1. PICK e \in Entry : e = Ent(sector, x) /\ e.type = "file"
  <2>1. Tables(sector)
    BY DEF TypeOK, Tables
  <2> QED  BY <2>1, BusyIs, Zenon
<1>2. Span(e) \subseteq START .. next - 1 /\ Span(e) \cap D = {}
  BY <1>1 DEF Tree
<1>3. PICK y : y = SectorOf(e, u)
  OBVIOUS
<1>4. y \in Span(e)
  <2>1. u \in 1 .. e.size
    BY <1>1
  <2>2. y \in e.start .. e.start + Sectors(e.size) - 1
    BY <1>3, <2>1, UnitIs, Zenon
  <2> QED  BY <1>1, <2>2, SpanIs
<1>5. \A z \in START .. next - 1 : z \in Lba /\ z < next
  <2>1. next \in Nat /\ next <= LIMIT /\ LIMIT \in Nat
    BY TreeBelow
  <2> QED  BY <2>1, Constants DEF Lba
<1>6. y \in Lba /\ y < next /\ y \notin D
  BY <1>2, <1>4, <1>5
<1> QED  BY <1>1, <1>3, <1>4, <1>6, Zenon

\* No sector of a file is in own.
Apart(own, e) == e.type = "file" => Span(e) \cap own = {}

\* An entry whose sectors are not written is intact.
LEMMA KeptIntact ==
  ASSUME TypeOK, NEW D, Tree(sector, D, next), NEW t, NEW own, NEW l \in D, Kept(t, own, l),
         NEW x \in Busy(sector, D), Apart(own, Ent(sector, x))
  PROVE  Intact(t, Ent(sector, x))
<1>1. PICK e : e = Ent(sector, x)
  OBVIOUS
<1>2. ASSUME e.type = "file", NEW u \in 1 .. e.size PROVE Unit(t, e, u) = Unit(sector, e, u)
  <2>1. PICK y : y = SectorOf(e, u)
    OBVIOUS
  <2>2. y \in Span(e) /\ y \in Lba /\ y < next /\ y \notin D
    BY <1>1, <1>2, <2>1, FileSectors, Zenon
  <2>3. y \notin own /\ y # l
    <3>1. Span(e) \cap own = {}
      BY <1>1, <1>2, Zenon DEF Apart
    <3> QED  BY <2>2, <3>1
  <2>4. t[y] = sector[y]
    BY <2>2, <2>3, Zenon DEF Kept
  <2> QED  BY <2>1, <2>4, Zenon DEF Unit
<1>3. Intact(t, e)
  BY <1>2, IntactIs, Zenon
<1> QED  BY <1>1, <1>3, Zenon

\* A file that gets more units is intact.
LEMMA KeepsIntact ==
  ASSUME TypeOK, NEW D, Tree(sector, D, next), NEW t, NEW l \in D, NEW x \in Busy(sector, D),
         NEW e, e = Ent(sector, x), e.type = "file",
         NEW f, f.type = "file", f.start = e.start, f.size \in Nat, e.size <= f.size, Keeps(t, f, l, e.size)
  PROVE  Intact(t, e)
<1>1. PICK z \in Nat, n \in Nat : z = e.size /\ n = f.size /\ z <= n
  <2>1. Tables(sector)
    BY DEF TypeOK, Tables
  <2>2. e \in Entry
    BY <2>1, BusyIs, Zenon
  <2>3. e.size \in Nat
    BY <2>2, EntryParts
  <2> QED  BY <2>3
<1>2. ASSUME NEW u \in 1 .. e.size PROVE Unit(t, e, u) = Unit(sector, e, u)
  <2>1. u \in 1 .. f.size /\ u <= e.size
    <3>1. u \in 1 .. z
      BY <1>1, Zenon
    <3>2. u \in 1 .. n /\ u <= z
      BY <1>1, <3>1
    <3> QED  BY <1>1, <3>2, Zenon
  <2>2. SectorOf(f, u) = SectorOf(e, u)
    BY Zenon DEF SectorOf
  <2>3. SectorOf(e, u) \in Lba /\ SectorOf(e, u) \notin D
    BY FileSectors, Zenon
  <2>4. SectorOf(f, u) \in Lba \ {l}
    BY <2>2, <2>3
  <2>5. Unit(t, f, u) = Unit(sector, f, u)
    BY <2>1, <2>4, Zenon DEF Keeps
  <2> QED  BY <2>2, <2>5, Zenon DEF Unit
<1> QED  BY <1>2, IntactIs, Zenon

\* When the tables of the tree are as they were and its files intact, so is the store.
LEMMA StoreStays ==
  ASSUME TypeOK, NEW D, NEW k, Tree(sector, D, k), NEW f, Leads(sector, f), AllFiles(sector, f),
         NEW t, \A d \in D : t[d].entries = sector[d].entries,
         \A x \in Busy(sector, D) : Intact(t, Ent(sector, x))
  PROVE  Follows(f, t)
<1>1. \A x \in D \X Index : Ent(t, x) = Ent(sector, x)
  <2> TAKE x \in D \X Index
  <2>1. x[1] \in D
    OBVIOUS
  <2> QED  BY <2>1, Zenon DEF Ent
<1>2. Leads(t, f)
  <2>1. SameTree(sector, t, D)
    BY <1>1, Zenon DEF SameTree, SameBut
  <2> QED  BY <2>1, LeadsAlike, Zenon
<1>3. \A p \in DOMAIN f : Ent(t, f[p]) = Ent(sector, f[p]) /\ Intact(t, Ent(sector, f[p]))
  <2> TAKE p \in DOMAIN f
  <2>1. f[p] \in Busy(sector, D)
    BY LeadsInTree, Zenon
  <2>2. f[p] \in D \X Index
    BY <2>1 DEF Busy
  <2> QED  BY <1>1, <2>1, <2>2, Zenon
<1>4. AllFiles(t, f)
  BY <1>3, Zenon DEF AllFiles, Intact
<1>5. View(t, f) = View(sector, f)
  <2>1. \A p \in DOMAIN f : Value(t, Ent(t, f[p])) = Value(sector, Ent(sector, f[p]))
    BY <1>3, Zenon DEF Intact
  <2> QED  BY <2>1, Zenon DEF View
<1> QED  BY <1>2, <1>4, <1>5, Zenon DEF Follows

\* Inside a path are paths only if the table it leads to has an entry.
LEMMA InsideIs ==
  ASSUME NEW s, NEW f, Leads(s, f), NEW p \in Paths, \A r \in DOMAIN f : ~InTab(s, f, p, f[r][1])
  PROVE  Store!Inside(View(s, f), p) = {}
<1> SUFFICES ASSUME NEW q \in DOMAIN f, Len(q) > Len(p), SubSeq(q, 1, Len(p)) = p PROVE FALSE
  <2>1. DOMAIN View(s, f) = DOMAIN f
    BY DEF View
  <2> QED  BY <2>1, Zenon DEF Store!Inside
<1>1. /\ p \in Seq(Names) /\ Len(p) \in Nat \ {0} /\ q \in Paths /\ q \in Seq(Names)
      /\ Len(q) \in Nat \ {0} /\ Len(q) <= MaxDepth + 1
  <2>1. q \in Paths
    BY LeadsAre, Zenon
  <2> QED  BY <2>1, PathsAre, Zenon
<1>2. PICK c \in Nat \ {0}, m \in Nat, d \in Nat : c = Len(p) /\ m = Len(q) /\ d = MaxDepth + 1 /\ c + 1 <= m /\ c + 1 <= d
  <2>1. PICK d \in Nat : d = MaxDepth + 1
    BY Constants
  <2>2. PICK c \in Nat \ {0}, m \in Nat : c = Len(p) /\ m = Len(q) /\ m <= d /\ m > c
    <3>1. Len(q) \in Nat
      BY <1>1
    <3> QED  BY <1>1, <2>1, <3>1, Zenon
  <2>3. c + 1 <= m /\ c + 1 <= d
    BY <2>2
  <2> QED  BY <2>1, <2>2, <2>3, Zenon
<1>3. PICK r : r = SubSeq(q, 1, c + 1)
  OBVIOUS
<1>4. \A j \in 1 .. c + 1 : j \in 1 .. m /\ q[j] \in Names
  BY <1>1, <1>2
<1>5. r \in Seq(Names) /\ Len(r) = c + 1 /\ \A j \in 1 .. c + 1 : r[j] = q[j]
  BY <1>1, <1>2, <1>3, <1>4
<1>6. \A j \in 1 .. c : p[j] = q[j]
  <2>1. \A j \in 1 .. c : SubSeq(q, 1, c)[j] = q[j]
    BY <1>1, <1>2
  <2> QED  BY <1>2, <2>1, Zenon
<1>7. Ends(r, p, q[c + 1])
  <2>1. \A j \in 1 .. c : j \in 1 .. c + 1
    OBVIOUS
  <2>2. c + 1 \in 1 .. c + 1
    OBVIOUS
  <2> QED  BY <1>2, <1>5, <1>6, <2>1, <2>2, Zenon DEF Ends
<1>8. q[c + 1] \in Names
  <2>1. c + 1 \in 1 .. c + 1
    OBVIOUS
  <2> QED  BY <1>4, <2>1, Zenon
<1>9. r # << >> /\ Up(r) = p
  <2>1. PICK a \in Names : a = q[c + 1]
    BY <1>8, Zenon
  <2>2. Ends(r, p, a) /\ r \in Seq(Names) /\ p \in Seq(Names)
    BY <1>1, <1>5, <1>7, <2>1, Zenon
  <2> QED  BY <2>2, EndsAre, Zenon
<1>11. r \in Paths
  <2>1. Len(r) <= MaxDepth + 1
    BY <1>2, <1>5, Zenon
  <2> QED  BY <1>5, <1>9, <2>1, Zenon DEF Paths
<1>12. Len(r) <= Len(q) /\ \A j \in 1 .. Len(r) : q[j] = r[j]
  BY <1>2, <1>5, Zenon
<1>13. r \in DOMAIN f
  BY <1>11, <1>12, LeadsAbove, Zenon
<1>14. InTab(s, f, Up(r), f[r][1])
  BY <1>13, LeadsAre, Zenon
<1> QED  BY <1>9, <1>13, <1>14, Zenon

\* With all files whole, the files any path finds are.
LEMMA FilesAreFilled ==
  ASSUME TypeOK, NEW D, NEW k, Tree(sector, D, k), NEW f, Leads(sector, f), AllFiles(sector, f)
  PROVE  AllFilled
<1> SUFFICES ASSUME NEW p \in Path, IsFile(p) PROVE Filled(sector, At(p))
  BY Zenon DEF AllFilled
<1>1. Found(p) /\ At(p).type = "file"
  BY Zenon DEF IsFile
<1>2. PICK l \in Lba, i \in Index : SlotAt(p, l, i)
  BY <1>1, SlotIs, Zenon
<1>3. p \in DOMAIN f /\ f[p] = << l, i >> /\ At(p) = Ent(sector, << l, i >>)
  BY <1>2, SlotLeads, Zenon
<1> QED  BY <1>1, <1>3, Zenon DEF AllFiles

\* The sectors of an entry are no other entry's.
LEMMA OthersApart ==
  ASSUME NEW D, NEW k, Tree(sector, D, k), NEW b \in Busy(sector, D), NEW x \in Busy(sector, D), x # b,
         NEW own, own \subseteq Span(Ent(sector, b))
  PROVE  Apart(own, Ent(sector, x))
<1>1. PICK S, T : S = Span(Ent(sector, b)) /\ T = Span(Ent(sector, x)) /\ T \cap S = {}
  BY Zenon DEF Tree
<1>2. T \cap own = {}
  BY <1>1
<1> QED  BY <1>1, <1>2, Zenon DEF Apart

\* Writing the sectors of one entry leaves the others intact.
LEMMA OthersIntact ==
  ASSUME TypeOK, NEW D, Tree(sector, D, next), NEW b \in Busy(sector, D), NEW l \in D,
         NEW own, own \subseteq Span(Ent(sector, b)), NEW t, Kept(t, own, l),
         NEW x \in Busy(sector, D), x # b
  PROVE  Intact(t, Ent(sector, x))
BY OthersApart, KeptIntact, Zenon

\* A write to a file's last sector that fails the call.
LEMMA ScribblesFollow ==
  ASSUME TypeOK, NEW D, Tree(sector, D, next), NEW f, Leads(sector, f), AllFiles(sector, f),
         NEW p, NEW l, NEW i, NEW q, Scribbles(p, l, i, q), ~hurt'
  PROVE  Follows(f, sector')
<1>1. SlotAt(p, l, i) /\ At(p).type = "file" /\ q \in Span(At(p))
  BY Zenon DEF Scribbles
<1>2. l \in D /\ << l, i >> \in Busy(sector, D) /\ At(p) = Ent(sector, << l, i >>)
  BY <1>1, WalksInTree, Zenon
<1>3. PICK t : /\ t = sector' /\ \A d \in D : t[d].entries = sector[d].entries
               /\ Kept(t, {q}, l) /\ Keeps(t, At(p), l, At(p).size)
  BY ScribblesAll, Zenon
<1>4. PICK b, e : b \in Busy(sector, D) /\ b = << l, i >> /\ e = Ent(sector, b) /\ e = At(p)
  BY <1>2, Zenon
<1>5. Intact(t, e)
  <2>1. e.size \in Nat /\ e.size <= e.size
    <3>1. Tables(sector)
      BY DEF TypeOK, Tables
    <3>2. e \in Entry
      BY <1>4, <3>1, BusyIs, Zenon
    <3>3. PICK z \in Nat : z = e.size
      BY <3>2, EntryParts
    <3>4. z <= z
      OBVIOUS
    <3> QED  BY <3>3, <3>4, Zenon
  <2>2. e.type = "file" /\ Keeps(t, e, l, e.size)
    BY <1>1, <1>3, <1>4, Zenon
  <2> QED  BY <1>2, <1>4, <2>1, <2>2, KeepsIntact, Zenon
<1>6. \A x \in Busy(sector, D) : Intact(t, Ent(sector, x))
  <2> TAKE x \in Busy(sector, D)
  <2>1. PICK own : own = {q} /\ own \subseteq Span(e)
    BY <1>1, <1>4
  <2>2. Kept(t, own, l)
    BY <1>3, <2>1, Zenon
  <2>3. x # b => Intact(t, Ent(sector, x))
    BY <1>2, <1>4, <2>1, <2>2, OthersIntact, Zenon
  <2> QED  BY <1>4, <1>5, <2>3, Zenon
<1>7. Follows(f, t)
  BY <1>3, <1>6, StoreStays, Zenon
<1> QED  BY <1>3, <1>7, Zenon

\* What a call that settles the table at l with entry i of it become e leaves behind:
\* the store it was, or an entry that is the only one to change.
Settled(t, D, own, l, i, e, m) ==
  /\ Kept(t, own, l) /\ Keeps(t, e, l, Table(l)[i].size)
  /\ \/ \A d \in D : t[d].entries = sector[d].entries
     \/ /\ Patched(sector, t, D, l, i, e) /\ Brought(t, e, l, Table(l)[i].size)
        /\ m > next => t[next].entries = Blank.entries

\* A call that edits one entry, and leaves the disk unhurt, settles it.
LEMMA EditSettles ==
  ASSUME TypeOK, NEW D, Tree(sector, D, next), NEW f, Leads(sector, f), AllFiles(sector, f),
         NEW own, own \subseteq Lba, own \cap D = {},
         NEW l \in D, NEW i, NEW e, NEW m, Edits(own, l, i, e, m), ~hurt'
  PROVE  Settled(sector', D, own, l, i, e, m)
<1>1. AllFilled
  BY FilesAreFilled, Zenon
<1>2. D \subseteq Lba /\ \A d \in D : d = ROOT \/ d < next
  BY TreeBelow, Zenon
<1>3. /\ Kept(sector', own, l) /\ (AllFilled => Keeps(sector', e, l, Table(l)[i].size))
      /\ \/ \A d \in D : sector'[d].entries = sector[d].entries
         \/ /\ m \in next .. Known' /\ Patched(sector, sector', D, l, i, e)
            /\ m > next => sector'[next].entries = Blank.entries
            /\ AllFilled => Brought(sector', e, l, Table(l)[i].size)
  BY <1>2, EditAll, Zenon
<1> QED  BY <1>1, <1>3, Zenon DEF Settled

\* The entries that do not change, when one does.
Stays(t, x) == Ent(t, x) = Ent(sector, x) /\ Intact(t, Ent(sector, x))

\* An entry that is not the one to change stays what it was, and so does what it says.
LEMMA OthersStand ==
  ASSUME TypeOK, NEW D, Tree(sector, D, next), NEW f, Leads(sector, f), NEW t, NEW l \in D, NEW i \in Index,
         NEW e, Changed(sector, t, D, l, i, e), NEW q \in DOMAIN f, f[q] # << l, i >>,
         Intact(t, Ent(sector, f[q]))
  PROVE  Stays(t, f[q])
<1>1. f[q] \in Busy(sector, D)
  BY LeadsInTree, Zenon
<1>2. f[q] \in D \X Index
  BY <1>1, Zenon DEF Busy
<1>3. Ent(t, f[q]) = Ent(sector, f[q])
  BY <1>2, Zenon DEF Changed
<1> QED  BY <1>3, Zenon DEF Stays

\* fs_delete: the path goes.
LEMMA RemovesFollow ==
  ASSUME TypeOK, NEW D, Tree(sector, D, next), NEW f, Leads(sector, f), AllFiles(sector, f),
         NEW p, NEW l, NEW i, Removes(p, l, i), ~hurt'
  PROVE  Follows(f, sector')
<1>1. SlotAt(p, l, i) /\ Deletable(p) /\ Edits({}, l, i, NoEntry, next)
  BY Zenon DEF Removes
<1>2. /\ p \in Paths /\ p \in DOMAIN f /\ f[p] = << l, i >> /\ l \in D /\ i \in Index
      /\ At(p) = Ent(sector, << l, i >>)
  BY <1>1, SlotLeads, Zenon
<1>3. PICK t : t = sector' /\ Settled(t, D, {}, l, i, NoEntry, next)
  <2>1. {} \subseteq Lba /\ {} \cap D = {}
    OBVIOUS
  <2> QED  BY <1>1, <1>2, <2>1, EditSettles, Zenon
<1>4. \A x \in Busy(sector, D) : Intact(t, Ent(sector, x))
  <2> TAKE x \in Busy(sector, D)
  <2>1. PICK own : own = {}
    OBVIOUS
  <2>2. Span(Ent(sector, x)) \cap own = {}
    BY <2>1
  <2>3. Apart(own, Ent(sector, x))
    BY <2>2, Zenon DEF Apart
  <2>4. Kept(t, own, l)
    BY <1>3, <2>1, Zenon DEF Settled
  <2> QED  BY <1>2, <2>3, <2>4, KeptIntact, Zenon
<1>5. CASE \A d \in D : t[d].entries = sector[d].entries
  <2>1. Follows(f, t)
    BY <1>4, <1>5, StoreStays, Zenon
  <2> QED  BY <1>3, <2>1, Zenon
<1>6. CASE Patched(sector, t, D, l, i, NoEntry)
  <2>1. Tables(sector)
    BY DEF TypeOK, Tables
  <2>2. Changed(sector, t, D, l, i, NoEntry)
    <3>1. l \in Lba
      BY <1>2, TreeBelow
    <3> QED  BY <1>2, <1>6, <2>1, <3>1, PatchedIs, Zenon DEF Tables
  <2>3. PICK g : g = [q \in DOMAIN f \ {p} |-> f[q]]
    OBVIOUS
  <2>4. Ent(sector, << l, i >>).type = "dir" =>
          \A j \in Index : Ent(sector, << Ent(sector, << l, i >>).start, j >>).type = "free"
    <3> HAVE Ent(sector, << l, i >>).type = "dir"
    <3> TAKE j \in Index
    <3>1. PICK d : d = Ent(sector, << l, i >>).start /\ Empty(d)
      BY <1>1, <1>2, Zenon DEF Deletable
    <3>2. sector[d].entries[j].type = "free"
      BY <3>1, Zenon DEF Empty, Table
    <3>3. Ent(sector, << d, j >>) = sector[d].entries[j]
      BY DEF Ent
    <3> QED  BY <3>1, <3>2, <3>3, Zenon
  <2>5. Leads(t, g) /\ \A q \in DOMAIN f : ~InTab(sector, f, p, f[q][1])
    BY <1>2, <1>6, <2>1, <2>3, <2>4, LeadsRemove, Zenon
  <2>6. Store!Inside(View(sector, f), p) = {}
    BY <1>2, <2>5, InsideIs, Zenon
  <2>7. DOMAIN g = DOMAIN f \ {p} /\ \A q \in DOMAIN f \ {p} : g[q] = f[q]
    BY <2>3, Zenon
  <2>8. \A q \in DOMAIN f \ {p} : Stays(t, f[q])
    <3> TAKE q \in DOMAIN f \ {p}
    <3>1. q \in DOMAIN f /\ q # p
      OBVIOUS
    <3>2. f[q] # << l, i >>
      BY <1>2, <2>1, <3>1, LeadsOnce, Zenon
    <3>3. f[q] \in Busy(sector, D)
      BY <3>1, LeadsInTree, Zenon
    <3>4. Intact(t, Ent(sector, f[q]))
      BY <1>4, <3>3, Zenon
    <3> QED  BY <1>2, <2>2, <3>1, <3>2, <3>4, OthersStand, Zenon
  <2>9. AllFiles(t, g)
    <3> SUFFICES ASSUME NEW q \in DOMAIN f \ {p}, Ent(t, g[q]).type = "file"
                 PROVE  Filled(t, Ent(t, g[q]))
      BY <2>7, Zenon DEF AllFiles
    <3>1. q \in DOMAIN f /\ g[q] = f[q] /\ Stays(t, f[q])
      BY <2>7, <2>8
    <3> QED  BY <3>1, Zenon DEF AllFiles, Stays, Intact
  <2>10. \A q \in DOMAIN f \ {p} : Value(t, Ent(t, g[q])) = Value(sector, Ent(sector, f[q]))
    BY <2>7, <2>8, Zenon DEF Stays, Intact
  <2>11. View(t, g) = Store!Without(View(sector, f), p)
    <3>1. View(t, g) = [q \in DOMAIN f \ {p} |-> Value(t, Ent(t, g[q]))]
      BY <2>7, Zenon DEF View
    <3>2. DOMAIN View(sector, f) = DOMAIN f
      BY Zenon DEF View
    <3>3. \A q \in DOMAIN f \ {p} : View(sector, f)[q] = Value(sector, Ent(sector, f[q]))
      <4> TAKE q \in DOMAIN f \ {p}
      <4>1. q \in DOMAIN f
        OBVIOUS
      <4> QED  BY <4>1, Zenon DEF View
    <3>4. Store!Without(View(sector, f), p) = [q \in DOMAIN f \ {p} |-> View(sector, f)[q]]
      BY <3>2, Zenon DEF Store!Without
    <3> QED  BY <2>10, <3>1, <3>3, <3>4, Zenon
  <2>12. Store!Call(View(sector, f), View(t, g))
    <3>1. DOMAIN View(t, g) = DOMAIN f \ {p} /\ DOMAIN View(sector, f) = DOMAIN f
      BY <2>7, Zenon DEF View
    <3>2. p \in DOMAIN View(sector, f) \ DOMAIN View(t, g)
      BY <1>2, <3>1
    <3>3. Store!Delete(View(sector, f), View(t, g))
      BY <2>6, <2>11, <3>2, Zenon DEF Store!Delete
    <3> QED  BY <3>3, Zenon DEF Store!Call
  <2>13. Follows(f, t)
    BY <2>5, <2>9, <2>12, Zenon DEF Follows
  <2> QED  BY <1>3, <2>13, Zenon
<1> QED  BY <1>3, <1>5, <1>6, Zenon DEF Settled

\* q is p or inside it; and where q goes when p takes the name n.
Within(p, q)   == Len(p) <= Len(q) /\ \A j \in 1 .. Len(p) : q[j] = p[j]
NewPath(p, n)  == Append(Store!Parent(p), n)
Moved(p, n, q) == NewPath(p, n) \o SubSeq(q, Len(p) + 1, Len(q))

\* Two sequences, one after the other.
Joins(S, u, v, a, b, m) ==
  m \in Seq(S) /\ Len(m) = a + b /\ \A j \in 1 .. a + b : m[j] = IF j <= a THEN u[j] ELSE v[j - a]

\* What the concatenation of two sequences is.
LEMMA JoinedIs ==
  ASSUME NEW S, NEW u \in Seq(S), NEW v \in Seq(S), NEW a, a = Len(u), NEW b, b = Len(v), NEW m, m = u \o v
  PROVE  Joins(S, u, v, a, b, m)
BY DEF Joins

\* The path r beside p with the name n.
Renamed(p, n, r) ==
  /\ r \in Paths /\ r \in Seq(Names) /\ Up(r) = Up(p) /\ Leaf(r) = n /\ Len(r) = Len(p)
  /\ r[Len(p)] = n /\ \A j \in 1 .. Len(p) - 1 : r[j] = p[j]

\* The path with the new name is as long, beside the old one, and a path.
LEMMA NewPathIs ==
  ASSUME NEW p \in Paths, NEW n \in Names
  PROVE  Renamed(p, n, NewPath(p, n))
<1>1. /\ p \in Seq(Names) /\ Up(p) \in Seq(Names) /\ Ends(p, Up(p), Leaf(p))
      /\ Len(Up(p)) \in Nat /\ Len(p) = Len(Up(p)) + 1 /\ Len(Up(p)) <= MaxDepth
  BY PathsAre, Zenon
<1>2. PICK u \in Seq(Names), c \in Nat : u = Up(p) /\ c = Len(u) /\ Len(p) = c + 1 /\ \A j \in 1 .. c : p[j] = u[j]
  BY <1>1, Zenon DEF Ends
<1>3. PICK r : r = NewPath(p, n)
  OBVIOUS
<1>4. Longer(r, u, n)
  BY <1>2, <1>3, Zenon DEF Longer, NewPath, Store!Parent, Up
<1>5. r \in Paths /\ Up(r) = u /\ Leaf(r) = n
  BY <1>1, <1>2, <1>4, PathMade, Zenon
<1>6. r \in Seq(Names) /\ Ends(r, u, n)
  <2>1. r \in Seq(Names) /\ Ends(r, Up(r), Leaf(r))
    BY <1>5, PathsAre, Zenon
  <2> QED  BY <1>5, <2>1, Zenon
<1>7. Len(r) = c + 1 /\ r[c + 1] = n /\ \A j \in 1 .. c : r[j] = u[j]
  BY <1>2, <1>6, Zenon DEF Ends
<1>8. (c + 1) - 1 = c
  OBVIOUS
<1>9. \A j \in 1 .. c : r[j] = p[j]
  BY <1>2, <1>7, Zenon
<1>10. Renamed(p, n, r)
  BY <1>2, <1>5, <1>6, <1>7, <1>8, <1>9, Zenon DEF Renamed
<1> QED  BY <1>3, <1>10, Zenon

\* The last name of a path is at its end.
LEMMA LeafIs ==
  ASSUME NEW p \in Paths
  PROVE  p[Len(p)] = Leaf(p)
BY Zenon DEF Leaf

\* What is at p or inside goes along.
LEMMA MovedIs ==
  ASSUME NEW p \in Paths, NEW n \in Names, NEW q \in Paths, Within(p, q)
  PROVE  Moved(p, n, q) = Turned(p, n, q)
<1>1. /\ p \in Seq(Names) /\ Len(p) \in Nat \ {0} /\ q \in Seq(Names) /\ Len(q) \in Nat \ {0}
  BY PathsAre, Zenon
<1>2. PICK k \in Nat \ {0}, c \in Nat \ {0} : k = Len(p) /\ c = Len(q) /\ k <= c
  BY <1>1, Zenon DEF Within
<1>3. \A j \in 1 .. k : q[j] = p[j]
  BY <1>2, Zenon DEF Within
<1>4. PICK r \in Seq(Names) : /\ r = NewPath(p, n) /\ Len(r) = k /\ r[k] = n
                              /\ \A j \in 1 .. k - 1 : r[j] = p[j]
  <2>1. Renamed(p, n, NewPath(p, n))
    BY NewPathIs, Zenon
  <2> QED  BY <1>2, <2>1, Zenon DEF Renamed
<1>5. PICK v \in Seq(Names) : /\ v = SubSeq(q, k + 1, c) /\ Len(v) = c - k
                              /\ \A j \in 1 .. c - k : v[j] = q[k + j]
  <2>1. \A j \in k + 1 .. c : j \in 1 .. c /\ q[j] \in Names
    BY <1>1, <1>2
  <2>2. PICK x : x = SubSeq(q, k + 1, c)
    OBVIOUS
  <2>3. x \in Seq(Names) /\ Len(x) = c - k /\ \A j \in 1 .. c - k : x[j] = q[k + j]
    BY <1>1, <1>2, <2>1, <2>2
  <2> QED  BY <2>2, <2>3, Zenon
<1>6. PICK m : m = r \o v
  OBVIOUS
<1>7. /\ m \in Seq(Names) /\ Len(m) = c
      /\ \A j \in 1 .. c : m[j] = IF j <= k THEN r[j] ELSE v[j - k]
  <2>1. PICK b : b = Len(v) /\ b = c - k
    BY <1>5, Zenon
  <2>2. m \in Seq(Names) /\ Len(m) = k + b /\ \A j \in 1 .. k + b : m[j] = IF j <= k THEN r[j] ELSE v[j - k]
    <3>1. Joins(Names, r, v, k, b, m)
      BY <1>4, <1>6, <2>1, JoinedIs, Zenon
    <3> QED  BY <3>1, Zenon DEF Joins
  <2>3. k + b = c
    BY <1>2, <2>1
  <2> QED  BY <2>2, <2>3, Zenon
<1>8. PICK w \in Seq(Names) : w = Turned(p, n, q) /\ Turns(p, n, q, w)
  <2>1. Turns(p, n, q, Turned(p, n, q))
    BY <1>1, TurnedIs, Zenon
  <2> QED  BY <2>1, Zenon DEF Turns
<1>9. Beside(p, q)
  <2>1. \A j \in 1 .. k - 1 : j \in 1 .. k
    BY <1>2
  <2> QED  BY <1>2, <1>3, <2>1, Zenon DEF Beside
<1>10. Len(w) = c /\ \A j \in 1 .. c : w[j] = IF j = k THEN Flip(Leaf(p), n, q[j]) ELSE q[j]
  BY <1>2, <1>8, <1>9, Zenon DEF Turns
<1>11. ASSUME NEW j \in 1 .. c PROVE m[j] = w[j]
  <2>1. CASE j = k
    <3>1. j <= k /\ j \in 1 .. k
      BY <1>2, <2>1
    <3>2. q[j] = Leaf(p)
      BY <1>2, <1>3, <2>1, <3>1, LeafIs, Zenon
    <3>3. w[j] = n
      BY <1>10, <2>1, <3>2, Zenon DEF Flip
    <3> QED  BY <1>4, <1>7, <2>1, <3>1, <3>3, Zenon
  <2>2. CASE j # k /\ j <= k
    <3>1. j \in 1 .. k - 1 /\ j \in 1 .. k
      BY <1>2, <2>2
    <3>2. r[j] = q[j]
      BY <1>3, <1>4, <3>1, Zenon
    <3> QED  BY <1>7, <1>10, <2>2, <3>2, Zenon
  <2>3. CASE ~(j <= k)
    <3>1. j - k \in 1 .. c - k /\ k + (j - k) = j /\ j # k
      BY <1>2, <2>3
    <3>2. v[j - k] = q[j]
      BY <1>5, <3>1, Zenon
    <3> QED  BY <1>7, <1>10, <2>3, <3>1, <3>2, Zenon
  <2> QED  BY <2>1, <2>2, <2>3, Zenon
<1>12. m = w
  <2>1. Len(m) = Len(w) /\ \A j \in 1 .. Len(m) : m[j] = w[j]
    BY <1>7, <1>10, <1>11, Zenon
  <2> QED  BY <1>7, <2>1, SeqEqual, Zenon
<1>13. Moved(p, n, q) = m
  BY <1>2, <1>4, <1>5, <1>6, Zenon DEF Moved
<1> QED  BY <1>8, <1>12, <1>13, Zenon

\* What is neither there nor at the new path or inside stays where it is.
LEMMA NotMoved ==
  ASSUME NEW p \in Paths, NEW n \in Names, NEW q \in Paths, ~Within(p, q), ~Within(NewPath(p, n), q)
  PROVE  Turned(p, n, q) = q
<1>1. /\ p \in Seq(Names) /\ Len(p) \in Nat \ {0} /\ q \in Seq(Names) /\ Len(q) \in Nat \ {0}
  BY PathsAre, Zenon
<1>2. CASE ~Beside(p, q)
  BY <1>2, Zenon DEF Turned
<1>3. CASE Beside(p, q)
  <2>1. PICK k \in Nat \ {0}, c \in Nat \ {0} : k = Len(p) /\ c = Len(q) /\ k <= c
    BY <1>1, <1>3, Zenon DEF Beside
  <2>2. \A j \in 1 .. k - 1 : q[j] = p[j]
    BY <1>3, <2>1, Zenon DEF Beside
  <2>3. PICK r \in Seq(Names) : /\ r = NewPath(p, n) /\ Len(r) = k /\ r[k] = n
                                /\ \A j \in 1 .. k - 1 : r[j] = p[j]
    <3>1. Renamed(p, n, NewPath(p, n))
      BY NewPathIs, Zenon
    <3> QED  BY <2>1, <3>1, Zenon DEF Renamed
  <2>4. \A j \in 1 .. k : j = k \/ j \in 1 .. k - 1
    BY <2>1
  <2>5. q[k] # Leaf(p)
    <3>1. ASSUME q[k] = Leaf(p) PROVE \A j \in 1 .. k : q[j] = p[j]
      <4>1. p[k] = Leaf(p)
        BY <2>1, LeafIs, Zenon
      <4> QED  BY <2>2, <2>4, <3>1, <4>1, Zenon
    <3> QED  BY <2>1, <3>1, Zenon DEF Within
  <2>6. q[k] # n
    <3>1. ASSUME q[k] = n PROVE \A j \in 1 .. k : q[j] = r[j]
      BY <2>2, <2>3, <2>4, <3>1, Zenon
    <3> QED  BY <2>1, <2>3, <3>1, Zenon DEF Within
  <2>7. PICK w \in Seq(Names) : w = Turned(p, n, q) /\ Turns(p, n, q, w)
    <3>1. Turns(p, n, q, Turned(p, n, q))
      BY <1>1, TurnedIs, Zenon
    <3> QED  BY <3>1, Zenon DEF Turns
  <2>8. Len(w) = Len(q) /\ \A j \in 1 .. Len(w) : w[j] = q[j]
    <3>1. Len(w) = c /\ \A j \in 1 .. c : w[j] = IF j = k THEN Flip(Leaf(p), n, q[j]) ELSE q[j]
      BY <1>3, <2>1, <2>7, Zenon DEF Turns
    <3>2. Flip(Leaf(p), n, q[k]) = q[k]
      BY <2>5, <2>6, Zenon DEF Flip
    <3> QED  BY <2>1, <3>1, <3>2, Zenon
  <2>9. w = q
    BY <1>1, <2>8, SeqEqual, Zenon
  <2> QED  BY <2>7, <2>9, Zenon
<1> QED  BY <1>2, <1>3, Zenon

\* A path and what is inside it.
LEMMA InsideWithin ==
  ASSUME NEW s, NEW f, Leads(s, f), NEW p \in DOMAIN f
  PROVE  {p} \cup Store!Inside(View(s, f), p) = {q \in DOMAIN f : Within(p, q)}
<1>1. /\ p \in Paths /\ p \in Seq(Names) /\ Len(p) \in Nat \ {0}
  <2>1. p \in Paths
    BY LeadsAre, Zenon
  <2> QED  BY <2>1, PathsAre, Zenon
<1>2. PICK k \in Nat \ {0} : k = Len(p)
  BY <1>1, Zenon
<1>3. DOMAIN View(s, f) = DOMAIN f
  BY DEF View
<1>4. ASSUME NEW q \in DOMAIN f
      PROVE  (q = p \/ (Len(q) > Len(p) /\ SubSeq(q, 1, Len(p)) = p)) <=> Within(p, q)
  <2>1. q \in Seq(Names) /\ Len(q) \in Nat
    <3>1. q \in Paths
      BY LeadsAre, Zenon
    <3> QED  BY <3>1, PathsAre, Zenon
  <2>2. PICK c \in Nat : c = Len(q)
    BY <2>1, Zenon
  <2>3. PICK w : w = SubSeq(q, 1, k)
    OBVIOUS
  <2>4. k <= c => w \in Seq(Names) /\ Len(w) = k /\ \A j \in 1 .. k : w[j] = q[j]
    <3> HAVE k <= c
    <3>1. \A j \in 1 .. k : j \in 1 .. c /\ q[j] \in Names
      BY <2>1, <2>2
    <3> QED  BY <1>2, <2>1, <2>2, <2>3, <3>1
  <2>5. ASSUME Within(p, q) PROVE q = p \/ (Len(q) > Len(p) /\ SubSeq(q, 1, Len(p)) = p)
    <3>1. k <= c /\ \A j \in 1 .. k : q[j] = p[j]
      BY <1>2, <2>2, <2>5, Zenon DEF Within
    <3>2. Len(w) = Len(p) /\ \A j \in 1 .. Len(w) : w[j] = p[j]
      BY <1>2, <2>4, <3>1, Zenon
    <3>3. w = p
      BY <1>1, <2>4, <3>1, <3>2, SeqEqual, Zenon
    <3>4. CASE c = k
      <4>1. Len(q) = Len(p) /\ \A j \in 1 .. Len(q) : q[j] = p[j]
        BY <1>2, <2>2, <3>1, <3>4, Zenon
      <4>2. q = p
        BY <1>1, <2>1, <4>1, SeqEqual, Zenon
      <4> QED  BY <4>2, Zenon
    <3>5. CASE c # k
      <4>1. c > k
        BY <3>1, <3>5
      <4> QED  BY <1>2, <2>2, <2>3, <3>3, <4>1, Zenon
    <3> QED  BY <3>4, <3>5, Zenon
  <2>6. ASSUME q = p PROVE Within(p, q)
    <3>1. Len(p) <= Len(p)
      BY <1>1
    <3> QED  BY <2>6, <3>1, Zenon DEF Within
  <2>7. ASSUME Len(q) > Len(p), SubSeq(q, 1, Len(p)) = p PROVE Within(p, q)
    <3>1. c > k /\ w = p
      BY <1>2, <2>2, <2>3, <2>7, Zenon
    <3>2. k <= c
      BY <3>1
    <3>3. \A j \in 1 .. k : q[j] = p[j]
      BY <2>4, <3>1, <3>2, Zenon
    <3> QED  BY <1>2, <2>2, <3>2, <3>3, Zenon DEF Within
  <2> QED  BY <2>5, <2>6, <2>7, Zenon
<1>5. \A q : q \in {p} \cup Store!Inside(View(s, f), p) <=> q \in DOMAIN f /\ Within(p, q)
  <2> TAKE q
  <2>1. q \in Store!Inside(View(s, f), p) <=> q \in DOMAIN f /\ Len(q) > Len(p) /\ SubSeq(q, 1, Len(p)) = p
    BY <1>3, Zenon DEF Store!Inside
  <2>2. q \in {p} \cup Store!Inside(View(s, f), p) <=> q = p \/ q \in Store!Inside(View(s, f), p)
    BY Zenon
  <2> QED  BY <1>4, <2>1, <2>2, Zenon
<1> QED  BY <1>5, Zenon

\* The store that fs_rename of p makes of V.
Goes(V, p)         == {p} \cup Store!Inside(V, p)
RenamedTo(V, p, n) ==
  [x \in (DOMAIN V \ Goes(V, p)) \cup {Moved(p, n, q) : q \in Goes(V, p)} |->
     IF x \in DOMAIN V \ Goes(V, p) THEN V[x] ELSE V[CHOOSE q \in Goes(V, p) : Moved(p, n, q) = x]]

\* fs_rename of p to n makes that store, when nothing has the new path.
LEMMA RenameMade ==
  ASSUME NEW V, NEW W, NEW p \in DOMAIN V \ DOMAIN W, NEW n \in Names, NewPath(p, n) \notin DOMAIN V,
         W = RenamedTo(V, p, n)
  PROVE  Store!Rename(V, W)
BY Zenon DEF Store!Rename, RenamedTo, Goes, Moved, NewPath

\* Each path of g has what the exchanged path had.
Exchanged(V, W, g, p, n) == W = [x \in DOMAIN g |-> V[Turned(p, n, x)]]

\* The store then is the one fs_rename makes.
LEMMA RenameStore ==
  ASSUME NEW s, NEW f, Leads(s, f), NEW p \in DOMAIN f, NEW n \in Names, n # Leaf(p),
         NewPath(p, n) \notin DOMAIN f,
         NEW g, TurnedTo(f, g, p, n), NEW V, V = View(s, f), NEW W, Exchanged(V, W, g, p, n)
  PROVE  Store!Rename(V, W)
<1>1. p \in Paths /\ \A q \in DOMAIN f : q \in Paths /\ q \in Seq(Names)
  <2>1. \A q \in DOMAIN f : q \in Paths /\ q \in Seq(Names)
    <3> TAKE q \in DOMAIN f
    <3>1. q \in Paths
      BY LeadsAre, Zenon
    <3> QED  BY <3>1, PathsAre, Zenon
  <2> QED  BY <2>1, Zenon
<1>2. DOMAIN V = DOMAIN f
  BY Zenon DEF View
<1> DEFINE M == Goes(V, p)
           R == DOMAIN V \ M
<1>3. \A q : q \in M <=> q \in DOMAIN f /\ Within(p, q)
  <2>1. {p} \cup Store!Inside(View(s, f), p) = {q \in DOMAIN f : Within(p, q)}
    BY InsideWithin, Zenon
  <2>2. Goes(V, p) = {q \in DOMAIN f : Within(p, q)}
    BY <2>1, Zenon DEF Goes
  <2> QED  BY <2>2, Zenon
<1>4. /\ \A q : q \in R <=> q \in DOMAIN f /\ q \notin M
      /\ p \in M
  <2>1. p \in M
    BY DEF Goes
  <2>2. \A q : q \in R <=> q \in DOMAIN f /\ q \notin M
    <3> HIDE DEF M
    <3> QED  BY <1>2, Zenon
  <2> QED  BY <2>1, <2>2, Zenon
<1> HIDE DEF M, R
<1>5. \A q \in M : q \in DOMAIN f /\ Moved(p, n, q) = Turned(p, n, q)
  <2> TAKE q \in M
  <2>1. q \in DOMAIN f /\ Within(p, q)
    BY <1>3, Zenon
  <2>2. q \in Paths
    BY <1>1, <2>1, Zenon
  <2> QED  BY <1>1, <2>1, <2>2, MovedIs, Zenon
<1>6. \A q \in R : q \in DOMAIN f /\ q \notin M /\ Turned(p, n, q) = q
  <2> TAKE q \in R
  <2>1. q \in DOMAIN f /\ q \notin M /\ ~Within(p, q) /\ q \in Paths
    BY <1>1, <1>3, <1>4, Zenon
  <2>2. ~Within(NewPath(p, n), q)
    <3>1. PICK r \in Paths : r = NewPath(p, n)
      <4>1. Renamed(p, n, NewPath(p, n))
        BY <1>1, NewPathIs, Zenon
      <4> QED  BY <4>1, Zenon DEF Renamed
    <3> SUFFICES ASSUME Within(r, q) PROVE FALSE
      BY <3>1, Zenon
    <3>2. Len(r) <= Len(q) /\ \A j \in 1 .. Len(r) : q[j] = r[j]
      BY Zenon DEF Within
    <3>3. r \in DOMAIN f
      BY <2>1, <3>2, LeadsAbove, Zenon
    <3> QED  BY <3>1, <3>3, Zenon
  <2> QED  BY <1>1, <2>1, <2>2, NotMoved, Zenon
<1>7. \A q \in DOMAIN f : /\ Turned(p, n, q) \in Paths /\ Turned(p, n, Turned(p, n, q)) = q
                          /\ Turned(p, n, q) \in DOMAIN g
  <2> TAKE q \in DOMAIN f
  <2>1. q \in Paths /\ q \in Seq(Names)
    BY <1>1, Zenon
  <2>2. Turned(p, n, q) \in Paths /\ Turned(p, n, Turned(p, n, q)) = q
    BY <1>1, <2>1, TurnedTwice, Zenon
  <2> QED  BY <2>2, Zenon DEF TurnedTo
<1>8. \A x \in DOMAIN g : x \in Paths /\ Turned(p, n, x) \in DOMAIN f /\ Turned(p, n, Turned(p, n, x)) = x
  <2> TAKE x \in DOMAIN g
  <2>1. x \in Paths
    BY Zenon DEF TurnedTo
  <2>2. x \in Seq(Names)
    BY <2>1, PathsAre, Zenon
  <2>3. Turned(p, n, x) \in DOMAIN f
    BY <2>1, Zenon DEF TurnedTo
  <2> QED  BY <1>1, <2>1, <2>2, <2>3, TurnedTwice, Zenon
<1>9. PICK X : X = R \cup {Moved(p, n, q) : q \in M}
  OBVIOUS
<1>10. DOMAIN g = X
  <2>1. ASSUME NEW x \in DOMAIN g PROVE x \in X
    <3>1. PICK y \in DOMAIN f : y = Turned(p, n, x) /\ x = Turned(p, n, y)
      BY <1>8, Zenon
    <3>2. CASE y \in M
      <4>1. x = Moved(p, n, y)
        BY <1>5, <3>1, <3>2, Zenon
      <4> QED  BY <1>9, <3>2, <4>1
    <3>3. CASE y \in R
      <4>1. x = y
        BY <1>6, <3>1, <3>3, Zenon
      <4> QED  BY <1>9, <3>3, <4>1
    <3> QED  BY <1>4, <3>1, <3>2, <3>3, Zenon
  <2>2. ASSUME NEW x \in R PROVE x \in DOMAIN g
    BY <1>6, <1>7, Zenon
  <2>3. ASSUME NEW q \in M PROVE Moved(p, n, q) \in DOMAIN g
    BY <1>5, <1>7, Zenon
  <2> QED  BY <1>9, <2>1, <2>2, <2>3
<1>11. ASSUME NEW x \in X
       PROVE  V[Turned(p, n, x)] = IF x \in R THEN V[x] ELSE V[CHOOSE q \in M : Moved(p, n, q) = x]
  <2>1. CASE x \in R
    BY <1>6, <2>1, Zenon
  <2>2. CASE x \notin R
    <3>1. PICK y \in M : x = Moved(p, n, y)
      BY <1>9, <2>2
    <3>2. PICK z : z = CHOOSE q \in M : Moved(p, n, q) = x
      OBVIOUS
    <3>3. z \in M /\ Moved(p, n, z) = x
      BY <3>1, <3>2, Zenon
    <3>4. x = Turned(p, n, z) /\ z \in DOMAIN f
      BY <1>5, <3>3, Zenon
    <3>5. Turned(p, n, x) = z
      BY <1>7, <3>4, Zenon
    <3> QED  BY <2>2, <3>2, <3>5, Zenon
  <2> QED  BY <2>1, <2>2, Zenon
<1>12. W = [x \in X |-> IF x \in R THEN V[x] ELSE V[CHOOSE q \in M : Moved(p, n, q) = x]]
  <2>1. W = [x \in X |-> V[Turned(p, n, x)]]
    BY <1>10, Zenon DEF Exchanged
  <2> QED  BY <1>11, <2>1, Zenon
<1>13. p \in DOMAIN V \ DOMAIN W
  <2>1. p \in M
    BY <1>4, Zenon
  <2>2. p \notin DOMAIN g
    <3> SUFFICES ASSUME p \in DOMAIN g PROVE FALSE
      OBVIOUS
    <3>1. Turned(p, n, p) \in DOMAIN f
      BY <1>8, Zenon
    <3>2. Moved(p, n, p) = NewPath(p, n)
      <4>1. PICK r \in Seq(Names) : r = NewPath(p, n)
        <5>1. Renamed(p, n, NewPath(p, n))
          BY <1>1, NewPathIs, Zenon
        <5> QED  BY <5>1, Zenon DEF Renamed
      <4>2. PICK c \in Nat : c = Len(p)
        <5>1. Len(p) \in Nat
          BY <1>1, PathsAre, Zenon
        <5> QED  BY <5>1, Zenon
      <4>3. SubSeq(p, c + 1, c) = << >>
        BY <1>1, <4>2
      <4>4. r \o << >> = r
        OBVIOUS
      <4> QED  BY <4>1, <4>2, <4>3, <4>4, Zenon DEF Moved
    <3> QED  BY <1>5, <2>1, <3>1, <3>2, Zenon
  <2>3. DOMAIN W = DOMAIN g
    BY Zenon DEF Exchanged
  <2> QED  BY <1>2, <2>2, <2>3
<1>14. NewPath(p, n) \notin DOMAIN V
  BY <1>2, Zenon
<1>15. W = [x \in R \cup {Moved(p, n, q) : q \in M} |->
              IF x \in R THEN V[x] ELSE V[CHOOSE q \in M : Moved(p, n, q) = x]]
  BY <1>9, <1>12, Zenon
<1>16. W = RenamedTo(V, p, n)
  BY <1>15, Zenon DEF RenamedTo, M, R
<1> QED  BY <1>13, <1>14, <1>16, RenameMade, Zenon

\* The new path is not there if no entry of the table has its name.
LEMMA NewPathFree ==
  ASSUME NEW s, NEW f, Leads(s, f), NEW p \in DOMAIN f, NEW n \in Names, NEW l, NEW i, f[p] = << l, i >>,
         \A j \in Index : ~Holds(s, << l, j >>, n)
  PROVE  NewPath(p, n) \notin DOMAIN f
<1>1. p \in Paths /\ f[p] \in Lba \X Index /\ InTab(s, f, Up(p), f[p][1])
  BY LeadsAre, Zenon
<1>2. f[p][1] = l
  OBVIOUS
<1>3. PICK r : r = NewPath(p, n) /\ Up(r) = Up(p) /\ Leaf(r) = n
  <2>1. Renamed(p, n, NewPath(p, n))
    BY <1>1, NewPathIs, Zenon
  <2> QED  BY <2>1, Zenon DEF Renamed
<1> SUFFICES ASSUME r \in DOMAIN f PROVE FALSE
  BY <1>3, Zenon
<1>4. f[r] \in Lba \X Index /\ Holds(s, f[r], n) /\ InTab(s, f, Up(p), f[r][1])
  BY <1>3, LeadsAre, Zenon
<1>5. PICK x \in Lba \X Index : x = f[r]
  BY <1>4, Zenon
<1>6. x[1] = l
  <2>1. InTab(s, f, Up(p), l) /\ InTab(s, f, Up(p), x[1])
    BY <1>1, <1>2, <1>4, <1>5, Zenon
  <2> QED  BY <2>1, TabIs, Zenon
<1>7. x = << l, x[2] >> /\ x[2] \in Index
  BY <1>6
<1> QED  BY <1>4, <1>5, <1>7, Zenon

\* An entry with another name says what it did.
LEMMA NamedSame ==
  ASSUME NEW t, NEW c, NEW e, Intact(t, c), e.type = c.type, e.start = c.start, e.size = c.size
  PROVE  /\ Value(t, e) = Value(sector, c)
         /\ e.type = "file" /\ Filled(sector, c) => Filled(t, e)
<1>1. \A u : Unit(t, e, u) = Unit(t, c, u)
  BY Zenon DEF Unit, SectorOf
<1>2. Value(t, e) = Value(t, c)
  BY <1>1, Zenon DEF Value
<1>3. Filled(t, c) => Filled(t, e)
  BY <1>1, Zenon DEF Filled
<1> QED  BY <1>2, <1>3, Zenon DEF Intact

\* fs_rename: the path is another.
LEMMA RenamesFollow ==
  ASSUME TypeOK, NEW D, Tree(sector, D, next), NEW f, Leads(sector, f), AllFiles(sector, f),
         NEW p, NEW l, NEW i, NEW n, Renames(p, l, i, n), ~hurt'
  PROVE  Follows(f, sector')
<1>1. PICK e : /\ SlotAt(p, l, i) /\ n \in Names /\ n # At(p).name /\ Named(Table(l), n) \subseteq {i}
               /\ e = [At(p) EXCEPT !.name = n] /\ Edits({}, l, i, e, next)
  BY Zenon DEF Renames
<1>2. /\ p \in Paths /\ p \in DOMAIN f /\ f[p] = << l, i >> /\ l \in D /\ i \in Index
      /\ At(p) = Ent(sector, << l, i >>) /\ At(p) \in Entry /\ At(p).name = Leaf(p)
  <2>1. SlotAt(p, l, i)
    BY <1>1, Zenon
  <2> QED  BY <2>1, SlotHas, Zenon
<1>3. PICK t : t = sector' /\ Settled(t, D, {}, l, i, e, next)
  <2>1. {} \subseteq Lba /\ {} \cap D = {}
    OBVIOUS
  <2> QED  BY <1>1, <1>2, <2>1, EditSettles, Zenon
<1>4. \A x \in Busy(sector, D) : Intact(t, Ent(sector, x))
  <2> TAKE x \in Busy(sector, D)
  <2>1. PICK own : own = {}
    OBVIOUS
  <2>2. Span(Ent(sector, x)) \cap own = {}
    BY <2>1
  <2>3. Apart(own, Ent(sector, x))
    BY <2>2, Zenon DEF Apart
  <2>4. Kept(t, own, l)
    BY <1>3, <2>1, Zenon DEF Settled
  <2> QED  BY <1>2, <2>3, <2>4, KeptIntact, Zenon
<1>5. CASE \A d \in D : t[d].entries = sector[d].entries
  <2>1. Follows(f, t)
    BY <1>4, <1>5, StoreStays, Zenon
  <2> QED  BY <1>3, <2>1, Zenon
<1>6. CASE Patched(sector, t, D, l, i, e)
  <2>1. Tables(sector)
    BY DEF TypeOK, Tables
  <2>2. Changed(sector, t, D, l, i, e)
    <3>1. l \in Lba
      BY <1>2, TreeBelow
    <3> QED  BY <1>2, <1>6, <2>1, <3>1, PatchedIs, Zenon DEF Tables
  <2>3. PICK c \in Entry : c = Ent(sector, << l, i >>) /\ c = At(p) /\ c.type # "free"
    <3>1. << l, i >> \in Busy(sector, D)
      BY <1>2, LeadsInTree, Zenon
    <3>2. Ent(sector, << l, i >>).type # "free"
      BY <3>1, Zenon DEF Busy
    <3> QED  BY <1>2, <3>2, Zenon
  <2>4. e.type = c.type /\ e.start = c.start /\ e.size = c.size /\ e.name = n
    <3>1. c \in [name : Names, type : {"file", "dir"}, start : START .. LIMIT - 1, size : 0 .. MaxSize]
      BY <2>3 DEF Entry, NoEntry
    <3>2. e = [c EXCEPT !.name = n]
      BY <1>1, <2>3, Zenon
    <3> QED  BY <3>1, <3>2
  <2>5. \A j \in Index : ~Holds(sector, << l, j >>, n)
    <3> SUFFICES ASSUME NEW j \in Index, Holds(sector, << l, j >>, n) PROVE FALSE
      BY Zenon
    <3>1. Ent(sector, << l, j >>) = Table(l)[j]
      BY DEF Ent, Table
    <3>2. j \in Named(Table(l), n)
      <4>1. PICK tab : tab = Table(l)
        OBVIOUS
      <4>2. tab[j].type # "free" /\ tab[j].name = n
        <5>1. PICK x : x = Ent(sector, << l, j >>)
          OBVIOUS
        <5>2. x.type # "free" /\ x.name = n
          BY <5>1, Zenon DEF Holds
        <5>3. tab[j] = x
          BY <3>1, <4>1, <5>1
        <5> QED  BY <5>2, <5>3
      <4>3. j \in Named(tab, n)
        BY <4>2, NamedHas, Zenon
      <4> QED  BY <4>1, <4>3, Zenon
    <3>3. j = i
      BY <1>1, <3>2
    <3> QED  BY <1>1, <1>2, <3>3, Zenon DEF Holds
  <2>6. PICK g : g = TurnedAll(f, p, n)
    OBVIOUS
  <2>7. Leads(t, g)
    BY <1>1, <1>2, <1>6, <2>1, <2>3, <2>4, <2>5, <2>6, LeadsRename, Zenon
  <2>8. TurnedTo(f, g, p, n)
    BY <1>1, <1>2, <2>6, TurnedAllIs, Zenon
  <2>9. ASSUME NEW x \in DOMAIN g
        PROVE  /\ Value(t, Ent(t, g[x])) = View(sector, f)[Turned(p, n, x)]
               /\ Ent(t, g[x]).type = "file" => Filled(t, Ent(t, g[x]))
    <3>1. PICK y \in DOMAIN f : y = Turned(p, n, x) /\ g[x] = f[y]
      <4>1. x \in Paths
        BY <2>8, Zenon DEF TurnedTo
      <4> QED  BY <2>8, <4>1, Zenon DEF TurnedTo
    <3>2. f[y] \in Busy(sector, D)
      BY LeadsInTree, Zenon
    <3>3. Intact(t, Ent(sector, f[y]))
      BY <1>4, <3>2, Zenon
    <3>4. View(sector, f)[y] = Value(sector, Ent(sector, f[y]))
      BY Zenon DEF View
    <3>5. Ent(sector, f[y]).type = "file" => Filled(sector, Ent(sector, f[y]))
      BY Zenon DEF AllFiles
    <3>6. CASE f[y] = << l, i >>
      <4>1. f[y] \in D \X Index
        BY <3>2, Zenon DEF Busy
      <4>2. Ent(t, f[y]) = e
        BY <2>2, <3>6, <4>1, Zenon DEF Changed
      <4>3. Value(t, e) = Value(sector, c) /\ (e.type = "file" /\ Filled(sector, c) => Filled(t, e))
        BY <2>3, <2>4, <3>3, <3>6, NamedSame, Zenon
      <4> QED  BY <2>3, <2>4, <3>1, <3>4, <3>5, <3>6, <4>2, <4>3, Zenon
    <3>7. CASE f[y] # << l, i >>
      <4>1. Stays(t, f[y])
        BY <1>2, <2>2, <3>3, <3>7, OthersStand, Zenon
      <4> QED  BY <3>1, <3>4, <3>5, <4>1, Zenon DEF Stays, Intact
    <3> QED  BY <3>6, <3>7, Zenon
  <2>10. AllFiles(t, g)
    BY <2>9, Zenon DEF AllFiles
  <2>11. View(t, g) = [x \in DOMAIN g |-> View(sector, f)[Turned(p, n, x)]]
    BY <2>9, Zenon DEF View
  <2>12. NewPath(p, n) \notin DOMAIN f
    BY <1>1, <1>2, <2>5, NewPathFree, Zenon
  <2>13. Store!Call(View(sector, f), View(t, g))
    <3>1. PICK V, W : V = View(sector, f) /\ W = View(t, g)
      OBVIOUS
    <3>2. Exchanged(V, W, g, p, n)
      BY <2>11, <3>1, Zenon DEF Exchanged
    <3>3. n \in Names /\ n # Leaf(p)
      BY <1>1, <1>2, Zenon
    <3>4. Store!Rename(V, W)
      BY <1>2, <2>8, <2>12, <3>1, <3>2, <3>3, RenameStore, Zenon
    <3> QED  BY <3>1, <3>4, Zenon DEF Store!Call
  <2>14. Follows(f, t)
    BY <2>7, <2>10, <2>13, Zenon DEF Follows
  <2> QED  BY <1>3, <2>14, Zenon
<1> QED  BY <1>3, <1>5, <1>6, Zenon DEF Settled

\* W is V with v for p.
Replaced(V, W, p, v) == W = [q \in DOMAIN V |-> IF q = p THEN v ELSE V[q]]

\* fs_append_file makes W of V when file p has more data.
LEMMA ExtendMade ==
  ASSUME NEW V, NEW W, NEW p \in DOMAIN V, NEW old \in Seq(Byte), NEW new \in Seq(Byte),
         V[p] = [type |-> "file", data |-> old], Len(old) < Len(new), \A u \in 1 .. Len(old) : new[u] = old[u],
         NEW v, v = [type |-> "file", data |-> new], Replaced(V, W, p, v)
  PROVE  Store!Extend(V, W)
<1>1. V[p].type = "file" /\ V[p].data = old /\ v.type = "file" /\ v.data = new
  OBVIOUS
<1>2. [V[p] EXCEPT !.data = new] = v
  OBVIOUS
<1>3. DOMAIN W = DOMAIN V /\ W[p] = v
  BY Zenon DEF Replaced
<1>4. p \in DOMAIN V \cap DOMAIN W
  BY <1>3
<1>5. old = SubSeq(new, 1, Len(old))
  <2>1. PICK a \in Nat, b \in Nat : a = Len(old) /\ b = Len(new) /\ a < b
    <3>1. Len(old) \in Nat /\ Len(new) \in Nat
      OBVIOUS
    <3> QED  BY <3>1, Zenon
  <2>2. PICK w : w = SubSeq(new, 1, a)
    OBVIOUS
  <2>3. w \in Seq(Byte) /\ Len(w) = a /\ \A u \in 1 .. a : w[u] = new[u]
    <3>1. \A u \in 1 .. a : new[u] \in Byte
      BY <2>1
    <3> QED  BY <2>1, <2>2, <3>1
  <2>4. Len(old) = Len(w) /\ \A u \in 1 .. Len(old) : old[u] = w[u]
    BY <2>1, <2>3, Zenon
  <2>5. old = w
    BY <2>3, <2>4, SeqEqual, Zenon
  <2> QED  BY <2>1, <2>2, <2>5, Zenon
<1>6. DOMAIN V \cup {p} = DOMAIN V
  OBVIOUS
<1>7. W = Store!With(V, p, v)
  BY <1>6, Zenon DEF Store!With, Replaced
<1>8. Store!IsFile(V, p)
  BY <1>1, Zenon DEF Store!IsFile
<1>9. W = Store!With(V, p, [V[p] EXCEPT !.data = W[p].data])
  BY <1>1, <1>2, <1>3, <1>7, Zenon
<1> QED  BY <1>1, <1>3, <1>4, <1>5, <1>8, <1>9, Zenon DEF Store!Extend

\* The units of a file, if they are bytes.
LEMMA UnitsAre ==
  ASSUME NEW s, NEW e, NEW z \in Nat, z = e.size, e.type = "file", Filled(s, e)
  PROVE  \E d \in Seq(Byte) : /\ Value(s, e) = [type |-> "file", data |-> d] /\ Len(d) = z
                              /\ \A u \in 1 .. z : d[u] = Unit(s, e, u)
<1>1. PICK d : d = [u \in 1 .. z |-> Unit(s, e, u)]
  OBVIOUS
<1>2. \A u \in 1 .. z : Unit(s, e, u) \in Byte
  BY Zenon DEF Filled
<1>3. d \in [1 .. z -> Byte]
  BY <1>1, <1>2, Zenon
<1>4. d \in Seq(Byte) /\ Len(d) = z
  BY <1>3
<1>5. \A u \in 1 .. z : d[u] = Unit(s, e, u)
  BY <1>1, Zenon
<1>6. Value(s, e) = [type |-> "file", data |-> d]
  BY <1>1, Zenon DEF Value
<1> QED  BY <1>4, <1>5, <1>6, Zenon

\* What an append makes of a file's entry: it is as it was, but longer, and its sectors
\* are no table that is written.
LEMMA ExtendsEntry ==
  ASSUME TypeOK, NEW D, Tree(sector, D, next), NEW p, NEW l, NEW i, NEW size, NEW q, NEW m,
         Extends(p, l, i, size, q, m), NEW c, c = At(p), NEW e, e = [c EXCEPT !.size = size]
  PROVE  /\ c \in Entry /\ e \in Entry /\ SameBut(e, c) /\ c.type = "file" /\ e.type = "file"
         /\ e.start = c.start /\ e.size = size
         /\ size \in Nat /\ c.size \in Nat /\ c.size < size
         /\ \A u \in 1 .. size : SectorOf(e, u) \in Lba \ {l}
<1>1. SlotAt(p, l, i) /\ At(p).type = "file" /\ size \in Nat /\ At(p).size < size /\ Edits({q}, l, i, e, m)
  BY DEF Extends
<1>2. c \in Entry /\ l \in D /\ << l, i >> \in Busy(sector, D) /\ c = Ent(sector, << l, i >>) /\ c.type = "file"
  BY <1>1, WalksInTree, Zenon
<1>3. SameBut(e, c) /\ e.type = "file" /\ e.start = c.start /\ e.size = size
  <2>1. e.name = c.name /\ e.type = c.type /\ e.start = c.start /\ e.size = size
    BY <1>2, ChangedEntry
  <2> QED  BY <1>2, <2>1, Zenon DEF SameBut
<1>4. e \in Entry
  BY <1>1, Zenon DEF Edits
<1>5. c.size \in Nat
  BY <1>2, EntryParts
<1>6. Span(e) \subseteq Span(c) \cup (next .. m - 1) /\ m \in next .. LIMIT
  BY ExtendsSpan, Zenon
<1>7. /\ D \subseteq Lba /\ (\A d \in D : d = ROOT \/ d < next)
      /\ next \in Nat /\ START <= next /\ next <= LIMIT /\ LIMIT \in Nat
  BY TreeBelow, Zenon
<1>8. Span(c) \subseteq START .. next - 1 /\ Span(c) \cap D = {}
  BY <1>2 DEF Tree
<1>9. \A y \in Span(c) : y \in Lba \ {l}
  <2>1. \A y \in START .. next - 1 : y \in Lba
    BY <1>7, Constants DEF Lba
  <2> QED  BY <1>2, <1>8, <2>1
<1>10. \A y \in next .. m - 1 : y \in Lba \ {l}
  <2>1. l = ROOT \/ l < next
    BY <1>2, <1>7, Zenon
  <2>2. l \in Nat
    BY <1>2, <1>7, Constants DEF Lba
  <2>3. \A y \in next .. m - 1 : y \in Lba
    BY <1>6, <1>7, Constants DEF Lba
  <2>4. \A y \in next .. m - 1 : y # l
    BY <1>6, <1>7, <2>1, <2>2, Constants
  <2> QED  BY <2>3, <2>4
<1>11. \A u \in 1 .. size : SectorOf(e, u) \in Lba \ {l}
  <2> TAKE u \in 1 .. size
  <2>1. PICK y : y = SectorOf(e, u)
    OBVIOUS
  <2>2. u \in 1 .. e.size
    BY <1>3, Zenon
  <2>3. y \in e.start .. e.start + Sectors(e.size) - 1
    BY <1>4, <2>1, <2>2, UnitIs, Zenon
  <2>4. e.type # "free" /\ e.type # "dir"
    BY <1>3
  <2>5. y \in Span(e)
    BY <1>4, <2>3, <2>4, SpanIs, Zenon
  <2>6. y \in Lba \ {l}
    BY <1>6, <1>9, <1>10, <2>5
  <2> QED  BY <2>1, <2>6, Zenon
<1> QED  BY <1>1, <1>2, <1>3, <1>4, <1>5, <1>11, Zenon

\* No unit of e is in the table at l; and the units of c are the first ones of e on t.
OffTable(e, l)    == \A u \in 1 .. e.size : SectorOf(e, u) \in Lba \ {l}
StartsAs(t, e, c) == \A u \in 1 .. c.size : Unit(t, e, u) = Unit(sector, c, u)

\* The units of the longer file: those there were, and new bytes.
LEMMA LongerFilled ==
  ASSUME NEW t, NEW e, NEW c, NEW l, e.type = "file", e.start = c.start, Filled(sector, c),
         Keeps(t, e, l, c.size), Brought(t, e, l, c.size), NEW size \in Nat, e.size = size,
         NEW z \in Nat, c.size = z, z < size, OffTable(e, l)
  PROVE  Filled(t, e) /\ StartsAs(t, e, c)
<1>0. \A u \in 1 .. size : SectorOf(e, u) \in Lba \ {l}
  BY Zenon DEF OffTable
<1>1. \A u : Unit(sector, e, u) = Unit(sector, c, u)
  BY Zenon DEF Unit, SectorOf
<1>2. ASSUME NEW u \in 1 .. size, u <= z PROVE Unit(t, e, u) = Unit(sector, c, u)
  BY <1>0, <1>1, <1>2, Zenon DEF Keeps
<1>3. \A u \in 1 .. z : u \in 1 .. size /\ u <= z
  OBVIOUS
<1>4. ASSUME NEW u \in 1 .. size PROVE Unit(t, e, u) \in Byte
  <2>1. CASE u <= z
    <3>1. u \in 1 .. z
      BY <2>1
    <3>2. Unit(sector, c, u) \in Byte
      BY <3>1, Zenon DEF Filled
    <3> QED  BY <1>2, <2>1, <3>2, Zenon
  <2>2. CASE ~(u <= z)
    BY <1>0, <2>2, Zenon DEF Brought
  <2> QED  BY <2>1, <2>2, Zenon
<1>5. Filled(t, e)
  BY <1>4, Zenon DEF Filled
<1> QED  BY <1>2, <1>3, <1>5, Zenon DEF StartsAs

\* fs_append_file: the file has more data.
LEMMA ExtendsFollow ==
  ASSUME TypeOK, NEW D, Tree(sector, D, next), NEW f, Leads(sector, f), AllFiles(sector, f),
         NEW p, NEW l, NEW i, NEW size, NEW q, NEW m, Extends(p, l, i, size, q, m), ~hurt'
  PROVE  Follows(f, sector')
<1>1. PICK c, e : c = At(p) /\ e = [c EXCEPT !.size = size]
  OBVIOUS
<1>2. SlotAt(p, l, i) /\ q \in Span(c) /\ Edits({q}, l, i, e, m)
  BY <1>1, Zenon DEF Extends
<1>3. /\ p \in Paths /\ p \in DOMAIN f /\ f[p] = << l, i >> /\ l \in D /\ i \in Index
      /\ c = Ent(sector, << l, i >>)
  BY <1>1, <1>2, SlotHas, Zenon
<1>4. PICK b \in Busy(sector, D) : b = << l, i >> /\ f[p] = b /\ c = Ent(sector, b)
  <2>1. << l, i >> \in Busy(sector, D)
    BY <1>3, LeadsInTree, Zenon
  <2> QED  BY <1>3, <2>1, Zenon
<1>5. PICK n \in Nat, z \in Nat :
        /\ n = size /\ z = c.size /\ z < n /\ e.size = n
        /\ c \in Entry /\ e \in Entry /\ SameBut(e, c) /\ c.type = "file" /\ e.type = "file" /\ e.start = c.start
        /\ \A u \in 1 .. n : SectorOf(e, u) \in Lba \ {l}
  <2>1. Extends(p, l, i, size, q, m) /\ c = At(p) /\ e = [c EXCEPT !.size = size]
    BY <1>1, Zenon
  <2>2. /\ c \in Entry /\ e \in Entry /\ SameBut(e, c) /\ c.type = "file" /\ e.type = "file"
        /\ e.start = c.start /\ e.size = size
        /\ size \in Nat /\ c.size \in Nat /\ c.size < size
        /\ \A u \in 1 .. size : SectorOf(e, u) \in Lba \ {l}
    BY <2>1, ExtendsEntry
  <2> QED  BY <2>2, Zenon
<1>6. PICK own : own = {q} /\ own \subseteq Lba /\ own \cap D = {} /\ own \subseteq Span(c)
  <2>1. Span(c) \subseteq START .. next - 1 /\ Span(c) \cap D = {}
    BY <1>4, <1>5 DEF Tree
  <2>2. \A y \in START .. next - 1 : y \in Lba
    BY TreeBelow, Constants DEF Lba
  <2> QED  BY <1>2, <2>1, <2>2
<1>7. PICK t : t = sector' /\ Settled(t, D, own, l, i, e, m)
  <2>1. Edits(own, l, i, e, m)
    BY <1>2, <1>6, Zenon
  <2> QED  BY <1>3, <1>6, <2>1, EditSettles, Zenon
<1>8. Kept(t, own, l) /\ Keeps(t, e, l, z)
  <2>1. Table(l)[i] = c
    BY <1>3 DEF Table, Ent
  <2> QED  BY <1>5, <1>7, <2>1, Zenon DEF Settled
<1>9. Intact(t, c)
  <2>1. z <= n
    BY <1>5
  <2>2. e.size \in Nat /\ c.size <= e.size /\ Keeps(t, e, l, c.size)
    BY <1>5, <1>8, <2>1, Zenon
  <2> QED  BY <1>3, <1>4, <1>5, <2>2, KeepsIntact, Zenon
<1>10. \A x \in Busy(sector, D) : Intact(t, Ent(sector, x))
  <2> TAKE x \in Busy(sector, D)
  <2>1. x # b => Intact(t, Ent(sector, x))
    BY <1>3, <1>4, <1>6, <1>8, OthersIntact, Zenon
  <2> QED  BY <1>4, <1>9, <2>1, Zenon
<1>11. CASE \A d \in D : t[d].entries = sector[d].entries
  <2>1. Follows(f, t)
    BY <1>10, <1>11, StoreStays, Zenon
  <2> QED  BY <1>7, <2>1, Zenon
<1>12. CASE Patched(sector, t, D, l, i, e) /\ Brought(t, e, l, Table(l)[i].size)
  <2>1. Tables(sector)
    BY DEF TypeOK, Tables
  <2>2. Changed(sector, t, D, l, i, e)
    <3>1. l \in Lba
      BY <1>3, TreeBelow
    <3> QED  BY <1>3, <1>12, <2>1, <3>1, PatchedIs, Zenon DEF Tables
  <2>3. Brought(t, e, l, z)
    <3>1. Table(l)[i] = c
      BY <1>3 DEF Table, Ent
    <3> QED  BY <1>5, <1>12, <3>1, Zenon
  <2>4. SameTree(sector, t, D)
    <3> SUFFICES ASSUME NEW x \in D \X Index PROVE SameBut(Ent(t, x), Ent(sector, x))
      BY Zenon DEF SameTree
    <3>1. Ent(t, x) = IF x = << l, i >> THEN e ELSE Ent(sector, x)
      BY <2>2, Zenon DEF Changed
    <3> QED  BY <1>3, <1>5, <3>1, Zenon DEF SameBut
  <2>5. Leads(t, f)
    BY <2>4, LeadsAlike, Zenon
  <2>6. Ent(t, f[p]) = e
    <3>1. << l, i >> \in D \X Index
      BY <1>3
    <3> QED  BY <1>3, <2>2, <3>1, Zenon DEF Changed
  <2>7. \A x \in DOMAIN f : x # p => Stays(t, f[x])
    <3> TAKE x \in DOMAIN f
    <3> HAVE x # p
    <3>1. f[x] # << l, i >>
      BY <1>3, <2>1, LeadsOnce, Zenon
    <3>2. Intact(t, Ent(sector, f[x]))
      BY <1>10, LeadsInTree, Zenon
    <3> QED  BY <1>3, <2>2, <3>1, <3>2, OthersStand, Zenon
  <2>8. Filled(sector, c)
    BY <1>3, <1>4, <1>5, Zenon DEF AllFiles
  <2>9. Filled(t, e) /\ \A u \in 1 .. z : Unit(t, e, u) = Unit(sector, c, u)
    <3>1. Keeps(t, e, l, c.size) /\ Brought(t, e, l, c.size)
      BY <1>5, <1>8, <2>3, Zenon
    <3>2. e.type = "file" /\ e.start = c.start /\ e.size = n /\ c.size = z /\ z < n
      BY <1>5, Zenon
    <3>3. OffTable(e, l)
      BY <1>5, Zenon DEF OffTable
    <3>4. Filled(t, e) /\ StartsAs(t, e, c)
      BY <2>8, <3>1, <3>2, <3>3, LongerFilled, Zenon
    <3> QED  BY <3>2, <3>4, Zenon DEF StartsAs
  <2>10. AllFiles(t, f)
    <3> SUFFICES ASSUME NEW x \in DOMAIN f, Ent(t, f[x]).type = "file" PROVE Filled(t, Ent(t, f[x]))
      BY Zenon DEF AllFiles
    <3>1. CASE x = p
      BY <2>6, <2>9, <3>1, Zenon
    <3>2. CASE x # p
      <4>1. Ent(t, f[x]) = Ent(sector, f[x]) /\ Intact(t, Ent(sector, f[x]))
        BY <2>7, <3>2, Zenon DEF Stays
      <4>2. Ent(sector, f[x]).type = "file"
        BY <4>1, Zenon
      <4>3. Filled(sector, Ent(sector, f[x]))
        BY <4>2, Zenon DEF AllFiles
      <4> QED  BY <4>1, <4>2, <4>3, Zenon DEF Intact
    <3> QED  BY <3>1, <3>2, Zenon
  <2>11. PICK old \in Seq(Byte) : /\ Value(sector, c) = [type |-> "file", data |-> old] /\ Len(old) = z
                                  /\ \A u \in 1 .. z : old[u] = Unit(sector, c, u)
    BY <1>5, <2>8, UnitsAre, Zenon
  <2>12. PICK new \in Seq(Byte) : /\ Value(t, e) = [type |-> "file", data |-> new] /\ Len(new) = n
                                  /\ \A u \in 1 .. n : new[u] = Unit(t, e, u)
    BY <1>5, <2>9, UnitsAre, Zenon
  <2>13. \A u \in 1 .. Len(old) : new[u] = old[u]
    <3>1. \A u \in 1 .. z : u \in 1 .. n
      BY <1>5
    <3> QED  BY <2>9, <2>11, <2>12, <3>1, Zenon
  <2>14. PICK V, W, v : V = View(sector, f) /\ W = View(t, f) /\ v = [type |-> "file", data |-> new]
    OBVIOUS
  <2>15. DOMAIN V = DOMAIN f /\ \A x \in DOMAIN f : V[x] = Value(sector, Ent(sector, f[x]))
    BY <2>14, Zenon DEF View
  <2>16. Replaced(V, W, p, v)
    <3>1. \A x \in DOMAIN f : Value(t, Ent(t, f[x])) = IF x = p THEN v ELSE V[x]
      <4> TAKE x \in DOMAIN f
      <4>1. CASE x = p
        BY <2>6, <2>12, <2>14, <4>1, Zenon
      <4>2. CASE x # p
        BY <2>7, <2>15, <4>2, Zenon DEF Stays, Intact
      <4> QED  BY <4>1, <4>2, Zenon
    <3>2. W = [x \in DOMAIN f |-> Value(t, Ent(t, f[x]))]
      BY <2>14, Zenon DEF View
    <3>3. W = [x \in DOMAIN f |-> IF x = p THEN v ELSE V[x]]
      BY <3>1, <3>2, Zenon
    <3> QED  BY <2>15, <3>3, Zenon DEF Replaced
  <2>17. V[p] = [type |-> "file", data |-> old]
    BY <1>3, <2>11, <2>15, Zenon
  <2>18. Store!Extend(V, W)
    <3>1. p \in DOMAIN V /\ Len(old) < Len(new)
      BY <1>3, <1>5, <2>11, <2>12, <2>15, Zenon
    <3> QED  BY <2>13, <2>14, <2>16, <2>17, <3>1, ExtendMade, Zenon
  <2>19. Follows(f, t)
    BY <2>5, <2>10, <2>14, <2>18, Zenon DEF Follows, Store!Call
  <2> QED  BY <1>7, <2>19, Zenon
<1> QED  BY <1>7, <1>11, <1>12, Zenon DEF Settled

\* The sectors of a new file are no table of the tree.
LEMMA NewOffTable ==
  ASSUME TypeOK, NEW D, Tree(sector, D, next), NEW e \in Entry, e.type = "file", e.start = next,
         NEW l \in D, next + Sectors(e.size) <= LIMIT
  PROVE  OffTable(e, l)
<1> SUFFICES ASSUME NEW u \in 1 .. e.size PROVE SectorOf(e, u) \in Lba \ {l}
  BY Zenon DEF OffTable
<1>1. /\ D \subseteq Lba /\ (\A d \in D : d = ROOT \/ d < next)
      /\ next \in Nat /\ START <= next /\ next <= LIMIT /\ LIMIT \in Nat
  BY TreeBelow, Zenon
<1>2. PICK n \in Nat \ {0} : n = Sectors(e.size)
  BY EntryParts, SectorsIsNat
<1>3. PICK y : y = SectorOf(e, u)
  OBVIOUS
<1>4. y \in next .. next + n - 1
  BY <1>2, <1>3, UnitIs, Zenon
<1>5. next + n <= LIMIT
  BY <1>2, Zenon
<1>6. y \in Lba
  BY <1>1, <1>4, <1>5, Constants DEF Lba
<1>7. l = ROOT \/ l < next
  BY <1>1, Zenon
<1>8. l \in Nat
  BY <1>1, Constants DEF Lba
<1>9. y # l
  BY <1>1, <1>4, <1>7, <1>8, Constants
<1> QED  BY <1>3, <1>6, <1>9

\* fs_create_dir and fs_create_file make W of V with v for the new path p.
LEMMA CreateMade ==
  ASSUME NEW V, NEW W, NEW p, p \notin DOMAIN V, NEW v, W = Store!With(V, p, v),
         Store!IsDir(V, Store!Parent(p)),
         (v.type = "dir" /\ v.data = << >>) \/ (v.type = "file" /\ v.data \in Seq(Byte))
  PROVE  Store!Create(V, W)
<1>1. DOMAIN W = DOMAIN V \cup {p} /\ W[p] = v
  BY DEF Store!With
<1>2. p \in DOMAIN W \ DOMAIN V
  BY <1>1
<1>3. "file" # "dir"
  OBVIOUS
<1>4. IF W[p].type = "dir" THEN W[p].data = << >> ELSE W[p].data \in Seq(Byte)
  BY <1>1, <1>3, Zenon
<1> QED  BY <1>1, <1>2, <1>4, Zenon DEF Store!Create

\* The table a path leads to is a directory of the store.
LEMMA TabIsDir ==
  ASSUME NEW f, NEW u, NEW l, InTab(sector, f, u, l)
  PROVE  Store!IsDir(View(sector, f), u)
<1>1. CASE u = << >>
  BY <1>1, Zenon DEF Store!IsDir
<1>2. CASE u \in DOMAIN f /\ Ent(sector, f[u]).type = "dir"
  <2>1. DOMAIN View(sector, f) = DOMAIN f /\ View(sector, f)[u] = Value(sector, Ent(sector, f[u]))
    BY <1>2, Zenon DEF View
  <2>2. PICK e : e = Ent(sector, f[u]) /\ e.type = "dir"
    BY <1>2, Zenon
  <2>3. Value(sector, e).type = "dir"
    BY <2>2 DEF Value
  <2> QED  BY <1>2, <2>1, <2>2, <2>3, Zenon DEF Store!IsDir
<1> QED  BY <1>1, <1>2, Zenon DEF InTab

\* The other paths lead to what they did; and W is V with v for p.
OthersStay(t, f, p)  == \A q \in DOMAIN f : q # p => Stays(t, f[q])
MadeWith(V, W, p, v) == W = Store!With(V, p, v)

\* The store then has the new path.
LEMMA MoreView ==
  ASSUME NEW f, NEW g, NEW p, NEW b, OneMore(f, g, p, b), NEW t, NEW e, Ent(t, b) = e, OthersStay(t, f, p)
  PROVE  MadeWith(View(sector, f), View(t, g), p, Value(t, e))
<1>0. \A q \in DOMAIN f : q # p => Value(t, Ent(t, f[q])) = Value(sector, Ent(sector, f[q]))
  BY Zenon DEF OthersStay, Stays, Intact
<1>1. DOMAIN g = DOMAIN f \cup {p}
  BY Zenon DEF OneMore
<1>2. DOMAIN View(sector, f) = DOMAIN f
  BY Zenon DEF View
<1>3. ASSUME NEW q \in DOMAIN f \cup {p}
      PROVE  Value(t, Ent(t, g[q])) = IF q = p THEN Value(t, e) ELSE View(sector, f)[q]
  <2>1. g[q] = IF q = p THEN b ELSE f[q]
    BY Zenon DEF OneMore
  <2>2. CASE q = p
    BY <2>1, <2>2, Zenon
  <2>3. CASE q # p
    <3>1. q \in DOMAIN f
      BY <2>3
    <3>2. View(sector, f)[q] = Value(sector, Ent(sector, f[q]))
      BY <3>1, Zenon DEF View
    <3> QED  BY <1>0, <2>1, <2>3, <3>1, <3>2, Zenon
  <2> QED  BY <2>2, <2>3, Zenon
<1>4. View(t, g) = [q \in DOMAIN f \cup {p} |-> Value(t, Ent(t, g[q]))]
  BY <1>1, Zenon DEF View
<1>5. View(t, g) = [q \in DOMAIN f \cup {p} |-> IF q = p THEN Value(t, e) ELSE View(sector, f)[q]]
  BY <1>3, <1>4, Zenon
<1>6. Store!With(View(sector, f), p, Value(t, e))
        = [q \in DOMAIN View(sector, f) \cup {p} |-> IF q = p THEN Value(t, e) ELSE View(sector, f)[q]]
  BY Zenon DEF Store!With
<1> QED  BY <1>2, <1>5, <1>6, Zenon DEF MadeWith

\* The slot, the name and the sectors of a new entry.
LEMMA AddsEntry ==
  ASSUME TypeOK, NEW D, Tree(sector, D, next), NEW l, NEW i, NEW e, Adds(l, i, e)
  PROVE  /\ l \in Lba /\ l \in D /\ OnWalk(l) /\ i \in Index /\ e \in Entry /\ e.type \in {"file", "dir"}
         /\ e.type # "free" /\ e.start = next /\ e.start \notin D
         /\ Ent(sector, << l, i >>).type = "free" /\ Table(l)[i].size = 0
         /\ Fresh(sector, l, e.name)
         /\ e.type = "file" => OffTable(e, l)
         /\ \E m \in Nat : m > next /\ Edits({}, l, i, e, m)
<1>1. /\ OnWalk(l) /\ Table(l)[i].type = "free" /\ Named(Table(l), e.name) = {}
      /\ e.type \in {"file", "dir"} /\ e.start = next /\ next < LIMIT
      /\ Edits({}, l, i, e, next + Sectors(e.size))
  BY Zenon DEF Adds
<1>2. l \in Lba /\ i \in Index /\ e \in Entry
  BY <1>1, Zenon DEF Edits
<1>3. l \in D
  BY <1>1, <1>2, WalksInTree, Zenon
<1>4. /\ D \subseteq Lba /\ (\A d \in D : d = ROOT \/ d < next)
      /\ next \in Nat /\ START <= next /\ next <= LIMIT /\ LIMIT \in Nat
  BY TreeBelow, Zenon
<1>5. PICK n \in Nat \ {0} : n = Sectors(e.size)
  BY <1>2, EntryParts, SectorsIsNat
<1>6. PICK m \in Nat : m = next + n /\ m > next
  BY <1>4, <1>5
<1>7. Edits({}, l, i, e, m)
  BY <1>1, <1>5, <1>6, Zenon
<1>8. m \in next .. LIMIT
  <2>1. PICK ws : Settles(ws, {}, l, [Table(l) EXCEPT ![i] = e], m)
    BY <1>7, Zenon DEF Edits
  <2> QED  BY <2>1, Zenon DEF Settles
<1>9. e.type = "file" => OffTable(e, l)
  <2>1. next + Sectors(e.size) <= LIMIT
    <3>1. next + n <= LIMIT
      BY <1>4, <1>6, <1>8
    <3> QED  BY <1>5, <3>1, Zenon
  <2> QED  BY <1>1, <1>2, <1>3, <2>1, NewOffTable, Zenon
<1>10. e.start \notin D
  <2>1. ~(next < next) /\ next # ROOT
    BY <1>4, Constants
  <2> QED  BY <1>1, <1>4, <2>1, Zenon
<1>11. Ent(sector, << l, i >>) = Table(l)[i]
  BY DEF Ent, Table
<1>12. Table(l)[i].size = 0
  <2>1. Table(l) \in [Index -> Entry]
    BY <1>2 DEF TypeOK, Table
  <2>2. Table(l)[i] \in Entry
    BY <1>2, <2>1
  <2>3. Table(l)[i] = NoEntry
    BY <1>1, <2>2 DEF Entry
  <2> QED  BY <2>3 DEF NoEntry
<1>13. ASSUME NEW j \in Index PROVE ~Holds(sector, << l, j >>, e.name)
  <2>1. Ent(sector, << l, j >>) = Table(l)[j]
    BY DEF Ent, Table
  <2>2. j \notin Named(Table(l), e.name)
    BY <1>1
  <2>3. ~(Table(l)[j].type # "free" /\ Table(l)[j].name = e.name)
    BY <2>2, NamedHas, Zenon
  <2> QED  BY <2>1, <2>3, Zenon DEF Holds
<1>14. e.type # "free"
  BY <1>1
<1>15. Fresh(sector, l, e.name)
  BY <1>13, Zenon DEF Fresh
<1> QED  BY <1>1, <1>2, <1>3, <1>6, <1>7, <1>9, <1>10, <1>11, <1>12, <1>14, <1>15, Zenon

\* The paths with a new one, and the files they lead to.
LEMMA MoreFiles ==
  ASSUME NEW f, AllFiles(sector, f), NEW g, NEW p, NEW b, OneMore(f, g, p, b), NEW t,
         OthersStay(t, f, p), Ent(t, b).type = "file" => Filled(t, Ent(t, b))
  PROVE  AllFiles(t, g)
<1>1. DOMAIN g = DOMAIN f \cup {p}
  BY Zenon DEF OneMore
<1> SUFFICES ASSUME NEW q \in DOMAIN f \cup {p}, Ent(t, g[q]).type = "file"
             PROVE  Filled(t, Ent(t, g[q]))
  BY <1>1, Zenon DEF AllFiles
<1>2. g[q] = IF q = p THEN b ELSE f[q]
  BY Zenon DEF OneMore
<1>3. CASE q = p
  BY <1>2, <1>3, Zenon
<1>4. CASE q # p
  <2>1. q \in DOMAIN f
    BY <1>4
  <2>2. g[q] = f[q] /\ Ent(t, f[q]) = Ent(sector, f[q]) /\ Intact(t, Ent(sector, f[q]))
    BY <1>2, <1>4, <2>1, Zenon DEF OthersStay, Stays
  <2>3. Ent(sector, f[q]).type = "file"
    BY <2>2, Zenon
  <2>4. Filled(sector, Ent(sector, f[q]))
    BY <2>1, <2>3, Zenon DEF AllFiles
  <2> QED  BY <2>2, <2>3, <2>4, Zenon DEF Intact
<1> QED  BY <1>3, <1>4

\* A new entry says it is an empty directory, or a file of bytes.
NewValue(v) == (v.type = "dir" /\ v.data = << >>) \/ (v.type = "file" /\ v.data \in Seq(Byte))

\* What a new entry says, of a directory or of a file all of whose units are bytes.
LEMMA NewValueIs ==
  ASSUME NEW t, NEW e \in Entry, e.type \in {"file", "dir"}, e.type = "file" => Filled(t, e)
  PROVE  NewValue(Value(t, e))
<1>1. PICK z \in Nat : z = e.size
  BY EntryParts
<1>2. CASE e.type = "file"
  <2>0. e.type = "file" /\ Filled(t, e)
    BY <1>2
  <2>1. PICK d \in Seq(Byte) :
          /\ Value(t, e) = [type |-> "file", data |-> d] /\ Len(d) = z
          /\ \A u \in 1 .. z : d[u] = Unit(t, e, u)
    BY <1>1, <2>0, UnitsAre, Zenon
  <2>2. Value(t, e).type = "file" /\ Value(t, e).data = d
    BY <2>1
  <2> QED  BY <2>2, Zenon DEF NewValue
<1>3. CASE e.type = "dir"
  <2>1. Value(t, e).type = "dir" /\ Value(t, e).data = << >>
    BY <1>3 DEF Value
  <2> QED  BY <2>1, Zenon DEF NewValue
<1> QED  BY <1>2, <1>3

\* fs_create_dir, fs_create_file, fs_copy_file: one more path.
LEMMA AddsFollow ==
  ASSUME TypeOK, NEW D, Tree(sector, D, next), NEW f, Leads(sector, f), AllFiles(sector, f),
         NEW l, NEW i, NEW e, Adds(l, i, e), ~hurt'
  PROVE  Follows(f, sector')
<1>1. /\ l \in Lba /\ l \in D /\ OnWalk(l) /\ i \in Index /\ e \in Entry /\ e.type \in {"file", "dir"}
      /\ e.type # "free" /\ e.start = next /\ e.start \notin D
      /\ Ent(sector, << l, i >>).type = "free" /\ Table(l)[i].size = 0
      /\ Fresh(sector, l, e.name)
      /\ e.type = "file" => OffTable(e, l)
      /\ \E m \in Nat : m > next /\ Edits({}, l, i, e, m)
  BY AddsEntry
<1>2. PICK m \in Nat : m > next /\ Edits({}, l, i, e, m)
  BY <1>1, Zenon
<1>3. PICK t : t = sector' /\ Settled(t, D, {}, l, i, e, m)
  <2>1. {} \subseteq Lba /\ {} \cap D = {}
    OBVIOUS
  <2> QED  BY <1>1, <1>2, <2>1, EditSettles, Zenon
<1>4. \A x \in Busy(sector, D) : Intact(t, Ent(sector, x))
  <2> TAKE x \in Busy(sector, D)
  <2>1. PICK own : own = {}
    OBVIOUS
  <2>2. Span(Ent(sector, x)) \cap own = {}
    BY <2>1
  <2>3. Apart(own, Ent(sector, x))
    BY <2>2, Zenon DEF Apart
  <2>4. Kept(t, own, l)
    BY <1>3, <2>1, Zenon DEF Settled
  <2> QED  BY <1>1, <2>3, <2>4, KeptIntact, Zenon
<1>5. CASE \A d \in D : t[d].entries = sector[d].entries
  <2>1. Follows(f, t)
    BY <1>4, <1>5, StoreStays, Zenon
  <2> QED  BY <1>3, <2>1, Zenon
<1>6. CASE /\ Patched(sector, t, D, l, i, e) /\ Brought(t, e, l, Table(l)[i].size)
           /\ m > next => t[next].entries = Blank.entries
  <2>1. Tables(sector)
    BY DEF TypeOK, Tables
  <2>2. Changed(sector, t, D, l, i, e)
    BY <1>1, <1>6, <2>1, PatchedIs, Zenon DEF Tables
  <2>3. PICK u \in Seq(Names) : Len(u) <= MaxDepth /\ InTab(sector, f, u, l)
    <3>1. \A d \in Lba : OnWalk(d) => \E u \in Seq(Names) : Len(u) <= MaxDepth /\ InTab(sector, f, u, d)
      BY SlotLeads
    <3> QED  BY <1>1, <3>1, Zenon
  <2>4. PICK p : Longer(p, u, e.name)
    BY DEF Longer
  <2>5. PICK g : OneMore(f, g, p, << l, i >>)
    BY DEF OneMore
  <2>6. Opens(D, t, e)
    <3>1. ASSUME NEW j \in Index PROVE Ent(t, << e.start, j >>).type = "free"
      <4>1. t[next].entries = Blank.entries
        BY <1>2, <1>6, Zenon
      <4>2. Ent(t, << e.start, j >>) = t[next].entries[j]
        BY <1>1 DEF Ent
      <4>3. Blank.entries[j].type = "free"
        BY DEF Blank, NoEntry
      <4> QED  BY <4>1, <4>2, <4>3, Zenon
    <3> QED  BY <1>1, <3>1, Zenon DEF Opens
  <2>7. Leads(t, g) /\ p \in Paths /\ p \notin DOMAIN f /\ Up(p) = u /\ Leaf(p) = e.name
    <3>1. Patched(sector, t, D, l, i, e)
      BY <1>6, Zenon
    <3>2. Enters(sector, t, D, l, i, e)
      BY <1>1, <2>6, <3>1, Zenon DEF Enters
    <3>3. PICK b : b = << l, i >>
      OBVIOUS
    <3>4. OneMore(f, g, p, b)
      BY <2>5, <3>3, Zenon
    <3>5. NewPathTo(t, f, g, p, u, e.name)
      BY <2>1, <2>3, <2>4, <3>2, <3>3, <3>4, LeadsAdd, Zenon
    <3> QED  BY <3>5, Zenon DEF NewPathTo
  <2>8. Ent(t, << l, i >>) = e
    <3>1. << l, i >> \in D \X Index
      BY <1>1
    <3> QED  BY <2>2, <3>1, Zenon DEF Changed
  <2>9. \A q \in DOMAIN f : Stays(t, f[q])
    <3> TAKE q \in DOMAIN f
    <3>1. f[q] \in Busy(sector, D)
      BY LeadsInTree, Zenon
    <3>2. f[q] # << l, i >>
      <4>1. Ent(sector, f[q]).type # "free"
        BY <3>1, Zenon DEF Busy
      <4> QED  BY <1>1, <4>1, Zenon
    <3>3. Intact(t, Ent(sector, f[q]))
      BY <1>4, <3>1, Zenon
    <3> QED  BY <1>1, <2>2, <3>2, <3>3, OthersStand, Zenon
  <2>10. e.type = "file" => Filled(t, e)
    <3> HAVE e.type = "file"
    <3> SUFFICES ASSUME NEW a \in 1 .. e.size PROVE Unit(t, e, a) \in Byte
      BY Zenon DEF Filled
    <3>1. SectorOf(e, a) \in Lba \ {l}
      BY <1>1, Zenon DEF OffTable
    <3>2. ~(a <= 0)
      OBVIOUS
    <3>3. ~(a <= Table(l)[i].size)
      BY <1>1, <3>2, Zenon
    <3>4. Brought(t, e, l, Table(l)[i].size)
      BY <1>6, Zenon
    <3> QED  BY <3>1, <3>3, <3>4, Zenon DEF Brought
  <2>11. AllFiles(t, g)
    <3>1. OthersStay(t, f, p)
      BY <2>9, Zenon DEF OthersStay
    <3> QED  BY <2>5, <2>8, <2>10, <3>1, MoreFiles, Zenon
  <2>12. PICK V, W, v : V = View(sector, f) /\ W = View(t, g) /\ v = Value(t, e)
    OBVIOUS
  <2>13. W = Store!With(V, p, v)
    <3>1. OthersStay(t, f, p)
      BY <2>9, Zenon DEF OthersStay
    <3>2. MadeWith(View(sector, f), View(t, g), p, Value(t, e))
      BY <2>5, <2>8, <3>1, MoreView, Zenon
    <3> QED  BY <2>12, <3>2, Zenon DEF MadeWith
  <2>14. NewValue(v)
    BY <1>1, <2>10, <2>12, NewValueIs, Zenon
  <2>15. Store!IsDir(V, Store!Parent(p))
    <3>1. Store!Parent(p) = u
      BY <2>7, Zenon DEF Store!Parent, Up
    <3> QED  BY <2>3, <2>12, <3>1, TabIsDir, Zenon
  <2>16. Store!Create(V, W)
    <3>1. p \notin DOMAIN V
      BY <2>7, <2>12, Zenon DEF View
    <3>2. (v.type = "dir" /\ v.data = << >>) \/ (v.type = "file" /\ v.data \in Seq(Byte))
      BY <2>14, Zenon DEF NewValue
    <3> QED  BY <2>13, <2>15, <3>1, <3>2, CreateMade, Zenon
  <2>17. Follows(f, t)
    BY <2>7, <2>11, <2>12, <2>16, Zenon DEF Follows, Store!Call
  <2> QED  BY <1>3, <2>17, Zenon
<1> QED  BY <1>3, <1>5, <1>6, Zenon DEF Settled

\* fs_move makes W of V when file p is then r, in the directory u.
LEMMA MoveMade ==
  ASSUME NEW V, NEW W, NEW p \in DOMAIN V, V[p].type = "file", NEW u, Store!IsDir(V, u),
         NEW r, Longer(r, u, Leaf(p)), r \notin DOMAIN V, NEW U, U = Store!Without(V, p), MadeWith(U, W, r, V[p])
  PROVE  Store!CopyOrMove(V, W)
<1>1. Append(u, Store!Leaf(p)) = r
  BY Zenon DEF Longer, Leaf, Store!Leaf
<1>2. u \in DOMAIN V \cup {<< >>}
  BY DEF Store!IsDir
<1>3. r # p
  OBVIOUS
<1>4. PICK C : C = Store!With(V, r, V[p]) /\ C = Store!Copied(V, p, u)
  BY <1>1, Zenon DEF Store!Copied
<1>5. DOMAIN C = DOMAIN V \cup {r} /\ \A q \in DOMAIN V \cup {r} : C[q] = IF q = r THEN V[p] ELSE V[q]
  BY <1>4, Zenon DEF Store!With
<1>6. DOMAIN U = DOMAIN V \ {p} /\ \A q \in DOMAIN V \ {p} : U[q] = V[q]
  BY Zenon DEF Store!Without
<1>7. W = [q \in DOMAIN U \cup {r} |-> IF q = r THEN V[p] ELSE U[q]]
  BY Zenon DEF MadeWith, Store!With
<1>8. DOMAIN U \cup {r} = DOMAIN C \ {p}
  BY <1>3, <1>5, <1>6
<1>9. ASSUME NEW q \in DOMAIN C \ {p} PROVE (IF q = r THEN V[p] ELSE U[q]) = C[q]
  <2>1. CASE q = r
    <3>1. q \in DOMAIN V \cup {r}
      BY <2>1
    <3> QED  BY <1>5, <2>1, <3>1, Zenon
  <2>2. CASE q # r
    <3>1. q \in DOMAIN V \ {p} /\ q \in DOMAIN V \cup {r}
      BY <1>5, <2>2
    <3> QED  BY <1>5, <1>6, <2>2, <3>1, Zenon
  <2> QED  BY <2>1, <2>2
<1>10. W = [q \in DOMAIN C \ {p} |-> IF q = r THEN V[p] ELSE U[q]]
  BY <1>7, <1>8, Zenon
<1>11. W = [q \in DOMAIN C \ {p} |-> C[q]]
  BY <1>9, <1>10, Zenon
<1>12. W = Store!Without(C, p)
  BY <1>11, Zenon DEF Store!Without
<1>13. W \in {Store!Copied(V, p, u), Store!Without(Store!Copied(V, p, u), p)}
  BY <1>4, <1>12
<1>14. Store!IsFile(V, p)
  BY Zenon DEF Store!IsFile
<1> QED  BY <1>1, <1>2, <1>13, <1>14, Zenon DEF Store!CopyOrMove

\* Between the two writes of a move.
LEMMA BetweenIs ==
  ASSUME TypeOK, NEW D, Tree(sector, D, next), NEW s, NEW t, NEW l, NEW i, NEW d, NEW j, NEW e,
         Between(s, t, D, l, i, d, j, e)
  PROVE  /\ Tables(s) /\ Tables(sector) /\ Changed(sector, s, D, l, i, NoEntry) /\ Changed(s, t, D, d, j, e)
         /\ l \in D /\ i \in Index /\ d \in D /\ j \in Index /\ d # l /\ e \in Entry /\ e.type = "file"
         /\ e = Ent(sector, << l, i >>) /\ << l, i >> \in Busy(sector, D) /\ Tree(s, D, next)
         /\ Patched(sector, s, D, l, i, NoEntry)
         /\ Ent(sector, << d, j >>).type = "free" /\ Enters(s, t, D, d, j, e) /\ Ent(t, << d, j >>) = e
<1>1. /\ l \in D /\ i \in Index /\ d \in D /\ j \in Index /\ d # l
      /\ e \in Entry /\ e.type = "file" /\ e = Ent(sector, << l, i >>) /\ << l, i >> \in Busy(sector, D)
      /\ Ent(sector, << d, j >>).type = "free" /\ Named(Table(d), e.name) = {}
      /\ \A b \in Lba : s[b].entries \in [Index -> Entry]
      /\ \A b \in D : b # l => s[b] = sector[b]
      /\ Patched(sector, s, D, l, i, NoEntry) /\ Patched(s, t, D, d, j, e)
      /\ Tree(s, D, next)
  BY Zenon DEF Between
<1>2. D \subseteq Lba /\ l \in Lba /\ d \in Lba
  BY <1>1 DEF Tree
<1>3. Tables(s) /\ Tables(sector)
  BY <1>1 DEF TypeOK, Tables
<1>4. Changed(sector, s, D, l, i, NoEntry)
  BY <1>1, <1>2, <1>3, PatchedIs, Zenon DEF Tables
<1>5. Changed(s, t, D, d, j, e)
  BY <1>1, <1>2, <1>3, PatchedIs, Zenon DEF Tables
<1>6. \A k \in Index : Ent(s, << d, k >>) = Ent(sector, << d, k >>)
  BY <1>1 DEF Ent
<1>7. Fresh(s, d, e.name)
  <2> SUFFICES ASSUME NEW k \in Index PROVE ~Holds(s, << d, k >>, e.name)
    BY Zenon DEF Fresh
  <2>1. Ent(s, << d, k >>) = Table(d)[k]
    BY <1>6 DEF Ent, Table
  <2>2. k \notin Named(Table(d), e.name)
    BY <1>1
  <2>3. ~(Table(d)[k].type # "free" /\ Table(d)[k].name = e.name)
    BY <2>2, NamedHas, Zenon
  <2> QED  BY <2>1, <2>3, Zenon DEF Holds
<1>8. Opens(D, t, e) /\ e.type # "free"
  <2>1. e.type # "dir" /\ e.type # "free"
    BY <1>1
  <2> QED  BY <2>1, Zenon DEF Opens
<1>9. Enters(s, t, D, d, j, e)
  <2>1. Ent(s, << d, j >>).type = "free"
    BY <1>1, <1>6, Zenon
  <2> QED  BY <1>1, <1>7, <1>8, <2>1, Zenon DEF Enters
<1>10. Ent(t, << d, j >>) = e
  <2>1. << d, j >> \in D \X Index
    BY <1>1
  <2> QED  BY <1>5, <2>1, Zenon DEF Changed
<1> QED  BY <1>1, <1>3, <1>4, <1>5, <1>9, <1>10, Zenon

\* The paths after a move: g without the file, h with its new path r, and the entries they
\* lead to.
MovedTo(t, f, p, u, r, b, e, g, h) ==
  /\ g = [q \in DOMAIN f \ {p} |-> f[q]] /\ OneMore(g, h, r, b)
  /\ Leads(t, h) /\ r \notin DOMAIN f /\ Longer(r, u, Leaf(p)) /\ Ent(t, b) = e
  /\ \A q \in DOMAIN f \ {p} : Ent(t, f[q]) = Ent(sector, f[q])

\* The paths after a move.
LEMMA MoveLeads ==
  ASSUME TypeOK, NEW D, Tree(sector, D, next), NEW f, Leads(sector, f), NEW s, NEW t, NEW l, NEW i,
         NEW d, NEW j, NEW e, Between(s, t, D, l, i, d, j, e),
         NEW p \in DOMAIN f, f[p] = << l, i >>, NEW u \in Seq(Names), Len(u) <= MaxDepth, InTab(sector, f, u, d)
  PROVE  \E r, b, g, h : MovedTo(t, f, p, u, r, b, e, g, h)
<1>1. /\ Tables(s) /\ Tables(sector) /\ Changed(sector, s, D, l, i, NoEntry) /\ Changed(s, t, D, d, j, e)
      /\ l \in D /\ i \in Index /\ d \in D /\ j \in Index /\ d # l /\ e \in Entry /\ e.type = "file"
      /\ e = Ent(sector, << l, i >>) /\ << l, i >> \in Busy(sector, D) /\ Tree(s, D, next)
      /\ Patched(sector, s, D, l, i, NoEntry)
      /\ Ent(sector, << d, j >>).type = "free" /\ Enters(s, t, D, d, j, e) /\ Ent(t, << d, j >>) = e
  BY BetweenIs
<1>2. p \in Paths /\ Holds(sector, << l, i >>, Leaf(p)) /\ InTab(sector, f, Up(p), l)
  <2>1. f[p][1] = l
    OBVIOUS
  <2>2. p \in Paths /\ Holds(sector, f[p], Leaf(p)) /\ InTab(sector, f, Up(p), f[p][1])
    BY LeadsAre, Zenon
  <2> QED  BY <2>1, <2>2, Zenon
<1>3. e.name = Leaf(p)
  BY <1>1, <1>2, Zenon DEF Holds
<1>4. PICK g : g = [q \in DOMAIN f \ {p} |-> f[q]]
  OBVIOUS
<1>5. DOMAIN g = DOMAIN f \ {p} /\ \A q \in DOMAIN f \ {p} : g[q] = f[q]
  BY <1>4, Zenon
<1>6. Leads(s, g)
  <2>1. Ent(sector, << l, i >>).type = "dir" =>
          \A k \in Index : Ent(sector, << Ent(sector, << l, i >>).start, k >>).type = "free"
    <3>1. "file" # "dir"
      OBVIOUS
    <3> QED  BY <1>1, <3>1, Zenon
  <2> QED  BY <1>1, <1>4, <2>1, LeadsRemove, Zenon
<1>7. \A q \in DOMAIN f : /\ f[q] \in D \X Index /\ f[q] # << d, j >>
                          /\ q # p => f[q] # << l, i >>
  <2> TAKE q \in DOMAIN f
  <2>1. f[q] \in Busy(sector, D)
    BY LeadsInTree, Zenon
  <2>2. f[q] \in D \X Index /\ Ent(sector, f[q]).type # "free"
    BY <2>1, Zenon DEF Busy
  <2>3. f[q] # << d, j >>
    BY <1>1, <2>2, Zenon
  <2>4. q # p => f[q] # << l, i >>
    BY <1>1, LeadsOnce, Zenon
  <2> QED  BY <2>2, <2>3, <2>4, Zenon
<1>8. \A q \in DOMAIN f : q # p => Ent(s, f[q]) = Ent(sector, f[q]) /\ Ent(t, f[q]) = Ent(s, f[q])
  BY <1>1, <1>7, Zenon DEF Changed
<1>9. InTab(s, g, u, d)
  <2>1. CASE u = << >> /\ d = ROOT
    BY <2>1, Zenon DEF InTab
  <2>2. CASE u \in DOMAIN f /\ Ent(sector, f[u]).type = "dir" /\ Ent(sector, f[u]).start = d
    <3>1. u # p
      <4>1. "file" # "dir"
        OBVIOUS
      <4> QED  BY <1>1, <2>2, <4>1, Zenon
    <3>2. u \in DOMAIN f \ {p}
      BY <2>2, <3>1
    <3>3. u \in DOMAIN g /\ g[u] = f[u] /\ Ent(s, f[u]) = Ent(sector, f[u])
      BY <1>5, <1>8, <2>2, <3>1, <3>2, Zenon
    <3> QED  BY <2>2, <3>3, Zenon DEF InTab
  <2> QED  BY <2>1, <2>2, Zenon DEF InTab
<1>10. PICK r : Longer(r, u, e.name)
  BY DEF Longer
<1>11. PICK b : b = << d, j >>
  OBVIOUS
<1>12. PICK h : OneMore(g, h, r, b)
  BY DEF OneMore
<1>13. NewPathTo(t, g, h, r, u, e.name)
  BY <1>1, <1>6, <1>9, <1>10, <1>11, <1>12, LeadsAdd, Zenon
<1>14. Leads(t, h) /\ r \notin DOMAIN g /\ Up(r) = u
  BY <1>13, Zenon DEF NewPathTo
<1>15. r # p
  <2> SUFFICES ASSUME r = p PROVE FALSE
    OBVIOUS
  <2>1. InTab(sector, f, u, l)
    BY <1>2, <1>14, Zenon
  <2> QED  BY <1>1, <2>1, TabIs, Zenon
<1>16. r \notin DOMAIN f
  BY <1>5, <1>14, <1>15
<1>17. \A q \in DOMAIN f \ {p} : Ent(t, f[q]) = Ent(sector, f[q])
  <2> TAKE q \in DOMAIN f \ {p}
  <2>1. q \in DOMAIN f /\ q # p
    OBVIOUS
  <2> QED  BY <1>8, <2>1, Zenon
<1>18. MovedTo(t, f, p, u, r, b, e, g, h)
  BY <1>1, <1>3, <1>4, <1>10, <1>11, <1>12, <1>14, <1>16, <1>17, Zenon DEF MovedTo
<1> QED  BY <1>18, Zenon

\* fs_move: the file is in another directory.
LEMMA MovesFollow ==
  ASSUME TypeOK, NEW D, Tree(sector, D, next), NEW f, Leads(sector, f), AllFiles(sector, f),
         NEW p, NEW l, NEW i, NEW d, NEW j, Moves(p, l, i, d, j), ~hurt'
  PROVE  Follows(f, sector')
<1>1. SlotAt(p, l, i) /\ OnWalk(d) /\ d \in Lba
  BY Zenon DEF Moves
<1>2. PICK c : c = At(p)
  OBVIOUS
<1>3. p \in DOMAIN f /\ f[p] = << l, i >> /\ l \in D /\ i \in Index /\ c = Ent(sector, << l, i >>)
  BY <1>1, <1>2, SlotHas, Zenon
<1>4. PICK t : t = sector'
  OBVIOUS
<1>5. /\ l \in D /\ d \in D /\ \A b \in Lba : b \notin {d, l} => t[b] = sector[b]
      /\ \/ \A b \in D : t[b].entries = sector[b].entries
         \/ \E s : Between(s, t, D, l, i, d, j, c)
  BY <1>2, <1>4, MovesBetween, Zenon
<1>6. \A x \in Busy(sector, D) : Intact(t, Ent(sector, x))
  <2> TAKE x \in Busy(sector, D)
  <2>1. PICK own : own = {d}
    OBVIOUS
  <2>2. Kept(t, own, l)
    BY <1>5, <2>1 DEF Kept
  <2>3. Apart(own, Ent(sector, x))
    <3>1. PICK a : a = Ent(sector, x)
      OBVIOUS
    <3>2. a.type # "dir" => Span(a) \cap D = {}
      BY <3>1, Zenon DEF Tree
    <3>3. a.type = "file" => Span(a) \cap own = {}
      BY <1>5, <2>1, <3>2
    <3> QED  BY <3>1, <3>3, Zenon DEF Apart
  <2> QED  BY <1>5, <2>2, <2>3, KeptIntact, Zenon
<1>7. CASE \A b \in D : t[b].entries = sector[b].entries
  <2>1. Follows(f, t)
    BY <1>6, <1>7, StoreStays, Zenon
  <2> QED  BY <1>4, <2>1, Zenon
<1>8. ASSUME NEW s, Between(s, t, D, l, i, d, j, c) PROVE Follows(f, t)
  <2>1. PICK u \in Seq(Names) : Len(u) <= MaxDepth /\ InTab(sector, f, u, d)
    <3>1. \A m \in Lba : OnWalk(m) => \E u \in Seq(Names) : Len(u) <= MaxDepth /\ InTab(sector, f, u, m)
      BY SlotLeads
    <3> QED  BY <1>1, <3>1, Zenon
  <2>2. PICK r, b, g, h : MovedTo(t, f, p, u, r, b, c, g, h)
    BY <1>3, <1>8, <2>1, MoveLeads, Zenon
  <2>3. /\ g = [q \in DOMAIN f \ {p} |-> f[q]] /\ OneMore(g, h, r, b)
        /\ Leads(t, h) /\ r \notin DOMAIN f /\ Longer(r, u, Leaf(p)) /\ Ent(t, b) = c
        /\ \A q \in DOMAIN f \ {p} : Ent(t, f[q]) = Ent(sector, f[q])
    BY <2>2, Zenon DEF MovedTo
  <2>4. DOMAIN g = DOMAIN f \ {p} /\ \A q \in DOMAIN f \ {p} : g[q] = f[q] /\ q \in DOMAIN f
    <3>1. \A q \in DOMAIN f \ {p} : q \in DOMAIN f
      OBVIOUS
    <3> QED  BY <2>3, <3>1, Zenon
  <2>5. c.type = "file" /\ << l, i >> \in Busy(sector, D)
    BY <1>8, Zenon DEF Between
  <2>6. Intact(t, c) /\ Filled(sector, c)
    <3>1. Intact(t, c)
      BY <1>3, <1>6, <2>5, Zenon
    <3>2. Ent(sector, f[p]).type = "file" /\ c = Ent(sector, f[p])
      BY <1>3, <2>5, Zenon
    <3>3. Filled(sector, c)
      BY <1>3, <3>2, Zenon DEF AllFiles
    <3> QED  BY <3>1, <3>3
  <2>7. OthersStay(t, g, r)
    <3> SUFFICES ASSUME NEW q \in DOMAIN f \ {p} PROVE Stays(t, g[q])
      BY <2>4, Zenon DEF OthersStay
    <3>1. g[q] = f[q] /\ q \in DOMAIN f /\ Ent(t, f[q]) = Ent(sector, f[q])
      BY <2>3, <2>4, Zenon
    <3>2. f[q] \in Busy(sector, D)
      BY <3>1, LeadsInTree, Zenon
    <3> QED  BY <1>6, <3>1, <3>2, Zenon DEF Stays
  <2>8. AllFiles(sector, g)
    <3> SUFFICES ASSUME NEW q \in DOMAIN f \ {p}, Ent(sector, g[q]).type = "file" PROVE Filled(sector, Ent(sector, g[q]))
      BY <2>4, Zenon DEF AllFiles
    <3>1. g[q] = f[q] /\ q \in DOMAIN f
      BY <2>4, Zenon
    <3> QED  BY <3>1, Zenon DEF AllFiles
  <2>9. AllFiles(t, h)
    <3>1. Ent(t, b).type = "file" => Filled(t, Ent(t, b))
      BY <2>3, <2>5, <2>6, Zenon DEF Intact
    <3> QED  BY <2>3, <2>7, <2>8, <3>1, MoreFiles, Zenon
  <2>10. PICK V, W, U : V = View(sector, f) /\ W = View(t, h) /\ U = View(sector, g)
    OBVIOUS
  <2>11. DOMAIN V = DOMAIN f /\ \A q \in DOMAIN f : V[q] = Value(sector, Ent(sector, f[q]))
    BY <2>10, Zenon DEF View
  <2>12. V[p] = Value(sector, c) /\ V[p] = Value(t, c)
    BY <1>3, <2>6, <2>11, Zenon DEF Intact
  <2>13. MadeWith(U, W, r, V[p])
    <3>1. MadeWith(View(sector, g), View(t, h), r, Value(t, c))
      BY <2>3, <2>7, MoreView, Zenon
    <3> QED  BY <2>10, <2>12, <3>1, Zenon
  <2>14. U = Store!Without(V, p)
    <3>1. \A q \in DOMAIN f \ {p} : Value(sector, Ent(sector, g[q])) = V[q]
      BY <2>4, <2>11, Zenon
    <3>2. U = [q \in DOMAIN f \ {p} |-> Value(sector, Ent(sector, g[q]))]
      BY <2>4, <2>10, Zenon DEF View
    <3>3. U = [q \in DOMAIN f \ {p} |-> V[q]]
      BY <3>1, <3>2, Zenon
    <3> QED  BY <2>11, <3>3, Zenon DEF Store!Without
  <2>15. Store!CopyOrMove(V, W)
    <3>1. V[p].type = "file"
      <4>1. Value(sector, c).type = c.type
        BY DEF Value
      <4> QED  BY <2>5, <2>12, <4>1, Zenon
    <3>2. Store!IsDir(V, u)
      BY <2>1, <2>10, TabIsDir, Zenon
    <3>3. p \in DOMAIN V /\ r \notin DOMAIN V /\ Longer(r, u, Leaf(p))
      BY <1>3, <2>3, <2>11, Zenon
    <3> QED  BY <2>13, <2>14, <3>1, <3>2, <3>3, MoveMade, Zenon
  <2> QED  BY <2>3, <2>9, <2>10, <2>15, Zenon DEF Follows, Store!Call
<1> QED  BY <1>4, <1>5, <1>7, <1>8, Zenon

\* Each call takes effect at once or not at all.
LEMMA DoesFollow ==
  ASSUME TypeOK, NEW D, Tree(sector, D, next), NEW f, Leads(sector, f), AllFiles(sector, f), Does, ~hurt'
  PROVE  Follows(f, sector')
<1>1. ASSUME NEW l, NEW i, NEW e, Adds(l, i, e) PROVE Follows(f, sector')
  BY <1>1, AddsFollow, Zenon
<1>2. ASSUME NEW p, NEW l, NEW i, Removes(p, l, i) PROVE Follows(f, sector')
  BY <1>2, RemovesFollow, Zenon
<1>3. ASSUME NEW p, NEW l, NEW i, NEW n, Renames(p, l, i, n) PROVE Follows(f, sector')
  BY <1>3, RenamesFollow, Zenon
<1>4. ASSUME NEW p, NEW l, NEW i, NEW size, NEW q, NEW m, Extends(p, l, i, size, q, m)
      PROVE  Follows(f, sector')
  BY <1>4, ExtendsFollow, Zenon
<1>5. ASSUME NEW p, NEW l, NEW i, NEW q, Scribbles(p, l, i, q) PROVE Follows(f, sector')
  BY <1>5, ScribblesFollow, Zenon
<1>6. ASSUME NEW p, NEW l, NEW i, NEW d, NEW j, Moves(p, l, i, d, j) PROVE Follows(f, sector')
  BY <1>6, MovesFollow, Zenon
<1> QED  BY <1>1, <1>2, <1>3, <1>4, <1>5, <1>6, Zenon DEF Does

----------------------------------------------------------------------------
(* The filesystem keeps what fs.h promises.                                *)

\* On a disk whose sectors are what they were, every entry is intact.
LEMMA AllIntact ==
  ASSUME TypeOK, NEW D, NEW k \in Int, k <= LIMIT, Tree(sector, D, k),
         NEW t, \A y \in Lba : t[y] = sector[y], NEW x \in Busy(sector, D)
  PROVE  Intact(t, Ent(sector, x))
<1>1. PICK e : e = Ent(sector, x)
  OBVIOUS
<1>2. e \in Entry
  <2>1. Tables(sector)
    BY DEF TypeOK, Tables
  <2> QED  BY <1>1, <2>1, BusyIs, Zenon
<1>3. Span(e) \subseteq START .. k - 1
  BY <1>1, Zenon DEF Tree
<1>4. ASSUME e.type = "file", NEW u \in 1 .. e.size PROVE Unit(t, e, u) = Unit(sector, e, u)
  <2>1. PICK y : y = SectorOf(e, u)
    OBVIOUS
  <2>2. y \in e.start .. e.start + Sectors(e.size) - 1
    BY <1>2, <2>1, UnitIs, Zenon
  <2>3. e.type # "free" /\ e.type # "dir"
    BY <1>4
  <2>4. y \in Span(e)
    BY <1>2, <2>2, <2>3, SpanIs, Zenon
  <2>5. y \in Lba
    <3>1. \A z \in START .. k - 1 : z \in Lba
      BY Constants DEF Lba
    <3> QED  BY <1>3, <2>4, <3>1
  <2>6. t[y] = sector[y]
    BY <2>5
  <2> QED  BY <2>1, <2>6, Zenon DEF Unit
<1>5. Intact(t, e)
  BY <1>4, IntactIs, Zenon
<1> QED  BY <1>1, <1>5, Zenon

\* On a disk that is as it was, so is the store.
LEMMA SameFollows ==
  ASSUME TypeOK, NEW D, NEW k \in Int, k <= LIMIT, Tree(sector, D, k), NEW f, Leads(sector, f), AllFiles(sector, f),
         NEW t, \A y \in Lba : t[y] = sector[y]
  PROVE  Follows(f, t)
<1>1. \A d \in D : t[d].entries = sector[d].entries
  BY DEF Tree
<1>2. \A x \in Busy(sector, D) : Intact(t, Ent(sector, x))
  <2> TAKE x \in Busy(sector, D)
  <2> QED  BY AllIntact, Zenon
<1> QED  BY <1>1, <1>2, StoreStays, Zenon

\* No entry of the root is in use.
RootFree(s) == \A i \in Index : s[ROOT].entries[i].type = "free"

\* An empty disk has an empty store.
LEMMA EmptyLeads ==
  ASSUME NEW s, RootFree(s)
  PROVE  /\ Leads(s, << >>) /\ AllFiles(s, << >>) /\ View(s, << >>) = << >>
         /\ \A f : Leads(s, f) => f = << >>
<1>1. DOMAIN << >> = {}
  OBVIOUS
<1>2. ASSUME NEW b \in Lba \X Index, NEW u, NEW n PROVE ~(Holds(s, b, n) /\ InTab(s, << >>, u, b[1]))
  <2> SUFFICES ASSUME InTab(s, << >>, u, b[1]) PROVE Ent(s, b).type = "free"
    BY Zenon DEF Holds
  <2>1. b[1] = ROOT /\ b[2] \in Index
    BY <1>1 DEF InTab
  <2> QED  BY <2>1, Zenon DEF Ent, RootFree
<1>3. Leads(s, << >>)
  <2>1. << >> = [p \in DOMAIN << >> |-> << >>[p]]
    BY <1>1
  <2>2. DOMAIN << >> \subseteq Paths /\ \A p \in DOMAIN << >> : << >>[p] \in Lba \X Index
    BY <1>1
  <2>3. ASSUME NEW p \in Paths, NEW b \in Lba \X Index
        PROVE  (p \in DOMAIN << >> /\ << >>[p] = b) <=> (Holds(s, b, Leaf(p)) /\ InTab(s, << >>, Up(p), b[1]))
    <3>1. ~(Holds(s, b, Leaf(p)) /\ InTab(s, << >>, Up(p), b[1]))
      BY <1>2, Zenon
    <3>2. p \notin DOMAIN << >>
      BY <1>1
    <3> QED  BY <3>1, <3>2, Zenon
  <2> QED  BY <2>1, <2>2, <2>3, Zenon DEF Leads
<1>4. AllFiles(s, << >>)
  BY <1>1 DEF AllFiles
<1>5. View(s, << >>) = << >>
  BY <1>1 DEF View
<1>6. ASSUME NEW f, Leads(s, f) PROVE f = << >>
  <2>1. PICK D : D = {ROOT} /\ Tree(s, D, START)
    <3>1. Tree(s, {ROOT}, START)
      BY EmptyTree DEF RootFree
    <3> QED  BY <3>1
  <2>2. Busy(s, D) = {}
    BY <2>1 DEF Busy, Ent, RootFree
  <2>3. \A p \in DOMAIN f : f[p] \in Busy(s, D)
    BY <1>6, <2>1, LeadsInTree, Zenon
  <2>4. DOMAIN f = {} /\ f = [p \in DOMAIN f |-> f[p]]
    <3>1. DOMAIN f = {}
      BY <2>2, <2>3
    <3>2. f = [p \in DOMAIN f |-> f[p]]
      BY <1>6, Zenon DEF Leads
    <3> QED  BY <3>1, <3>2
  <2> QED  BY <2>4
<1> QED  BY <1>3, <1>4, <1>5, <1>6, Zenon

\* There are paths, and the files they lead to have their bytes; and the store is what
\* the paths say.
LeadsInv == ~hurt => \E f : Leads(sector, f) /\ AllFiles(sector, f)
Viewed   == ~hurt => \A f : Leads(sector, f) => Contents = View(sector, f)

\* The store is what the paths say.
LEMMA StoreViewed ==
  ASSUME TypeOK, TreeInv
  PROVE  Viewed
<1> SUFFICES ASSUME ~hurt, NEW f, Leads(sector, f) PROVE Contents = View(sector, f)
  BY Zenon DEF Viewed
<1>1. PICK k, D : Tree(sector, D, k)
  BY DEF TreeInv
<1> QED  BY <1>1, ContentsAre, Zenon

\* Whatever happens, the store is what it was, or what a call may make of it.
LEMMA NextFollows ==
  ASSUME SafeInv, TreeInv, LeadsInv, [Next]_vars, ~hurt'
  PROVE  ~hurt /\ \E f : Leads(sector, f) /\ AllFiles(sector, f) /\ Follows(f, sector')
<1>1. TypeOK /\ DevReserved /\ saving \in Path \cup {<< >>}
  BY DEF SafeInv
<1>2. \/ mounted /\ Does
      \/ sector' = sector /\ (hurt => hurt')
      \/ Format
  <2>1. CASE Boot
    <3>1. Mount \/ Format
      BY <2>1 DEF Boot
    <3>2. CASE Mount
      BY <3>2 DEF Mount, diskVars
    <3> QED  BY <3>1, <3>2
  <2>2. CASE mounted /\ PowerOff
    <3>1. sector' = sector /\ hurt' = (hurt \/ super < next)
      BY <2>2 DEF PowerOff, diskVars
    <3> QED  BY <3>1, Zenon
  <2>3. CASE mounted /\ Call
    BY <1>1, <2>3, CallDoes
  <2>4. ASSUME mounted, NEW p \in Path, SaveDelete(p) PROVE mounted /\ Does
    BY <1>1, <2>4, CallDoes
  <2>5. ASSUME mounted, saving # << >>, NEW s \in Piece, SaveCreate(s)
        PROVE  (mounted /\ Does) \/ (sector' = sector /\ (hurt => hurt'))
    <3>1. Does \/ UNCHANGED <<diskVars, mounted, next, hurt>>
      BY <1>1, <2>5, CallDoes
    <3>2. CASE UNCHANGED <<diskVars, mounted, next, hurt>>
      BY <3>2 DEF diskVars
    <3> QED  BY <2>5, <3>1, <3>2
  <2>6. CASE UNCHANGED vars
    BY <2>6 DEF vars
  <2>7. \/ Boot \/ (mounted /\ PowerOff) \/ (mounted /\ Call)
        \/ (mounted /\ \E p \in Path : SaveDelete(p))
        \/ (mounted /\ saving # << >> /\ \E s \in Piece : SaveCreate(s))
        \/ UNCHANGED vars
    BY Zenon DEF Next
  <2> QED  BY <2>1, <2>2, <2>3, <2>4, <2>5, <2>6, <2>7, Zenon
<1>3. ~hurt
  BY <1>1, <1>2, DoesHurt, FormatIs, Zenon
<1>4. PICK f : Leads(sector, f) /\ AllFiles(sector, f)
  BY <1>3, Zenon DEF LeadsInv
<1>5. PICK k, D : k \in Int /\ k = Known /\ k <= LIMIT /\ Tree(sector, D, k)
  <2>1. Known \in Int /\ Known <= LIMIT
    BY <1>1, Constants DEF TypeOK, Known
  <2>2. PICK D : Tree(sector, D, Known)
    BY <1>3 DEF TreeInv
  <2> QED  BY <2>1, <2>2
<1>6. PICK t : t = sector'
  OBVIOUS
<1>7. CASE mounted /\ Does
  <2>1. Tree(sector, D, next)
    BY <1>5, <1>7 DEF Known
  <2> QED  BY <1>1, <1>3, <1>4, <1>7, <2>1, DoesFollow, Zenon
<1>8. ASSUME \A y \in Lba : t[y] = sector[y] PROVE Follows(f, t)
  BY <1>1, <1>4, <1>5, <1>8, SameFollows, Zenon
<1>9. CASE sector' = sector
  <2>1. Follows(f, t)
    BY <1>6, <1>8, <1>9, Zenon
  <2> QED  BY <1>3, <1>4, <1>6, <2>1, Zenon
<1>10. CASE Format
  <2>1. \/ Empty(ROOT) /\ \A i \in Index : t[ROOT].entries[i].type = "free"
        \/ \A l \in Lba : t[l] = sector[l]
    BY <1>1, <1>6, <1>10, FormatIs, Zenon
  <2>2. CASE Empty(ROOT) /\ \A i \in Index : t[ROOT].entries[i].type = "free"
    <3>1. RootFree(sector) /\ RootFree(t)
      BY <2>2 DEF RootFree, Empty, Table
    <3>2. f = << >> /\ View(sector, << >>) = << >>
      BY <1>4, <3>1, EmptyLeads, Zenon
    <3>3. Leads(t, << >>) /\ AllFiles(t, << >>) /\ View(t, << >>) = << >>
      BY <3>1, EmptyLeads, Zenon
    <3>4. Follows(f, t)
      BY <3>2, <3>3, Zenon DEF Follows
    <3> QED  BY <1>3, <1>4, <1>6, <3>4, Zenon
  <2>3. CASE \A l \in Lba : t[l] = sector[l]
    BY <1>3, <1>4, <1>6, <1>8, <2>3, Zenon
  <2> QED  BY <2>1, <2>2, <2>3
<1> QED  BY <1>2, <1>7, <1>9, <1>10, Zenon

\* Two stores, of before and after a step.
LEMMA StoreStep ==
  ASSUME NEW V, NEW W, V = Contents, W = Contents', hurt' = hurt, W = V \/ Store!Call(V, W)
  PROVE  [Store!Next]_Store!vars
<1>1. CASE W = V
  <2>1. Contents' = Contents
    BY <1>1
  <2> QED  BY <2>1, Zenon DEF Store!vars
<1>2. CASE W # V /\ Store!Call(V, W)
  BY <1>2, Zenon DEF Store!Next
<1> QED  BY <1>1, <1>2

\* What fs.h promises, whichever write fails and whenever the machine stops: until the
\* disk is hurt, the paths and what they lead to are a store that each call changes at
\* once, in the way it should, or not at all.
THEOREM StoreImplemented == Spec => StoreSpec
<1>1. Init => LeadsInv /\ (Viewed => Store!Init)
  <2> SUFFICES ASSUME Init PROVE LeadsInv /\ (Viewed => Store!Init)
    OBVIOUS
  <2>1. RootFree(sector)
    <3>1. sector[ROOT] = Blank
      BY Constants DEF Init
    <3>2. \A i \in Index : Blank.entries[i] = NoEntry
      BY DEF Blank
    <3> QED  BY <3>1, <3>2, NoEntryIs DEF RootFree
  <2>2. Leads(sector, << >>) /\ AllFiles(sector, << >>) /\ View(sector, << >>) = << >>
    BY <2>1, EmptyLeads, Zenon
  <2>3. LeadsInv
    BY <2>2, Zenon DEF LeadsInv
  <2>4. hurt = FALSE /\ ~hurt
    BY DEF Init
  <2>5. ASSUME Viewed PROVE Contents = << >>
    BY <2>2, <2>4, <2>5, Zenon DEF Viewed
  <2> QED  BY <2>3, <2>4, <2>5, Zenon DEF Store!Init
<1>2. SafeInv /\ TreeInv => Viewed
  BY StoreViewed DEF SafeInv
<1>3. SafeInv /\ TreeInv /\ LeadsInv /\ [Next]_vars => LeadsInv'
  <2> SUFFICES ASSUME SafeInv, TreeInv, LeadsInv, [Next]_vars, ~hurt'
               PROVE  \E g : Leads(sector', g) /\ AllFiles(sector', g)
    BY Zenon DEF LeadsInv
  <2>1. PICK f : Follows(f, sector')
    BY NextFollows, Zenon
  <2> QED  BY <2>1, Zenon DEF Follows
<1>4. SafeInv /\ TreeInv /\ LeadsInv /\ Viewed /\ [Next]_vars /\ SafeInv' /\ Viewed' => [Store!Next]_Store!vars
  <2> SUFFICES ASSUME SafeInv, TreeInv, LeadsInv, Viewed, [Next]_vars, SafeInv', Viewed'
               PROVE  [Store!Next]_Store!vars
    OBVIOUS
  <2>1. CASE hurt'
    BY <2>1, Zenon DEF Store!Next
  <2>2. CASE ~hurt'
    <3>1. PICK f : ~hurt /\ Leads(sector, f) /\ Follows(f, sector')
      BY <2>2, NextFollows, Zenon
    <3>2. PICK t : t = sector'
      OBVIOUS
    <3>3. PICK g : Leads(t, g) /\ (View(t, g) = View(sector, f) \/ Store!Call(View(sector, f), View(t, g)))
      BY <3>1, <3>2, Zenon DEF Follows
    <3>4. hurt' = hurt
      <4>1. hurt \in BOOLEAN /\ hurt' \in BOOLEAN
        BY DEF SafeInv, TypeOK
      <4> QED  BY <2>2, <3>1, <4>1
    <3>5. PICK V, W : V = View(sector, f) /\ W = View(t, g)
      OBVIOUS
    <3>6. V = Contents
      BY <3>1, <3>5, Zenon DEF Viewed
    <3>7. W = Contents'
      <4>1. Leads(sector', g) /\ W = View(sector', g)
        BY <3>2, <3>3, <3>5, Zenon
      <4> QED  BY <2>2, <4>1, Zenon DEF Viewed
    <3>8. W = V \/ Store!Call(V, W)
      BY <3>3, <3>5, Zenon
    <3> QED  BY <3>4, <3>6, <3>7, <3>8, StoreStep
  <2> QED  BY <2>1, <2>2
<1> QED  BY <1>1, <1>2, <1>3, <1>4, SafeInvariant, TreeInvariant, PTL DEF Spec, StoreSpec, Store!Spec

=============================================================================
