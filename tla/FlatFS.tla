------------------------------- MODULE FlatFS -------------------------------
(***************************************************************************)
(* kernel/fs/fs.c, the filesystem on the second drive: a superblock, a     *)
(* tree of directory tables and contiguous files, and an allocator that    *)
(* only moves forward.  The kernel calls one function at a time; what is   *)
(* hard is that each is several sector writes, any of which may fail and   *)
(* after any of which the machine may stop.  A call is one step here: it   *)
(* determines the writes it would do, in order, and how many of them the   *)
(* drive performs.  A call that returns -1 before its first write changes  *)
(* nothing and is not an action.                                           *)
(*                                                                         *)
(* A sector holds SECTOR units of data (512 bytes) or one table.           *)
(***************************************************************************)
EXTENDS Integers, Sequences, FiniteSets, FiniteSetsExt, SequencesExt

CONSTANTS
  Names,        \* names an entry may have
  DEV,          \* FS_DEV_NAME, one of them
  FS_MAX_FILES, \* entries of a table (20)
  SECTOR,       \* units of a sector
  LIMIT,        \* FS_TOTAL_SECTORS - FS_RESERVED_TAIL_SECTORS (2047)
  Byte,         \* what a unit of a file may be
  MaxSize,      \* bound: units of a file
  MaxDepth      \* components of a path (FS_MAX_PATH_DEPTH, 4)

ASSUME FSAssumption ==
  /\ DEV \in Names
  /\ FS_MAX_FILES \in Nat \ {0} /\ SECTOR \in Nat \ {0}
  /\ LIMIT \in Nat /\ LIMIT > 2
  /\ MaxSize \in Nat /\ MaxDepth \in Nat \ {0}
  /\ 0 \notin Byte

VARIABLES
  super,   \* next_free_lba in the superblock on disk; 0: no valid superblock
  sector,  \* the sectors after it
  mounted,
  next,    \* sb.next_free_lba in memory
  saving,  \* the path of the editor's SAVE between its fs_delete and fs_create_file
  hurt     \* history: a failure the format does not survive

diskVars == <<super, sector>>
vars == <<super, sector, mounted, next, saving, hurt>>

SUPER == 0
ROOT  == 1
START == 2   \* FS_DATA_START_LBA
Lba   == ROOT .. LIMIT - 1
Index == 1 .. FS_MAX_FILES

NoEntry == [name |-> DEV, type |-> "free", start |-> 0, size |-> 0]
Entry   == {NoEntry} \cup
  [name : Names, type : {"file", "dir"}, start : START .. LIMIT - 1, size : 0 .. MaxSize]

\* A sector as a table and as data; one written as data has no entries.
Blank == [entries |-> [i \in Index |-> NoEntry], data |-> [u \in 1 .. SECTOR |-> 0]]
AsTable(tab) == [Blank EXCEPT !.entries = tab]
AsData(d)    == [Blank EXCEPT !.data = d]

Init ==
  /\ super = 0 /\ sector = [l \in Lba |-> Blank]
  /\ mounted = FALSE /\ next = START
  /\ saving = <<>> /\ hurt = FALSE

----------------------------------------------------------------------------
(* Tables and paths.                                                       *)

Table(l) == sector[l].entries

Named(tab, n) == {i \in Index : tab[i].type # "free" /\ tab[i].name = n}
FreeIn(tab)   == {i \in Index : tab[i].type = "free"}
First(S)      == CHOOSE i \in S : \A j \in S : i <= j
EntryOf(l, n) == Table(l)[First(Named(Table(l), n))]

\* (mutant) a span may run to the end of the disk
SpanValidToEnd(lba, span) == lba >= START /\ lba <= LIMIT /\ span <= LIMIT + 1 - lba

\* lba_span_valid
SpanValid(lba, span) == lba >= START /\ lba < LIMIT /\ span <= LIMIT - lba

NoTable == 0

\* walk_components' step: the table a name leads to from table l.
Into(l, n) ==
  IF /\ l # NoTable /\ Named(Table(l), n) # {} /\ EntryOf(l, n).type = "dir"
     /\ SpanValid(EntryOf(l, n).start, 1)
    THEN EntryOf(l, n).start ELSE NoTable

\* walk_components: the table the components lead to, if they all are
\* directories.
Walk(path) ==
  LET at[n \in 0 .. Len(path)] == IF n = 0 THEN ROOT ELSE Into(at[n - 1], path[n])
  IN  at[Len(path)]

Path == UNION {[1 .. n -> Names] : n \in 1 .. MaxDepth}
Leaf(p)    == p[Len(p)]
InTable(p) == Walk(SubSeq(p, 1, Len(p) - 1))

Found(p)  == InTable(p) # NoTable /\ Named(Table(InTable(p)), Leaf(p)) # {}
At(p)     == EntryOf(InTable(p), Leaf(p))
IsFile(p) == Found(p) /\ At(p).type = "file"

\* The slot of an entry of the table that holds p's entry.
SlotOf(p) == First(Named(Table(InTable(p)), Leaf(p)))

\* A name can go into a table: there is room, nothing has it, and it is not
\* the root's DEV.
CanAdd(l, n) ==
  /\ l # NoTable
  /\ ~(l = ROOT /\ n = DEV)
  /\ Named(Table(l), n) = {}
  /\ FreeIn(Table(l)) # {}

Added(l, e) == [Table(l) EXCEPT ![First(FreeIn(Table(l)))] = e]

\* Every file owns a sector, an empty one too.
Sectors(size) ==
  LET n == size \div SECTOR + (IF size % SECTOR # 0 THEN 1 ELSE 0)
  IN  IF n = 0 THEN 1 ELSE n

Content(e) ==
  [u \in 1 .. e.size |->
     sector[e.start + (u - 1) \div SECTOR].data[((u - 1) % SECTOR) + 1]]

----------------------------------------------------------------------------
(* Writes, in order, and what becomes of them.                             *)

ToSuper(n)     == [lba |-> SUPER, free |-> n]
ToTable(l, t)  == [lba |-> l, sector |-> AsTable(t)]
ToData(l, d)   == [lba |-> l, sector |-> AsData(d)]

\* The units of s, a sector's worth each, from lba on.
DataWrites(lba, s) ==
  [k \in 1 .. Sectors(Len(s)) |->
     ToData(lba + k - 1,
            [u \in 1 .. SECTOR |->
               LET i == (k - 1) * SECTOR + u IN IF i <= Len(s) THEN s[i] ELSE 0])]

\* (mutant) sb_write before sb.next_free_lba has moved
AllocStale(n, ws) == <<ToSuper(next)>> \o ws

\* alloc_sectors, and what is written after it.
Alloc(n, ws) == <<ToSuper(next + n)>> \o ws

\* The writes in K (indices of ws) reach the disk.
OnDisk(ws, K) ==
  /\ super' = IF \E k \in K : ws[k].lba = SUPER
                THEN ws[CHOOSE k \in K : ws[k].lba = SUPER].free ELSE super
  /\ sector' = [l \in Lba |->
       IF \E k \in K : ws[k].lba = l
         THEN ws[CHOOSE k \in K : ws[k].lba = l].sector ELSE sector[l]]

\* In memory the allocator moves whether or not sb_write succeeds.
NextAfter(ws, done) ==
  IF \E k \in 1 .. done : ws[k].lba = SUPER
    THEN ws[CHOOSE k \in 1 .. done : ws[k].lba = SUPER].free ELSE next

\* The first done writes of ws reach the disk, save that sb_write does not look
\* at its result: it may be lost, and never ends the call.  Then the call
\* returns (-1 if writes are left: the next one failed, or the last one did
\* after it reached the disk), or the machine stops.  The disk is hurt when
\* the machine stops with the superblock behind the allocator, or by a call
\* cut short that leaves its entry in two tables.
Perform(ws, twice) ==
  \E done \in 0 .. Len(ws), stop \in BOOLEAN :
    \E lost \in {\E k \in 1 .. done : ws[k].lba = SUPER, FALSE} :
      /\ (done = 0 /\ ws # <<>> /\ ~stop) => ws[1].lba # SUPER
      /\ OnDisk(ws, {k \in 1 .. done : ~(lost /\ ws[k].lba = SUPER)})
      /\ mounted' = ~stop
      /\ next' = IF stop THEN START ELSE NextAfter(ws, done)
      /\ hurt' = (hurt \/ (twice /\ done = 1) \/ (stop /\ super' < NextAfter(ws, done)))

----------------------------------------------------------------------------
(* The calls.                                                              *)

Create(p, type, s) ==
  LET l == InTable(p)
      n == IF type = "dir" THEN 1 ELSE Sectors(Len(s))
  IN /\ CanAdd(l, Leaf(p))
     /\ SpanValid(next, n)
     /\ Perform(Alloc(n, DataWrites(next, s) \o
          <<ToTable(l, Added(l, [name |-> Leaf(p), type |-> type, start |-> next,
                                 size |-> Len(s)]))>>), FALSE)

CreateDir(p)     == Create(p, "dir", <<>>)
CreateFile(p, s) == Create(p, "file", s)

\* Where the unit after the last one of a file goes, in its last sector.
TailOffset(e) == e.size - (Sectors(e.size) - 1) * SECTOR
TailLba(e)    == e.start + Sectors(e.size) - 1

\* (mutant) the tail is written over, from the sector's first unit
TailWriteOver(e, s) ==
  ToData(TailLba(e),
    [u \in 1 .. SECTOR |->
       IF u \in 1 .. Len(s) THEN s[u] ELSE sector[TailLba(e)].data[u]])

TailWrite(e, s) ==
  ToData(TailLba(e),
    [u \in 1 .. SECTOR |->
       LET i == u - TailOffset(e) IN
         IF i \in 1 .. Len(s) THEN s[i] ELSE sector[TailLba(e)].data[u]])

\* A file grows onto new sectors only if nothing was allocated after it.
CanGrow(e, rest) ==
  /\ e.start + Sectors(e.size) = next
  /\ SpanValid(next, Sectors(Len(rest)))

\* Into the last sector first, and if that is not enough into new ones; if it
\* cannot have those the call fails with its first write done.
AppendFile(p, s) ==
  LET l    == InTable(p)
      e    == At(p)
      room == SECTOR - TailOffset(e)
      rest == SubSeq(s, room + 1, Len(s))
      tail == IF room > 0 THEN <<TailWrite(e, s)>> ELSE <<>>
      grown == <<ToTable(l, [Table(l) EXCEPT ![SlotOf(p)].size = @ + Len(s)])>>
  IN /\ IsFile(p) /\ s # <<>> /\ e.size + Len(s) <= MaxSize
     /\ SpanValid(e.start, Sectors(e.size))
     /\ IF rest = <<>> THEN Perform(tail \o grown, FALSE)
        ELSE IF CanGrow(e, rest)
          THEN Perform(tail \o Alloc(Sectors(Len(rest)), DataWrites(next, rest) \o grown), FALSE)
          ELSE Perform(tail, FALSE)

Empty(l) == \A i \in Index : Table(l)[i].type = "free"

Deletable(p) ==
  /\ Found(p)
  /\ At(p).type = "dir" => SpanValid(At(p).start, 1) /\ Empty(At(p).start)

Removed(p) == [Table(InTable(p)) EXCEPT ![SlotOf(p)] = NoEntry]

Delete(p) ==
  /\ Deletable(p)
  /\ Perform(<<ToTable(InTable(p), Removed(p))>>, FALSE)

\* (mutant) the root's DEV may be given as a new name
RenameAny(p, n) ==
  /\ Found(p)
  /\ Named(Table(InTable(p)), n) \subseteq {SlotOf(p)}
  /\ Perform(<<ToTable(InTable(p), [Table(InTable(p)) EXCEPT ![SlotOf(p)].name = n])>>, FALSE)

Rename(p, n) ==
  /\ Found(p)
  /\ ~(InTable(p) = ROOT /\ n = DEV)
  /\ Named(Table(InTable(p)), n) \subseteq {SlotOf(p)}
  /\ Perform(<<ToTable(InTable(p), [Table(InTable(p)) EXCEPT ![SlotOf(p)].name = n])>>, FALSE)

\* The destination first: a failure between the two leaves the file in both.
Move(p, d) ==
  LET to == Walk(d) IN
    /\ IsFile(p) /\ CanAdd(to, Leaf(p))
    /\ Perform(<<ToTable(to, Added(to, At(p))), ToTable(InTable(p), Removed(p))>>, TRUE)

CopyFile(p, d) ==
  LET to == Walk(d)
      e  == At(p)
      n  == Sectors(e.size)
  IN /\ IsFile(p) /\ CanAdd(to, Leaf(p))
     /\ SpanValid(e.start, n) /\ SpanValid(next, n)
     /\ Perform(Alloc(n, [k \in 1 .. n |-> ToData(next + k - 1, sector[e.start + k - 1].data)]
          \o <<ToTable(to, Added(to, [e EXCEPT !.start = next]))>>), FALSE)

----------------------------------------------------------------------------
(* Boot: fs_init.                                                          *)

Mount ==
  /\ super \in START .. LIMIT
  /\ next' = super
  /\ mounted' = TRUE
  /\ UNCHANGED <<diskVars, hurt>>

\* The superblock is not valid, or the drive does not answer.  The results of
\* both writes are ignored, and the superblock goes first.
Format ==
  \E K \in SUBSET (1 .. 2), stop \in BOOLEAN :
    /\ OnDisk(<<ToSuper(START), [lba |-> ROOT, sector |-> Blank]>>, K)
    /\ mounted' = ~stop
    /\ next' = START
    /\ hurt' = (hurt \/ (~Empty(ROOT) /\ ~(stop /\ K = {})))

Boot ==
  /\ ~mounted
  /\ Mount \/ Format
  /\ UNCHANGED saving

PowerOff ==
  /\ mounted' = FALSE /\ next' = START /\ saving' = <<>>
  /\ hurt' = (hurt \/ super < next)
  /\ UNCHANGED diskVars

----------------------------------------------------------------------------
(* kernel.c's callers.                                                     *)

\* The editor's SAVE of a file that exists (of another it is a create):
\* fs_delete, its result ignored ...
SaveDelete(p) ==
  /\ IsFile(p)
  /\ Delete(p)
  /\ saving' = IF mounted' THEN p ELSE <<>>

\* ... then fs_create_file, which may fail before it writes anything.
SaveCreate(s) ==
  /\ IF CanAdd(InTable(saving), Leaf(saving)) /\ SpanValid(next, Sectors(Len(s)))
       THEN CreateFile(saving, s)
       ELSE UNCHANGED <<diskVars, mounted, next, hurt>>
  /\ saving' = <<>>

\* What a program writes in one call: some units, all alike.
Piece == UNION {[1 .. n -> {b}] : n \in 0 .. MaxSize, b \in Byte}

Call ==
  \E p \in Path :
    \/ CreateDir(p)
    \/ \E s \in Piece : CreateFile(p, s) \/ AppendFile(p, s)
    \/ Delete(p)
    \/ \E n \in Names \ {Leaf(p)} : Rename(p, n)
    \/ \E d \in Path \cup {<<>>} : Move(p, d) \/ CopyFile(p, d)

Next ==
  \/ Boot
  \/ mounted /\ PowerOff
  \/ mounted /\ saving = <<>> /\ Call /\ UNCHANGED saving
  \/ mounted /\ saving = <<>> /\ \E p \in Path : SaveDelete(p)
  \/ mounted /\ saving # <<>> /\ \E s \in Piece : SaveCreate(s)

Spec == Init /\ [][Next]_vars

----------------------------------------------------------------------------
(* Properties.                                                             *)

\* The entries a path leads to: the path, and the table and slot it ends at.
Listing(path, l) ==
  {[path |-> Append(path, Table(l)[i].name), lba |-> l, slot |-> i] : i \in Index \ FreeIn(Table(l))}
EntryAt(x)  == Table(x.lba)[x.slot]
Deeper(S)   == S \cup UNION {Listing(x.path, EntryAt(x).start) :
                              x \in {x \in S : EntryAt(x).type = "dir"}}
Live ==
  LET upTo[n \in 0 .. MaxDepth] ==
        IF n = 0 THEN Listing(<<>>, ROOT) ELSE Deeper(upTo[n - 1])
  IN  upTo[MaxDepth]

Extent(x) ==
  LET e == EntryAt(x)
  IN  e.start .. e.start + (IF e.type = "dir" THEN 1 ELSE Sectors(e.size)) - 1

\* What the allocator knows of: in memory, or else after the next boot.
Known == IF mounted THEN next ELSE super

TypeOK ==
  /\ super \in {0} \cup START .. LIMIT
  /\ \A l \in Lba : /\ sector[l].entries \in [Index -> Entry]
                    /\ sector[l].data \in [1 .. SECTOR -> Byte \cup {0}]
  /\ mounted \in BOOLEAN /\ next \in START .. LIMIT /\ hurt \in BOOLEAN

\* No two entries share a sector, no entry has one the allocator may still
\* give out, and a name is in a table once: whichever writes failed and
\* whenever the machine stopped.
SectorsOwned ==
  ~hurt =>
    /\ \A x, y \in Live : x # y => Extent(x) \cap Extent(y) = {} /\ x.path # y.path
    /\ \A x \in Live : Extent(x) \subseteq START .. Known - 1

\* No file is called DEV in the root: that name is fs_list_dir's own.
DevReserved == Named(Table(ROOT), DEV) = {}

\* Each call takes effect at once or not at all.
\* (A directory a path of MaxDepth leads to may hold files of one more.)
Contents == LET live == Live IN
  [p \in {x.path : x \in live} |->
     LET e == EntryAt(CHOOSE x \in live : x.path = p)
     IN  [type |-> e.type, data |-> IF e.type = "file" THEN Content(e) ELSE <<>>]]
Store == INSTANCE FileStore WITH store <- Contents
StoreSpec == Store!Spec

\* kernel.c's comment on SAVE: "A failure (parent directory disappeared, disk
\* full, ...) is a silent no-op": the file that was there is still there.
SaveFailsToNoOp ==
  [][ \A p \in Path :
        saving = p /\ saving' = <<>> /\ mounted' => IsFile(p)' ]_vars
=============================================================================
