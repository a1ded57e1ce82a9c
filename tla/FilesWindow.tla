----------------------------- MODULE FilesWindow -----------------------------
(***************************************************************************)
(* v1: the FILES window (kernel.c): the directory it shows, its snapshot   *)
(* of the listing, the rows selected by right-click, and the clipboard.    *)
(* The directory tables are read and written by fs.c, here reduced to      *)
(* slots that hold an entry or nothing; a sector that fails is FlatFS's    *)
(* subject, and so is the synthetic /DEV row.  SHELL, the editor and       *)
(* programs change the same directories behind the window's back.          *)
(***************************************************************************)
EXTENDS Integers, SequencesExt

CONSTANTS
  FileNames,      \* names a user may type
  TableSize       \* FS_MAX_FILES: slots of a directory table

ASSUME FilesAssumption == TableSize \in Nat \ {0} /\ "/" \notin FileNames

VARIABLES
  disk,       \* [top, sub]: the root table and that of its one subdirectory (bound)
  cwd,        \* "/" or the name of the subdirectory
  rows,       \* file_entries[0 .. file_entry_count), counted from 1
  mask,       \* files_selected_mask: the rows whose bit is set
  clipboard,  \* source_dir, names, is_cut
  unbroken    \* history: nothing outside FILES has changed a directory since
              \* rows was read
filesVars == << disk, cwd, rows, mask, clipboard, unbroken >>

Unused == [name |-> "", type |-> "unused"]
FileEntry(n) == [name |-> n, type |-> "file"]
DirEntry(n) == [name |-> n, type |-> "dir"]
EmptyTable == [s \in 1 .. TableSize |-> Unused]

FilesInit ==
  /\ disk = [top |-> EmptyTable, sub |-> EmptyTable]
  /\ cwd = "/" /\ rows = << >> /\ mask = {}
  /\ clipboard = [dir |-> "/", names |-> << >>, cut |-> FALSE]
  /\ unbroken = TRUE

----------------------------------------------------------------------------
(* What FILES uses of fs.c.                                                *)

\* resolve_dir_lba: the table a path names, if any.
TableAt(d, path) ==
  IF path = "/" THEN { "top" }
  ELSE IF DirEntry(path) \in ToSet(d.top) THEN { "sub" } ELSE {}

TheTable(d, path) == CHOOSE t \in TableAt(d, path) : TRUE

\* A table's slots, or a list's places, without those that hold x.
Without(s, x) ==
  LET upTo[k \in 0 .. Len(s)] ==
        IF k = 0 THEN << >>
        ELSE IF s[k] = x THEN upTo[k - 1] ELSE Append(upTo[k - 1], s[k])
  IN  upTo[Len(s)]

\* fs_list_dir: the used slots in table order; none when the path is gone.
Listing(d, path) ==
  IF TableAt(d, path) = {} THEN << >> ELSE Without(d[TheTable(d, path)], Unused)

Slots(d, t, n) == { s \in 1 .. TableSize : d[t][s].type # "unused" /\ d[t][s].name = n }
FreeSlots(d, t) == { s \in 1 .. TableSize : d[t][s] = Unused }

\* dirtable_find_free and the write: the first free slot, unless the name is taken.
\* A directory that is new starts with an empty table.
CanPut(d, t, e) == Slots(d, t, e.name) = {} /\ FreeSlots(d, t) # {}
Put(d, t, e) ==
  LET s == CHOOSE s \in FreeSlots(d, t) : \A r \in FreeSlots(d, t) : s <= r IN
  [d EXCEPT ![t][s] = e]

\* fs_delete: a directory only when it is empty.
Deleted(d, t, n) ==
  [d EXCEPT ![t] = [s \in 1 .. TableSize |->
     IF s \in Slots(d, t, n) /\ (d[t][s].type = "dir" => d.sub = EmptyTable)
       THEN Unused ELSE d[t][s]]]

\* fs_move and fs_copy_file: files only, and not onto a taken name.
CanPaste(d, from, to, n) ==
  FileEntry(n) \in ToSet(d[from]) /\ CanPut(d, to, FileEntry(n))

----------------------------------------------------------------------------
Reread == rows' = Listing(disk', cwd') /\ unbroken' = TRUE

\* Right-click on a row; nothing else is deselected.
ToggleRow(i) ==
  /\ i \in DOMAIN rows
  /\ mask' = IF i \in mask THEN mask \ {i} ELSE mask \cup {i}
  /\ UNCHANGED << disk, cwd, rows, clipboard, unbroken >>

\* Left-click on a directory's row, on "..", and open_files_at.
ShowDirectory(path) ==
  /\ cwd' = path /\ mask' = {} /\ UNCHANGED disk /\ Reread
  /\ UNCHANGED clipboard
OpenRow(i) == i \in DOMAIN rows /\ cwd = "/" /\ rows[i].type = "dir" /\ ShowDirectory(rows[i].name)
OpenParent == cwd # "/" /\ ShowDirectory("/")
OpenAt == \E path \in { "/", cwd } : ShowDirectory(path)

\* DELETE: every selected row by the name the snapshot has for it.
DeleteRow(d, i) ==
  IF i \in mask /\ TableAt(d, cwd) # {} THEN Deleted(d, TheTable(d, cwd), rows[i].name) ELSE d
AfterDelete ==
  LET upTo[k \in 0 .. Len(rows)] ==
        IF k = 0 THEN disk ELSE DeleteRow(upTo[k - 1], k)
  IN  upTo[Len(rows)]
DeleteSelected ==
  /\ mask # {}
  /\ disk' = AfterDelete
  /\ mask' = {} /\ UNCHANGED cwd /\ Reread /\ UNCHANGED clipboard

\* (mutant) the listing on the screen is not read again
CreateStale(e) ==
  /\ \E t \in TableAt(disk, cwd) : CanPut(disk, t, e) /\ disk' = Put(disk, t, e)
  /\ UNCHANGED << cwd, mask, clipboard, rows, unbroken >>

\* NEW DIR, and Enter with nothing selected.  The mask is left as it is.
Create(e) ==
  /\ \E t \in TableAt(disk, cwd) : CanPut(disk, t, e) /\ disk' = Put(disk, t, e)
  /\ UNCHANGED << cwd, mask, clipboard >> /\ Reread
NewDir(n) ==
  cwd = "/" /\ (\A e \in ToSet(disk.top) : e.type # "dir") /\ Create(DirEntry(n))
EnterCreates(n) == mask = {} /\ Create(FileEntry(n))

\* Enter with one row selected: fs_rename in place, then the listing is read again.
EnterRenames(n) ==
  /\ \E i \in DOMAIN rows : mask = {i} /\ \E t \in TableAt(disk, cwd) :
       \E s \in Slots(disk, t, rows[i].name) :
         /\ Slots(disk, t, n) \subseteq {s}
         /\ disk' = [disk EXCEPT ![t][s].name = n]
  /\ UNCHANGED << cwd, mask, clipboard >> /\ Reread

\* CUT and COPY: the selected files; the clipboard stays when there is none.
Stage(cut) ==
  LET names == [i \in DOMAIN rows |->
                  IF i \in mask /\ rows[i].type = "file" THEN rows[i].name ELSE ""]
      chosen == Without(names, "")
  IN /\ mask # {} /\ chosen # << >>
     /\ clipboard' = [dir |-> cwd, names |-> chosen, cut |-> cut]
     /\ UNCHANGED << disk, cwd, rows, mask, unbroken >>

\* PASTE: each name on its own; a CUT's clipboard is spent once anything moved.
PasteOne(d, n) ==
  LET from == TheTable(d, clipboard.dir)
      to == TheTable(d, cwd)
      copied == Put(d, to, FileEntry(n))
  IN IF /\ TableAt(d, clipboard.dir) # {} /\ TableAt(d, cwd) # {}
        /\ CanPaste(d, from, to, n)
       THEN IF clipboard.cut THEN Deleted(copied, from, n) ELSE copied
       ELSE d
AfterPaste ==
  LET upTo[k \in 0 .. Len(clipboard.names)] ==
        IF k = 0 THEN disk ELSE PasteOne(upTo[k - 1], clipboard.names[k])
  IN  upTo[Len(clipboard.names)]
Paste ==
  /\ clipboard.names # << >>
  /\ disk' = AfterPaste
  /\ clipboard' = IF clipboard.cut /\ disk' # disk
                    THEN [clipboard EXCEPT !.names = << >>] ELSE clipboard
  /\ mask' = {} /\ UNCHANGED cwd /\ Reread

\* A file appears or goes by way of SHELL, the editor or a program.
Elsewhere ==
  /\ \E t \in DOMAIN disk, n \in FileNames :
       /\ t = "sub" => \E e \in ToSet(disk.top) : e.type = "dir"
       /\ \/ CanPut(disk, t, FileEntry(n)) /\ disk' = Put(disk, t, FileEntry(n))
          \/ FileEntry(n) \in ToSet(disk[t]) /\ disk' = Deleted(disk, t, n)
  /\ unbroken' = FALSE
  /\ UNCHANGED << cwd, rows, mask, clipboard >>

FilesNext ==
  \/ \E i \in DOMAIN rows : ToggleRow(i) \/ OpenRow(i)
  \/ OpenParent \/ OpenAt
  \/ DeleteSelected \/ Paste \/ Elsewhere
  \/ \E n \in FileNames : NewDir(n) \/ EnterCreates(n) \/ EnterRenames(n)
  \/ \E cut \in BOOLEAN : Stage(cut)

FilesSpec == FilesInit /\ [][FilesNext]_filesVars

----------------------------------------------------------------------------
(* Until something else touches the disk, the window shows what is there:  *)
(* every button that changes a directory reads the listing again, whatever *)
(* part of its work failed, and the path it shows still exists.            *)
ListingFresh == unbroken => TableAt(disk, cwd) # {} /\ rows = Listing(disk, cwd)

(* The comment on Enter (kernel.c): after a rename "the same listing index *)
(* still names the (now renamed) entry", so the selection may stay.        *)
RenameKeepsRow ==
  [][\A n \in FileNames, i \in DOMAIN rows :
       mask = {i} /\ EnterRenames(n) /\ disk' # disk =>
         i \in DOMAIN rows' /\ rows'[i].name = n]_filesVars
=============================================================================
