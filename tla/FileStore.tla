------------------------------ MODULE FileStore ------------------------------
(***************************************************************************)
(* What kernel/fs/fs.h promises of the filesystem: a map from paths to     *)
(* directories and file contents, where every call takes effect at once or *)
(* not at all, whatever write fails and whenever the machine stops.        *)
(* hurt stands for the few failures the disk format does not survive; once *)
(* hurt, nothing is promised.                                              *)
(***************************************************************************)
EXTENDS Integers, Sequences, FiniteSets

CONSTANTS
  Names, \* of entries; a path is a sequence of them, <<>> the root
  Byte   \* what a unit of a file may be

VARIABLES
  store, \* from the paths that exist: what they are, and the data of files
  hurt

vars == <<store, hurt>>

Parent(p)    == SubSeq(p, 1, Len(p) - 1)
Leaf(p)      == p[Len(p)]
IsFile(s, p) == p \in DOMAIN s /\ s[p].type = "file"
IsDir(s, p)  == p = <<>> \/ (p \in DOMAIN s /\ s[p].type = "dir")
Inside(s, p) == {q \in DOMAIN s : Len(q) > Len(p) /\ SubSeq(q, 1, Len(p)) = p}
With(s, p, v) == [q \in DOMAIN s \cup {p} |-> IF q = p THEN v ELSE s[q]]
Without(s, p) == [q \in DOMAIN s \ {p} |-> s[q]]

Init == store = <<>> /\ hurt = FALSE

(***************************************************************************)
(* What a call may make of the store s: t.                                 *)
(***************************************************************************)

\* fs_create_dir, fs_create_file: write-once, in a directory that exists.
Create(s, t) == \E p \in DOMAIN t \ DOMAIN s :
  /\ IsDir(s, Parent(p))
  /\ IF t[p].type = "dir" THEN t[p].data = <<>> ELSE t[p].data \in Seq(Byte)
  /\ t = With(s, p, t[p])

\* fs_append_file: what was written before stays as it was.
Extend(s, t) == \E p \in DOMAIN s \cap DOMAIN t :
  LET old == s[p].data
      new == t[p].data
  IN  /\ IsFile(s, p)
      /\ Len(old) < Len(new) /\ old = SubSeq(new, 1, Len(old)) /\ new \in Seq(Byte)
      /\ t = With(s, p, [s[p] EXCEPT !.data = new])

\* fs_delete: a file, or an empty directory.
Delete(s, t) == \E p \in DOMAIN s \ DOMAIN t :
  Inside(s, p) = {} /\ t = Without(s, p)

\* fs_rename: an entry takes a new name, with what is inside it.
Rename(s, t) == \E p \in DOMAIN s \ DOMAIN t, n \in Names :
  LET r       == Append(Parent(p), n)
      To(q)   == r \o SubSeq(q, Len(p) + 1, Len(q))
      moving  == {p} \cup Inside(s, p)
      staying == DOMAIN s \ moving
  IN  /\ r \notin DOMAIN s
      /\ t = [x \in staying \cup {To(q) : q \in moving} |->
           IF x \in staying THEN s[x] ELSE s[CHOOSE q \in moving : To(q) = x]]

\* fs_copy_file, fs_move: a file appears in another directory under its name.
Copied(s, p, d) == With(s, Append(d, Leaf(p)), s[p])

CopyOrMove(s, t) == \E p \in DOMAIN s, d \in DOMAIN s \cup {<<>>} :
  /\ IsFile(s, p) /\ IsDir(s, d) /\ Append(d, Leaf(p)) \notin DOMAIN s
  /\ t \in {Copied(s, p, d), Without(Copied(s, p, d), p)}

Call(s, t) ==
  Create(s, t) \/ Extend(s, t) \/ Delete(s, t) \/ Rename(s, t) \/ CopyOrMove(s, t)

Next == hurt' \/ (UNCHANGED hurt /\ \E s \in {store}, t \in {store'} : s # t /\ Call(s, t))

Spec == Init /\ [][Next]_vars
=============================================================================
