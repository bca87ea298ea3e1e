------------------------------- MODULE FsOps -------------------------------
(***************************************************************************)
(* The operations of hepfs.rs as the programs that use the file system see *)
(* them: directories are rows of slots in the order list_dir returns them, *)
(* every mutating call but write_file bumps the generation counter, and a  *)
(* failed assert or expect stops the kernel.  The blocks, bitmaps and      *)
(* inode table underneath are HepFS's subject.                             *)
(*                                                                         *)
(* A file system is a record: node maps an inode number to its flags, its  *)
(* directory slots and its contents, gen is FS_GENERATION, panic says that *)
(* the kernel has stopped in one of these calls; orphan, moved and twins   *)
(* are history: an entry was added to an inode that is not a directory, an *)
(* entry left its place, a directory got a second entry of the same name.  *)
(*                                                                         *)
(* A name is a sequence of pieces: "x (1)" is the name x with the piece 1  *)
(* appended.  MAX_NAME stands for the limit of 27 bytes.                   *)
(***************************************************************************)
EXTENDS Integers, Sequences, FiniteSets, SequencesExt

CONSTANTS MAX_INODES,  \* inodes of the table
          SLOTS,       \* entries a directory can hold
          MAX_NAME,    \* longest name a directory entry holds
          MAX_COPIES   \* numbered names copy_entry_unique tries

ROOT_INO == 0
Inos == 0..(MAX_INODES - 1)

\* No directory entry names the root, so 0 is also "no inode" (DirEntry.inode).
None == 0
Hole == [ino |-> None, name |-> <<>>]
Inode(flags) == [flags |-> flags, slots |-> [s \in 1..SLOTS |-> Hole], data |-> 0]

IsDir(f, i) == f.node[i].flags = "dir"
Panic(f) == [f EXCEPT !.panic = TRUE]
bump_generation(f) == [f EXCEPT !.gen = @ + 1]

\* list_dir asserts that it is given a directory: its callers ask CanList.
CanList(f, d) == IsDir(f, d)
list_dir(f, d) == SelectSeq(f.node[d].slots, LAMBDA e : e.ino # None)

find_in_dir(f, d, n) ==
    LET hits == {s \in 1..SLOTS : f.node[d].slots[s].ino # None /\ f.node[d].slots[s].name = n}
    IN  IF hits = {} THEN None ELSE f.node[d].slots[Min(hits)].ino

\* lookup walks a path, given as the sequence of its parts; -1 is None.
lookup(f, path) ==
    FoldLeft(LAMBDA d, part : IF d < 0 THEN d
                              ELSE LET i == find_in_dir(f, d, part) IN IF i = None THEN -1 ELSE i,
             ROOT_INO, path)

alloc_inode(f) ==
    LET free == {i \in Inos : f.node[i].flags = "free"}
    IN  IF free = {} THEN None ELSE Min(free)

add_dir_entry(f, d, n, i) ==
    LET free == {s \in 1..SLOTS : f.node[d].slots[s].ino = None}
    IN  IF Len(n) > MAX_NAME \/ free = {}
        THEN Panic(f)
        ELSE [f EXCEPT !.node[d].slots[Min(free)] = [ino |-> i, name |-> n],
                       !.orphan = @ \/ ~IsDir(f, d)]

\* create_file and create_dir: a new inode, then its entry in the parent.
create(f, flags, p, n) ==
    LET g == bump_generation(f)
        i == alloc_inode(g)
    IN  IF f.panic \/ i = None
        THEN [fs |-> Panic(f), ino |-> None]
        ELSE [fs |-> add_dir_entry([g EXCEPT !.node[i] = Inode(flags),
                                             !.twins = @ \/ find_in_dir(f, p, n) # None], p, n, i),
              ino |-> i]

write_file(f, i, x) ==
    IF f.node[i].flags # "file" THEN Panic(f) ELSE [f EXCEPT !.node[i].data = x]

\* The first slot of d that holds inode i, emptied.
WipeEntry(f, d, i) ==
    LET at == {s \in 1..SLOTS : f.node[d].slots[s].ino = i}
    IN  IF at = {} THEN f ELSE [f EXCEPT !.node[d].slots[Min(at)] = Hole, !.moved = TRUE]

remove(f, p, n) ==
    LET g == bump_generation(f)
        i == find_in_dir(f, p, n)
    IN  IF i = None \/ (IsDir(f, i) /\ list_dir(f, i) # <<>>)
        THEN [fs |-> g, ok |-> FALSE]
        ELSE [fs |-> WipeEntry([g EXCEPT !.node[i] = Inode("free")], p, i), ok |-> TRUE]

\* Mutant: the generation stays.
rename_NoBump(f, p, old, new) ==
    LET at == {s \in 1..SLOTS : f.node[p].slots[s].ino # None /\ f.node[p].slots[s].name = old}
    IN  IF at = {} \/ find_in_dir(f, p, new) # None \/ Len(new) > MAX_NAME
        THEN [fs |-> f, ok |-> FALSE]
        ELSE [fs |-> [f EXCEPT !.node[p].slots[Min(at)].name = new], ok |-> TRUE]

rename(f, p, old, new) ==
    LET g == bump_generation(f)
        at == {s \in 1..SLOTS : f.node[p].slots[s].ino # None /\ f.node[p].slots[s].name = old}
    IN  IF at = {} \/ find_in_dir(f, p, new) # None \/ Len(new) > MAX_NAME
        THEN [fs |-> g, ok |-> FALSE]
        ELSE [fs |-> [g EXCEPT !.node[p].slots[Min(at)].name = new, !.moved = TRUE], ok |-> TRUE]

\* Mutant: the old entry stays.
move_entry_KeepsOld(f, from, to, n) ==
    LET i == find_in_dir(f, from, n)
    IN  IF from = to \/ find_in_dir(f, to, n) # None \/ i = None THEN f
        ELSE add_dir_entry(bump_generation(f), to, n, i)

\* The entry changes directory; nothing asks whether `to` lies below it.
move_entry(f, from, to, n) ==
    LET g == bump_generation(f)
        i == find_in_dir(f, from, n)
    IN  IF from = to \/ find_in_dir(f, to, n) # None \/ i = None THEN g
        ELSE add_dir_entry(WipeEntry(g, from, i), to, n, i)

\* copy_entry duplicates a file, or a directory with everything list_dir
\* finds in it once the new directory exists.
RECURSIVE copy_entry(_, _, _, _, _)
copy_entry(f, from, to, n, dest) ==
    LET i == find_in_dir(f, from, n)
        new == create(f, f.node[i].flags, to, dest)
        kids == list_dir(new.fs, i)
    IN  IF f.panic \/ find_in_dir(f, to, dest) # None \/ i = None \/ i = to
        THEN [fs |-> f, ino |-> None]
        ELSE IF f.node[i].flags = "free" THEN [fs |-> Panic(f), ino |-> None]
        ELSE IF new.fs.panic THEN new
        ELSE IF IsDir(f, i)
        THEN [fs |-> FoldLeft(LAMBDA g, e : copy_entry(g, i, new.ino, e.name, e.name).fs,
                              new.fs, kids),
              ino |-> new.ino]
        ELSE [fs |-> write_file(new.fs, new.ino, f.node[i].data), ino |-> new.ino]

\* The name itself, then "name (1)", "name (2)", ... until one is free.
copy_entry_unique(f, from, to, n) ==
    LET attempt(k) == copy_entry(f, from, to, n, IF k = 0 THEN n ELSE Append(n, k))
        ends == {k \in 0..MAX_COPIES : attempt(k).ino # None \/ attempt(k).fs.panic}
    IN  IF f.panic \/ ends = {} THEN f ELSE attempt(Min(ends)).fs

\* Everything the files and directories on the clipboard or in a drag stand for.
PasteAll(f, clip, to) ==
    FoldLeft(LAMBDA g, c : copy_entry_unique(g, c.parent, to, c.name), f, clip)
MoveAll(f, from, to, names) ==
    FoldLeft(LAMBDA g, n : move_entry(g, from, to, n), f, names)
=============================================================================
