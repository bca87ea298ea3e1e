------------------------------- MODULE HepFS -------------------------------
(***************************************************************************)
(* The filesystem of kernel/src/hepfs.rs.  Its functions are operators on  *)
(* the value of the disk, and each is one step: every caller holds         *)
(* nvme::CONTROLLER from the first block it reads to the last it writes.   *)
(* A panic ends the run where it happens (the next boot formats the disk,  *)
(* so what a half-finished call leaves behind is never read).              *)
(*                                                                         *)
(* A block is WORDS words; a word is a directory entry, a block pointer or *)
(* a byte of a file, and a zeroed block reads as any of them.  A byte read *)
(* as an entry is one with a name nobody looks for.                        *)
(***************************************************************************)
EXTENDS Integers, SequencesExt, FiniteSetsExt

CONSTANTS
    Names,          \* the names callers use
    Datas,          \* what callers write: sequences of bytes
    DIRECT_PTRS,
    WORDS,          \* ENTRIES_PER_BLK, PTRS_PER_INDIRECT and BLOCK_SIZE, scaled
    MAX_INODES,
    DATA_BLOCK_START,
    BLOCK_BITS      \* bits of the block bitmap, all of them on the disk

ROOT_INO == 0
None == 0 - 1
Blank == ""

Inodes == 0..(MAX_INODES - 1)
Blocks == DATA_BLOCK_START..(BLOCK_BITS - 1)

VARIABLE disk

Word(n) == [num |-> n, txt |-> Blank]
DirEntry(ino, name) == [num |-> ino, txt |-> name]
ZeroPage == [i \in 1..WORDS |-> Word(0)]

\* What a block nobody owns holds: bytes of an earlier file or session, which
\* would pass for block pointers and directory entries.
StalePage == [i \in 1..WORDS |-> Word(BLOCK_BITS - 1)]

\* Inode::default().
FreeInode ==
    [flags |-> "free", size |-> 0, nblocks |-> 0,
     direct |-> [k \in 1..DIRECT_PTRS |-> 0], indirect |-> 0, dindirect |-> 0]

Ok(d) == d.panic = ""
Panic(d, why) == [d EXCEPT !.panic = why]

-----------------------------------------------------------------------------
(* Bitmaps and block allocation. *)

\* bitmap_alloc(): the first clear bit.
bitmap_alloc(used, bits) ==
    LET free == bits \ used IN IF free = {} THEN None ELSE Min(free)

NewBlock(d) == bitmap_alloc(d.block_bm, Blocks)
NewInode(d) == bitmap_alloc(d.inode_bm, Inodes)

\* alloc_block(): claims NewBlock(d) and zeroes it.
alloc_block(d) ==
    IF NewBlock(d) = None THEN Panic(d, "disk full")
    ELSE [d EXCEPT !.block_bm = @ \cup {NewBlock(d)},
                   !.block[NewBlock(d)] = ZeroPage]

\* alloc_inode() and the write_inode() of its caller.
alloc_inode(d, inode) ==
    IF NewInode(d) = None THEN Panic(d, "inode table full")
    ELSE [d EXCEPT !.inode_bm = @ \cup {NewInode(d)},
                   !.inode[NewInode(d)] = inode]

\* "if this pointer is 0, allocate a block and store it": Store does.
Grow(d, ino, ptr, Store(_, _)) ==
    IF ~Ok(d) THEN d
    ELSE IF ptr # 0 THEN d
    ELSE LET e == alloc_block(d)
         IN IF ~Ok(e) THEN e
            ELSE [Store(e, NewBlock(d)) EXCEPT !.inode[ino].nblocks = @ + 1]

GrowDirect(d, ino, k) ==
    Grow(d, ino, d.inode[ino].direct[k],
         LAMBDA e, b : [e EXCEPT !.inode[ino].direct[k] = b])

GrowIndirect(d, ino) ==
    Grow(d, ino, d.inode[ino].indirect,
         LAMBDA e, b : [e EXCEPT !.inode[ino].indirect = b])

GrowDindirect(d, ino) ==
    Grow(d, ino, d.inode[ino].dindirect,
         LAMBDA e, b : [e EXCEPT !.inode[ino].dindirect = b])

GrowTable(d, ino, table, i) ==
    Grow(d, ino, d.block[table][i].num,
         LAMBDA e, b : [e EXCEPT !.block[table][i] = Word(b)])

-----------------------------------------------------------------------------
(* File contents. *)

\* The block number of logical block k, 0 while there is none.
LogicalBlock(d, ino, k) ==
    LET n == d.inode[ino]
        c == k - DIRECT_PTRS - WORDS
    IN IF k < DIRECT_PTRS THEN n.direct[k + 1]
       ELSE IF k < DIRECT_PTRS + WORDS
       THEN d.block[n.indirect][k - DIRECT_PTRS + 1].num
       ELSE d.block[d.block[n.dindirect][(c \div WORDS) + 1].num][(c % WORDS) + 1].num

\* One round of the loops of write_file(): direct, indirect, double indirect.
Reserve(d, ino, k) ==
    LET c == k - DIRECT_PTRS - WORDS
        ind == GrowIndirect(d, ino)
        dind == GrowDindirect(d, ino)
        l1 == GrowTable(dind, ino, dind.inode[ino].dindirect, (c \div WORDS) + 1)
    IN IF k < DIRECT_PTRS THEN GrowDirect(d, ino, k + 1)
       ELSE IF k < DIRECT_PTRS + WORDS
       THEN GrowTable(ind, ino, ind.inode[ino].indirect, k - DIRECT_PTRS + 1)
       ELSE IF c >= WORDS * WORDS THEN Panic(d, "file too large")
       ELSE GrowTable(l1, ino,
                      l1.block[l1.inode[ino].dindirect][(c \div WORDS) + 1].num,
                      (c % WORDS) + 1)

Chunk(data, k) ==
    [i \in 1..WORDS |->
        Word(IF k * WORDS + i <= Len(data) THEN data[k * WORDS + i] ELSE 0)]

WriteChunk(d, ino, data, k) ==
    IF ~Ok(d) THEN d
    ELSE LET e == Reserve(d, ino, k)
         IN IF Ok(e) THEN [e EXCEPT !.block[LogicalBlock(e, ino, k)] = Chunk(data, k)]
            ELSE e

\* Mutant: the size of a file only grows.
write_fileNeverShrinks(d, ino, data) ==
    LET chunks == (Len(data) + WORDS - 1) \div WORDS
        after[k \in 0..chunks] ==
            IF k = 0 THEN d ELSE WriteChunk(after[k - 1], ino, data, k - 1)
        e == after[chunks]
    IN IF d.inode[ino].flags # "file" THEN Panic(d, "not a file")
       ELSE IF Ok(e) THEN [e EXCEPT !.inode[ino].size = Max({@, Len(data)})] ELSE e

write_file(d, ino, data) ==
    LET chunks == (Len(data) + WORDS - 1) \div WORDS
        after[k \in 0..chunks] ==
            IF k = 0 THEN d ELSE WriteChunk(after[k - 1], ino, data, k - 1)
        e == after[chunks]
    IN IF d.inode[ino].flags # "file" THEN Panic(d, "not a file")
       ELSE IF Ok(e) THEN [e EXCEPT !.inode[ino].size = Len(data)] ELSE e

\* The pointers of a table up to the first null one.
UpToNull(page) ==
    LET null == {i \in 1..WORDS : page[i].num = 0}
        n == IF null = {} THEN WORDS ELSE Min(null) - 1
    IN [i \in 1..n |-> page[i].num]

Level1(d, ino) ==
    IF d.inode[ino].dindirect = 0 THEN <<>>
    ELSE UpToNull(d.block[d.inode[ino].dindirect])

\* The data blocks of a file or directory in the order read_file() and
\* remove() visit them.
DataBlocks(d, ino) ==
    LET n == d.inode[ino] IN
    SelectSeq(n.direct, LAMBDA b : b # 0)
        \o (IF n.indirect = 0 THEN <<>> ELSE UpToNull(d.block[n.indirect]))
        \o FlattenSeq([j \in 1..Len(Level1(d, ino)) |->
                          UpToNull(d.block[Level1(d, ino)[j]])])

\* (A set binds bs so that TLC computes it once.)
read_file(d, ino) ==
    LET Bytes(bs) == [i \in 1..Min({Len(bs) * WORDS, d.inode[ino].size}) |->
                        d.block[bs[((i - 1) \div WORDS) + 1]][((i - 1) % WORDS) + 1].num]
    IN CHOOSE bytes \in {Bytes(bs) : bs \in {DataBlocks(d, ino)}} : TRUE

-----------------------------------------------------------------------------
(* Directories. *)

\* The words of a directory's direct blocks, in order, as <<pointer, index>>.
DirSlots ==
    [n \in 1..(DIRECT_PTRS * WORDS) |-> <<((n - 1) \div WORDS) + 1, ((n - 1) % WORDS) + 1>>]

At(d, ino, slot) ==
    LET b == d.inode[ino].direct[slot[1]]
    IN IF b = 0 THEN Word(0) ELSE d.block[b][slot[2]]

Put(d, ino, slot, entry) ==
    [d EXCEPT !.block[d.inode[ino].direct[slot[1]]][slot[2]] = entry]

\* list_dir(); its assert is the callers' to respect.
list_dir(d, ino) ==
    SelectSeq([n \in DOMAIN DirSlots |-> At(d, ino, DirSlots[n])], LAMBDA e : e.num # 0)

\* find_in_dir(): the first entry of that name, in anything with blocks.
Matches(d, ino, name) ==
    SelectSeq(DirSlots, LAMBDA s : At(d, ino, s).num # 0 /\ At(d, ino, s).txt = name)

find_in_dir(d, ino, name) ==
    LET s == Matches(d, ino, name) IN IF s = <<>> THEN None ELSE At(d, ino, Head(s)).num

\* The first direct block with room, growing the directory when needed.  (The
\* size of a directory only ever grows and nothing depends on it: left out.)
add_dir_entry(d, dir, name, ino) ==
    LET HasRoom(k) == LET b == d.inode[dir].direct[k]
                      IN b = 0 \/ \E i \in 1..WORDS : d.block[b][i].num = 0
        room == {k \in 1..DIRECT_PTRS : HasRoom(k)}
        k == Min(room)
        e == GrowDirect(d, dir, k)
        b == e.inode[dir].direct[k]
        i == Min({j \in 1..WORDS : e.block[b][j].num = 0})
    IN IF ~Ok(d) THEN d
       ELSE IF room = {} THEN Panic(d, "directory full")
       ELSE IF ~Ok(e) THEN e
       ELSE [e EXCEPT !.block[b][i] = DirEntry(ino, name)]

\* The wipe at the end of remove() and in move_entry(): by inode, not name.
WipeEntry(d, dir, ino) ==
    LET s == SelectSeq(DirSlots, LAMBDA x : At(d, dir, x).num = ino)
    IN IF s = <<>> THEN d ELSE Put(d, dir, Head(s), Word(0))

\* GENERATION only tells whether something was bumped since it was read.
Bump(d) == [d EXCEPT !.bumped = TRUE]

create_file(d, parent, name) ==
    add_dir_entry(alloc_inode(Bump(d), [FreeInode EXCEPT !.flags = "file"]),
                  parent, name, NewInode(d))

create_dir(d, parent, name) ==
    LET e == alloc_inode(Bump(d), FreeInode)
        f == alloc_block(e)
        g == [f EXCEPT !.inode[NewInode(d)] =
                [FreeInode EXCEPT !.flags = "dir", !.nblocks = 1,
                                  !.direct[1] = NewBlock(e)]]
    IN IF ~Ok(e) THEN e
       ELSE IF ~Ok(f) THEN f
       ELSE add_dir_entry(g, parent, name, NewInode(d))

\* What a mutant gives back: the data, not the table blocks above it.
DataOnly(d, ino) == ToSet(DataBlocks(d, ino))

\* What remove() gives back to the block bitmap.
OwnedBlocks(d, ino) ==
    (ToSet(DataBlocks(d, ino)) \cup ToSet(Level1(d, ino))
        \cup {d.inode[ino].indirect, d.inode[ino].dindirect}) \ {0}

\* Mutant: a directory with entries can go too.
CanRemoveFull(d, parent, name) == find_in_dir(d, parent, name) # None

\* remove() returns false on these, having bumped the generation.
CanRemove(d, parent, name) ==
    LET ino == find_in_dir(d, parent, name)
    IN /\ ino # None
       /\ d.inode[ino].flags = "dir" => list_dir(d, ino) = <<>>

\* What remove() does once an inode may go, freed being the blocks it gives back.
Release(d, parent, ino, freed) ==
    WipeEntry([Bump(d) EXCEPT
                  !.block_bm = @ \ freed,
                  !.block = [b \in Blocks |-> IF b \in freed THEN StalePage ELSE @[b]],
                  !.inode_bm = @ \ {ino},
                  !.inode[ino] = FreeInode],
              parent, ino)

\* Mutant: the pointer tables leak.
removeKeepsTables(d, parent, name) ==
    LET ino == find_in_dir(d, parent, name)
    IN IF ~CanRemove(d, parent, name) THEN Bump(d)
       ELSE Release(d, parent, ino, DataOnly(d, ino))

remove(d, parent, name) ==
    LET ino == find_in_dir(d, parent, name)
    IN IF ~CanRemove(d, parent, name) THEN Bump(d)
       ELSE Release(d, parent, ino, OwnedBlocks(d, ino))

\* Mutant: no generation bump.
renameSilently(d, parent, old_name, new_name) ==
    LET s == Matches(d, parent, old_name)
    IN IF find_in_dir(d, parent, new_name) # None \/ s = <<>> THEN d
       ELSE Put(d, parent, Head(s), DirEntry(At(d, parent, Head(s)).num, new_name))

rename(d, parent, old_name, new_name) ==
    LET s == Matches(d, parent, old_name)
    IN IF find_in_dir(d, parent, new_name) # None \/ s = <<>> THEN Bump(d)
       ELSE Put(Bump(d), parent, Head(s),
                DirEntry(At(d, parent, Head(s)).num, new_name))

move_entry(d, from_parent, to_parent, name) ==
    LET ino == find_in_dir(d, from_parent, name)
    IN IF \/ from_parent = to_parent
          \/ find_in_dir(d, to_parent, name) # None
          \/ ino = None
       THEN Bump(d)
       ELSE add_dir_entry(WipeEntry(Bump(d), from_parent, ino), to_parent, name, ino)

-----------------------------------------------------------------------------
(* format() at boot, then calls. *)

Formatted ==
    LET empty == [inode_bm |-> {ROOT_INO}, block_bm |-> {},
                  inode |-> [i \in Inodes |-> FreeInode],
                  block |-> [b \in Blocks |-> StalePage],
                  bumped |-> FALSE, panic |-> ""]
    IN [alloc_block(empty) EXCEPT
            !.inode[ROOT_INO] = [FreeInode EXCEPT !.flags = "dir", !.nblocks = 1,
                                                  !.direct[1] = NewBlock(empty)],
            !.block[NewBlock(empty)] = ZeroPage]

Init == disk = Formatted

\* A call either completes or panics.
Call(d) == disk' = IF Ok(d) THEN d ELSE Panic(disk, d.panic)

Idle(d) == [d EXCEPT !.bumped = FALSE]

Live == disk.inode_bm
Dirs == {i \in Live : disk.inode[i].flags = "dir"}
Files == {i \in Live : disk.inode[i].flags = "file"}

Kids(d, ino) == IF d.inode[ino].flags = "dir" THEN ToSet(list_dir(d, ino)) ELSE {}

\* What the tree under ino holds, ino included.
Below(d, ino) ==
    LET reach[n \in Inodes] ==
            IF n = 0 THEN {ino}
            ELSE reach[n - 1] \cup
                    {k.num : k \in UNION {Kids(d, j) : j \in reach[n - 1]}}
    IN reach[MAX_INODES - 1]

\* move_entry() has no cycle check; its comment leaves that to the callers.
CallerMayMove(p, q, name) ==
    LET ino == find_in_dir(disk, p, name) IN ino # None => q \notin Below(disk, ino)

CreateFile == \E p \in Dirs, n \in Names : Call(create_file(Idle(disk), p, n))
CreateDir == \E p \in Dirs, n \in Names : Call(create_dir(Idle(disk), p, n))
WriteFile == \E i \in Files, data \in Datas : Call(write_file(Idle(disk), i, data))
RemoveEntry == \E p \in Dirs, n \in Names : Call(remove(Idle(disk), p, n))
Rename == \E p \in Dirs, n, m \in Names : Call(rename(Idle(disk), p, n, m))
MoveEntry ==
    \E p, q \in Dirs, n \in Names :
        CallerMayMove(p, q, n) /\ Call(move_entry(Idle(disk), p, q, n))

Panicked == ~Ok(disk) /\ UNCHANGED disk

Next ==
    \/ Ok(disk) /\ (CreateFile \/ CreateDir \/ WriteFile \/ RemoveEntry \/ Rename \/ MoveEntry)
    \/ Panicked

Spec == Init /\ [][Next]_disk

-----------------------------------------------------------------------------
(* Properties. *)

Inode == [flags : {"free", "file", "dir"}, size : Nat, nblocks : Nat,
          direct : [1..DIRECT_PTRS -> {0} \cup Blocks],
          indirect : {0} \cup Blocks, dindirect : {0} \cup Blocks]

\* The disk keeps its layout, and a free inode is a cleared one.
TypeOK ==
    /\ disk.inode_bm \subseteq Inodes /\ ROOT_INO \in disk.inode_bm
    /\ disk.block_bm \subseteq Blocks
    /\ disk.inode \in [Inodes -> Inode]
    /\ DOMAIN disk.block = Blocks
    /\ \A i \in Inodes : i \notin Live <=> disk.inode[i] = FreeInode

\* Every block an inode points to, directly or through its tables.
Pointed(i) ==
    LET n == disk.inode[i]
        Table(b) == IF b = 0 THEN {} ELSE {disk.block[b][w].num : w \in 1..WORDS}
        level1 == Table(n.dindirect)
    IN (ToSet(n.direct) \cup {n.indirect, n.dindirect} \cup Table(n.indirect)
          \cup level1 \cup UNION {Table(b) : b \in level1}) \ {0}

\* remove() gives back exactly what write_file() and add_dir_entry() took:
\* every used block belongs to one place of one inode, nothing is used twice,
\* nothing leaks, and nblocks counts what an inode holds.
BlocksOwnedOnce ==
    /\ disk.block_bm = UNION {Pointed(i) : i \in Live}
    /\ \A i, j \in Live : i # j => Pointed(i) \cap Pointed(j) = {}
    /\ \A i \in Live : Cardinality(Pointed(i)) = disk.inode[i].nblocks

\* Everything live hangs on the root by exactly one entry, and no entry points
\* to a free inode, through creations of duplicate names, renames and moves;
\* the disk keeps its layout.
TreeShape ==
    /\ TypeOK
    /\ Below(disk, ROOT_INO) = Live
    /\ \A i \in Live \ {ROOT_INO} :
         Cardinality({<<p, k>> \in Dirs \X (1..(DIRECT_PTRS * WORDS)) :
                         /\ k <= Len(list_dir(disk, p))
                         /\ list_dir(disk, p)[k].num = i}) = 1

\* hepfs.rs on GENERATION: "same `ino` + same generation number means nothing
\* has changed" - a step that changes what a directory lists bumps it.
ListingBumps ==
    [][ \A p \in Dirs : Kids(disk, p) # Kids(disk, p)' => disk'.bumped ]_disk

\* The tree the disk stands for.
Tree ==
    [i \in Live |->
        [dir |-> disk.inode[i].flags = "dir",
         data |-> IF i \in Files THEN read_file(disk, i) ELSE <<>>,
         kids |-> {[name |-> k.txt, ino |-> k.num] : k \in Kids(disk, i)}]]

Abstract == INSTANCE FileTree
    WITH tree <- Tree, Nodes <- Inodes, Root <- ROOT_INO

\* HepFS implements a file tree: what read_file(), list_dir() and lookup()
\* return is what the calls before them made of the tree, whatever blocks,
\* pointer tables and directory slots were reused on the way.
ImplementsTree == Abstract!Spec
=============================================================================
