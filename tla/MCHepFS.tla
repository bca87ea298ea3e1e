------------------------------ MODULE MCHepFS ------------------------------
(* Small disks for model checking HepFS. *)
EXTENDS HepFS

\* Contents that end in the direct, the indirect and each half of the double-
\* indirect range (one direct pointer, two words a block), and one too many.
LongDatas == {[i \in 1..n |-> ((i + n) % 3) + 1] : n \in {1, 6, 11, 15}}

\* A large tree of short files, or a small one with files of every length: the
\* blocks above the first few are written only while at most three inodes and
\* one name are in use.  A state outside is checked but not extended.
SmallOrShort ==
    \/ /\ Cardinality(disk.inode_bm) <= 3
       /\ Cardinality({disk.block[b][i].txt : b \in Blocks, i \in 1..WORDS} \cap Names) <= 1
    \/ \A b \in Blocks : b >= DATA_BLOCK_START + 5 => disk.block[b] = StalePage

NameSymmetry == Permutations(Names)
=============================================================================
