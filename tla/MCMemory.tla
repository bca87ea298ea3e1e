------------------------------ MODULE MCMemory ------------------------------
(* Instances of Memory for TLC. *)
EXTENDS Memory, TLC

CONSTANTS a, b

TaskSymmetry == Permutations({a, b})

\* Page 0 stands for what the boot memory map reserves.
AllButFirst == 1..(MAX_PAGES - 1)

\* The properties promise nothing after a lost race, which raced remembers.
NoRaceLost == ~raced
=============================================================================
