---------------------------- MODULE MCNvmeMailbox ----------------------------
(* Small instances for model checking NvmeMailbox. *)
EXTENDS NvmeMailbox, TLC

ValueSymmetry == Permutations(Values)
=============================================================================
