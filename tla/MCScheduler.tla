----------------------------- MODULE MCScheduler -----------------------------
(* Model values and symmetry for model checking Scheduler. *)
EXTENDS Scheduler, TLC

Symmetry == Permutations(Procs)
=============================================================================
