----------------------------- MODULE MCJobSlots -----------------------------
(* Small instances for model checking JobSlots. *)
EXTENDS JobSlots
=============================================================================
