------------------------------ MODULE MCSteward ------------------------------
(* The steward for TLC: processes are interchangeable. *)
EXTENDS Steward, TLC

ProcSymmetry == Permutations(Procs)
=============================================================================
