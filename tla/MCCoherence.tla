----------------------------- MODULE MCCoherence -----------------------------
(* Model-checking instance of Coherence: the threads are interchangeable. *)
EXTENDS Coherence, TLC

ThreadSymmetry == Permutations(Threads)
=============================================================================
