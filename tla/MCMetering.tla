----------------------------- MODULE MCMetering -----------------------------
EXTENDS Metering, TLC
CONSTANTS r1, r2
Tasks == {r1, r2}
TaskSymmetry == Permutations(Tasks)

(* No transfer, and no push, is begun that has no activity left to open. *)
UsefulTransfer ==
    (command # command' /\ command' = "transfer") \/ (inner' /\ ~ inner) => acts < MaxActivities
=============================================================================
