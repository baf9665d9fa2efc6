---------------------------- MODULE MCPublication ----------------------------
(* Publication for TLC: two interchangeable processes and two contents. *)
EXTENDS Publication, TLC

CONSTANTS p1, p2, v1, v2

Pushers == {p1, p2}
Contents == {v1, v2}
ProcSymmetry == Permutations(Pushers)

(* Which of the contents is written first is immaterial, and a later write   *)
(* changes the content, if only back to an older one.                        *)
FileChanges ==
    \A i \in DOMAIN log : log[i].wrote = "file" =>
        IF i = 1 THEN log[i].file = v1 ELSE log[i].file # log[i - 1].file

(* A copy of the directory that no fault is left to put back is not made.    *)
UsefulCopy == backup' # backup => faults < MaxFaults
=============================================================================
