----------------------------- MODULE MCTileMerkle -----------------------------
(* TileMerkle for TLC. *)
EXTENDS TileMerkle

(* All leaves differ; those at the edges of tiles have two values. *)
AllDifferent == [i \in 1..MaxLeaves |-> IF i \in {1, 4, 5, 16, 17} THEN {i, -i} ELSE {i}]
=============================================================================
