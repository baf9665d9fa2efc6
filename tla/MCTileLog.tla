------------------------------ MODULE MCTileLog ------------------------------
(* TileLog for TLC: the span of each level for the widths of the runs. *)
EXTENDS TileLog, TLC

SpanOf3 == 0 :> 1 @@ 1 :> 3
=============================================================================
