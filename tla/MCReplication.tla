---------------------------- MODULE MCReplication ----------------------------
(* Replication for TLC: one producer, one consumer, two contents. *)
EXTENDS Replication
=============================================================================
