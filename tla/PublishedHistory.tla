-------------------------- MODULE PublishedHistory --------------------------
(***************************************************************************)
(* What a remote promises the consumers of a pond, whatever happens to the   *)
(* producer: its publications form one line.  Each is appended to the ones   *)
(* before it, none is changed or withdrawn, and each tip descends from the   *)
(* tip before.  The producer remembers how many of them it knows; it may     *)
(* forget, but it never remembers one that was not published.                *)
(***************************************************************************)
EXTENDS Integers, Sequences

VARIABLES
    history,  \* the tips published, oldest first
    known     \* how many of them the producer has acknowledged

vars == <<history, known>>

Descends(new, old) == Len(old) < Len(new) /\ SubSeq(new, 1, Len(old)) = old

Init == history = <<>> /\ known = 0

Publish ==
    /\ Len(history') = Len(history) + 1
    /\ SubSeq(history', 1, Len(history)) = history
    /\ history # <<>> => Descends(history'[Len(history')], history[Len(history)])
    /\ known' = known

Acknowledge ==
    /\ history' = history
    /\ known' \in 0 .. Len(history)

Next == Publish \/ Acknowledge

Spec == Init /\ [][Next]_vars
=============================================================================
