----------------------------- MODULE PondHistory -----------------------------
(***************************************************************************)
(* What the commit log of a pond promises its readers (push, pull, restore, *)
(* the transparency log): one linear history to which a transaction is      *)
(* appended once, on top of the latest commit, and which does not grow      *)
(* while the pond is frozen.                                                *)
(***************************************************************************)
EXTENDS Integers, Sequences

CONSTANTS
    Txns,    \* transaction identities
    Genesis  \* the parent of the first commit

VARIABLES
    hist,   \* the commits in order: [txn, parent]
    frozen  \* whether the pond rejects writes

Init == hist = <<>> /\ frozen = FALSE

Committed == {hist[i].txn : i \in DOMAIN hist}

Commit(x) ==
    /\ ~ frozen
    /\ x \notin Committed
    /\ hist' = Append(hist, [txn |-> x,
                             parent |-> IF hist = <<>> THEN Genesis
                                        ELSE hist[Len(hist)].txn])
    /\ UNCHANGED frozen

SetFrozen(b) ==
    /\ frozen' = b
    /\ UNCHANGED hist

Next == (\E x \in Txns : Commit(x)) \/ (\E b \in BOOLEAN : SetFrozen(b))

Spec == Init /\ [][Next]_<<hist, frozen>>
=============================================================================
