------------------------------ MODULE MCMirror ------------------------------
(* Instances of Mirror.  Trees start with the nodes named in the order of     *)
(* their identities.  The name 20 is the one node 1 would wait under.         *)
EXTENDS Mirror

V(val) == [val |-> val, time |-> 1]

FlatTree ==
    0 :> Dir(51 :> 1 @@ 52 :> 2 @@ 20 :> 3)
    @@ 1 :> Leaf("file", <<V(1)>>) @@ 2 :> Leaf("series", <<V(1)>>) @@ 3 :> Dir(<<>>)

DeepTree == 0 :> Dir(51 :> 1) @@ 1 :> Dir(51 :> 2) @@ 2 :> Leaf("link", <<V(1)>>)

MCVersions == {V(1), V(Empty), [val |-> 2, time |-> 1], [val |-> 1, time |-> 2]}
MCCreated == {[type |-> "file", version |-> V(1)], [type |-> "series", version |-> V(Empty)]}
MCTrees == {FlatTree, DeepTree}
=============================================================================
