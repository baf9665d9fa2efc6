------------------------------ MODULE TileMerkle ------------------------------
(***************************************************************************)
(* The hash trees of the transparency log (sync-store/src/tlog): the tree   *)
(* head that an incremental session computes from the stored hashes, and    *)
(* the inclusion and consistency proofs of `pond tlog verify`, against the  *)
(* recursive tree hash of RFC 6962 (mth).                                   *)
(*                                                                          *)
(* A hash is the term it hashes, so hashes are equal only if what they hash *)
(* is: SHA-256 is taken to be free of collisions.                           *)
(***************************************************************************)
EXTENDS Integers, SequencesExt

CONSTANTS
    DataAt,      \* what each leaf may hold, by position
    HeightBits,  \* TILE_HEIGHT_BITS
    TopLevel,    \* the highest tile level
    TopBit,      \* the highest bit of a size
    MaxLeaves,   \* bound: leaves
    MaxBatch     \* bound: leaves of one session

ASSUME MerkleAssumption ==
    /\ HeightBits \in Nat \ {0}
    /\ DOMAIN DataAt = 1..MaxLeaves
    /\ MaxLeaves < 2 ^ (TopBit + 1)
    /\ MaxLeaves < 2 ^ (HeightBits * (TopLevel + 1))

VARIABLES
    log,     \* the leaf hashes
    stored,  \* the hashes in the tiles of each level
    head     \* the checkpoint: size and root, None before the first

vars == <<log, stored, head>>

TileWidth == 2 ^ HeightBits

-----------------------------------------------------------------------------
(* merkle.rs *)

EmptyRoot == <<"empty">>
HashLeaf(d) == <<"leaf", d>>
HashChildren(l, r) == <<"node", l, r>>

SplitPoint(n) ==
    CHOOSE k \in {2 ^ b : b \in 0..TopBit} : k < n /\ n <= 2 * k

RECURSIVE Mth(_)
Mth(s) ==
    IF Len(s) = 0 THEN EmptyRoot
    ELSE IF Len(s) = 1 THEN s[1]
    ELSE LET k == SplitPoint(Len(s))
         IN  HashChildren(Mth(SubSeq(s, 1, k)), Mth(SubSeq(s, k + 1, Len(s))))

(* The inclusion proof of leaf m, counted from 0, bottom-up. *)
RECURSIVE Path(_, _)
Path(m, s) ==
    IF Len(s) = 1 THEN <<>>
    ELSE LET k == SplitPoint(Len(s))
             left == SubSeq(s, 1, k)
             right == SubSeq(s, k + 1, Len(s))
         IN  IF m < k THEN Append(Path(m, left), Mth(right))
                      ELSE Append(Path(m - k, right), Mth(left))

RECURSIVE Subproof(_, _, _)
Subproof(m, s, b) ==
    IF m = Len(s) THEN (IF b THEN <<>> ELSE <<Mth(s)>>)
    ELSE LET k == SplitPoint(Len(s))
             left == SubSeq(s, 1, k)
             right == SubSeq(s, k + 1, Len(s))
         IN  IF m <= k THEN Append(Subproof(m, left, b), Mth(right))
                       ELSE Append(Subproof(m - k, right, FALSE), Mth(left))

ConsistencyProof(m, s) == IF m \in {0, Len(s)} THEN <<>> ELSE Subproof(m, s, TRUE)

None == <<"none">>

(* The root that a proof leads to; a mutant takes the leaf at the split point *)
(* to be on the left.                                                         *)
RECURSIVE RebuildRootLeft(_, _, _, _)
RebuildRootLeft(m, size, leaf, proof) ==
    IF size = 1 THEN (IF proof = <<>> THEN leaf ELSE None)
    ELSE IF proof = <<>> THEN None
    ELSE LET k == SplitPoint(size)
             left == RebuildRootLeft(m, k, leaf, Front(proof))
             right == RebuildRootLeft(m - k, size - k, leaf, Front(proof))
         IN  IF m <= k
               THEN (IF left = None THEN None ELSE HashChildren(left, Last(proof)))
               ELSE (IF right = None THEN None ELSE HashChildren(Last(proof), right))

RECURSIVE RebuildRoot(_, _, _, _)
RebuildRoot(m, size, leaf, proof) ==
    IF size = 1 THEN (IF proof = <<>> THEN leaf ELSE None)
    ELSE IF proof = <<>> THEN None
    ELSE LET k == SplitPoint(size)
             left == RebuildRoot(m, k, leaf, Front(proof))
             right == RebuildRoot(m - k, size - k, leaf, Front(proof))
         IN  IF m < k
               THEN (IF left = None THEN None ELSE HashChildren(left, Last(proof)))
               ELSE (IF right = None THEN None ELSE HashChildren(Last(proof), right))

VerifyInclusion(leaf, index, size, proof, root) ==
    index < size /\ RebuildRoot(index, size, leaf, proof) = root

(* verify_consistency: the position of the last old leaf, while it is a right *)
(* child; then up to the old root; then up to the new one.  rest is what is   *)
(* left of the proof.                                                         *)
RECURSIVE SkipRight(_, _)
SkipRight(node, last) ==
    IF node % 2 = 1 THEN SkipRight(node \div 2, last \div 2) ELSE <<node, last>>

RECURSIVE ClimbNew(_, _, _, _)
ClimbNew(last, hash1, hash2, rest) ==
    IF last = 0 THEN [ok |-> rest = <<>>, hash1 |-> hash1, hash2 |-> hash2]
    ELSE IF rest = <<>> THEN [ok |-> FALSE, hash1 |-> hash1, hash2 |-> hash2]
    ELSE ClimbNew(last \div 2, hash1, HashChildren(hash2, Head(rest)), Tail(rest))

RECURSIVE ClimbOld(_, _, _, _, _)
ClimbOld(node, last, hash1, hash2, rest) ==
    LET up(h1, h2, r) == ClimbOld(node \div 2, last \div 2, h1, h2, r)
    IN  IF node = 0 THEN ClimbNew(last, hash1, hash2, rest)
        ELSE IF node % 2 = 0 /\ node >= last THEN up(hash1, hash2, rest)
        ELSE IF rest = <<>> THEN [ok |-> FALSE, hash1 |-> hash1, hash2 |-> hash2]
        ELSE IF node % 2 = 1
               THEN up(HashChildren(Head(rest), hash1), HashChildren(Head(rest), hash2), Tail(rest))
               ELSE up(hash1, HashChildren(hash2, Head(rest)), Tail(rest))

IsPowerOfTwo(n) == \E b \in 0..TopBit : n = 2 ^ b

(* Where the climb ends. *)
Climbed(old, size, oldRoot, proof) ==
    LET nodes == (IF IsPowerOfTwo(old) THEN <<oldRoot>> ELSE <<>>) \o proof
        start == SkipRight(old - 1, size - 1)
    IN  IF nodes = <<>> THEN [ok |-> FALSE, hash1 |-> None, hash2 |-> None]
        ELSE ClimbOld(start[1], start[2], nodes[1], nodes[1], Tail(nodes))

(* Mutant: the old root is not compared. *)
VerifyConsistencyNew(old, size, oldRoot, newRoot, proof) ==
    CASE old > size -> FALSE
      [] old = size -> proof = <<>> /\ oldRoot = newRoot
      [] old = 0 /\ size > 0 -> proof = <<>>
      [] OTHER -> LET end == Climbed(old, size, oldRoot, proof)
                  IN  end.ok /\ end.hash2 = newRoot

VerifyConsistency(old, size, oldRoot, newRoot, proof) ==
    CASE old > size -> FALSE
      [] old = size -> proof = <<>> /\ oldRoot = newRoot
      [] old = 0 /\ size > 0 -> proof = <<>>
      [] OTHER -> LET end == Climbed(old, size, oldRoot, proof)
                  IN  end.ok /\ end.hash1 = oldRoot /\ end.hash2 = newRoot

-----------------------------------------------------------------------------
(* tiles.rs *)

(* The hash of a perfect subtree, pair by pair. *)
RECURSIVE FoldPerfect(_)
FoldPerfect(hs) ==
    IF Len(hs) = 1 THEN hs[1]
    ELSE FoldPerfect([i \in 1..(Len(hs) \div 2) |-> HashChildren(hs[2 * i - 1], hs[2 * i])])

(* A hash is stored at the end of a level; if that fills a tile, its fold is  *)
(* stored in the level above.                                                 *)
RECURSIVE Put(_, _, _)
Put(tiles, level, h) ==
    LET put == [tiles EXCEPT ![level] = Append(@, h)]
        count == Len(put[level])
    IN  IF count % TileWidth # 0 \/ level = TopLevel THEN put
        ELSE Put(put, level + 1,
                 FoldPerfect(SubSeq(put[level], count - TileWidth + 1, count)))

(* The perfect subtree of 2^bit leaves with index idx, from the hashes of the *)
(* tile level below it.                                                       *)
PerfectHash(tiles, bit, idx) ==
    LET width == 2 ^ (bit % HeightBits)
        hashes == tiles[bit \div HeightBits]
    IN  FoldPerfect(SubSeq(hashes, idx * width + 1, (idx + 1) * width))

(* The perfect subtrees that n leaves are made of, from the left. *)
RECURSIVE Frontier(_, _, _, _)
Frontier(tiles, bit, pos, n) ==
    IF bit < 0 THEN <<>>
    ELSE IF (n \div 2 ^ bit) % 2 = 0 THEN Frontier(tiles, bit - 1, pos, n)
    ELSE <<PerfectHash(tiles, bit, pos \div 2 ^ bit)>>
           \o Frontier(tiles, bit - 1, pos + 2 ^ bit, n)

(* Mutant of TreeHead: the subtrees are folded from the left. *)
TreeHeadFromLeft(tiles, n) ==
    LET subtrees == Frontier(tiles, TopBit, 0, n)
    IN  IF n = 0 THEN EmptyRoot
        ELSE FoldLeft(HashChildren, Head(subtrees), Tail(subtrees))

TreeHead(tiles, n) ==
    LET subtrees == Frontier(tiles, TopBit, 0, n)
    IN  IF n = 0 THEN EmptyRoot
        ELSE FoldRight(HashChildren, Front(subtrees), Last(subtrees))

Init ==
    /\ log = <<>>
    /\ stored = [l \in 0..TopLevel |-> <<>>]
    /\ head = [size |-> 0, root |-> None]

(* What n leaves after the first m may hash to. *)
RECURSIVE Batches(_, _)
Batches(m, n) ==
    IF n = 0 THEN {<<>>}
    ELSE {Append(b, HashLeaf(d)) : b \in Batches(m, n - 1), d \in DataAt[m + n]}

(* One session: every leaf is pushed and carried up, then the head is taken. *)
AppendLeafHashes ==
    \E n \in 0..MaxBatch :
        /\ Len(log) + n <= MaxLeaves
        /\ \E hashes \in Batches(Len(log), n) :
              LET pushLeaf(tiles, h) == Put(tiles, 0, h)
              IN  /\ log' = log \o hashes
                  /\ stored' = FoldLeft(pushLeaf, stored, hashes)
                  /\ head' = [size |-> Len(log'), root |-> TreeHead(stored', Len(log'))]

Next == AppendLeafHashes

Spec == Init /\ [][Next]_vars

-----------------------------------------------------------------------------
(* What push_leaf and cascade store is what materialize() computes: hash i of *)
(* level l is the tree hash of the leaves below it, and no complete one is    *)
(* missing.                                                                   *)
StoredIsMth ==
    \A l \in 0..TopLevel :
        LET span == TileWidth ^ l
        IN  stored[l] = [i \in 1..(Len(log) \div span) |->
                            Mth(SubSeq(log, (i - 1) * span + 1, i * span))]

(* However the leaves are split into sessions, the head that tree_head folds *)
(* from stored hashes is the tree hash of all leaves, as materialize() and    *)
(* `pond tlog verify` compute it, and so is every stored hash.                *)
HeadIsMth ==
    /\ StoredIsMth
    /\ head.root # None => head = [size |-> Len(log), root |-> Mth(log)]

(* inclusion_proof of a leaf convinces verify_inclusion of that leaf at its   *)
(* index, and at any index of no leaf that the log does not have there.       *)
InclusionExact ==
    LET n == Len(log)
        root == Mth(log)
    IN  \A i \in 0..(n - 1) :
          LET proof == Path(i, log)
          IN  /\ VerifyInclusion(log[i + 1], i, n, proof, root)
              /\ \A j \in 0..n, d \in UNION Range(DataAt) :
                    VerifyInclusion(HashLeaf(d), j, n, proof, root) =>
                        j < n /\ HashLeaf(d) = log[j + 1]

(* consistency_proof convinces verify_consistency of an older root exactly if *)
(* that is the root of a prefix of the log: every checkpoint published before *)
(* passes, and that of another history of the same size does not.             *)
ConsistencyExact ==
    LET root == Mth(log)
    IN  \A m \in 0..Len(log) :
          LET proof == ConsistencyProof(m, log)
          IN  \A other \in Batches(0, m) :
                VerifyConsistency(m, Len(log), Mth(other), root, proof)
                  <=> other = SubSeq(log, 1, m)
=============================================================================
