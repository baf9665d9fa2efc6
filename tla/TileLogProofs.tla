---------------------------- MODULE TileLogProofs ----------------------------
(***************************************************************************)
(* Proofs of the invariants of TileLog.                                     *)
(***************************************************************************)
EXTENDS TileLog, SequenceTheorems, TLAPS

-----------------------------------------------------------------------------
(* The layout. *)

(* Division by a positive number is monotone. *)
LEMMA DivMonotone ==
    ASSUME NEW d \in Nat \ {0}, NEW s \in Nat, NEW t \in Nat, s <= t
    PROVE  /\ s \div d \in Nat
           /\ s \div d <= t \div d
  <1> DEFINE q == s \div d
             p == t \div d
  <1>1. /\ q \in Int /\ p \in Int
        /\ d * q <= s /\ s < d * q + d
        /\ d * p <= t /\ t < d * p + d
    OBVIOUS
  <1> HIDE DEF q, p
  <1>2. \A a, b \in Int : a <= b => d * a <= d * b
    OBVIOUS
  <1>3. q <= p
    <2>1. SUFFICES ASSUME p + 1 <= q PROVE FALSE
      BY <1>1
    <2>2. d * (p + 1) <= d * q
      BY <1>1, <1>2, <2>1
    <2>3. d * (p + 1) = d * p + d
      BY <1>1
    <2> QED BY <1>1, <2>2, <2>3
  <1>4. q >= 0
    <2>1. SUFFICES ASSUME q + 1 <= 0 PROVE FALSE
      BY <1>1
    <2>2. d * (q + 1) <= d * 0
      BY <1>1, <1>2, <2>1
    <2>3. d * (q + 1) = d * q + d
      BY <1>1
    <2> QED BY <1>1, <2>2, <2>3
  <1> QED BY <1>1, <1>3, <1>4 DEF q, p

(* A level never loses stored hashes as leaves are added. *)
LEMMA CountMonotone ==
    ASSUME NEW l \in Levels, NEW s \in Nat, NEW t \in Nat, s <= t
    PROVE  /\ Count(l, s) \in Nat
           /\ Count(l, t) \in Nat
           /\ Count(l, s) <= Count(l, t)
  <1>1. Span[l] \in Nat \ {0}
    BY TileAssumption
  <1>2. s \div Span[l] \in Nat /\ s \div Span[l] <= t \div Span[l]
    BY <1>1, DivMonotone
  <1>3. t \div Span[l] \in Nat
    BY <1>1, DivMonotone
  <1> QED BY <1>2, <1>3 DEF Count

(* A tile never loses hashes, and the dirty tiles are those that gain some. *)
LEMMA HeldFacts ==
    ASSUME NEW k \in Keys, NEW s \in Nat, NEW t \in Nat, s <= t
    PROVE  /\ Held(k, s) \in 0..Width
           /\ Held(k, t) \in 0..Width
           /\ Held(k, s) <= Held(k, t)
           /\ k \in Dirty(s, t) <=> Held(k, s) < Held(k, t)
  <1> DEFINE a == Count(k.level, s)
             b == Count(k.level, t)
             lo == k.n * Width
  <1>1. Width \in Nat /\ Width > 1 /\ k.n \in Nat /\ k.level \in Levels
    BY TileAssumption DEF Keys
  <1>2. a \in Nat /\ b \in Nat /\ a <= b
    BY <1>1, CountMonotone
  <1>3. lo \in Nat /\ (k.n + 1) * Width = lo + Width
    BY <1>1
  <1>4. /\ Held(k, s) = IF a - lo <= 0 THEN 0 ELSE IF a - lo <= Width THEN a - lo ELSE Width
        /\ Held(k, t) = IF b - lo <= 0 THEN 0 ELSE IF b - lo <= Width THEN b - lo ELSE Width
    BY DEF Held
  <1>5. k \in Dirty(s, t) <=> \E i \in a..(b - 1) : lo <= i /\ i < lo + Width
    BY <1>3 DEF Dirty
  <1> HIDE DEF a, b, lo
  <1>6. /\ Held(k, s) \in 0..Width
        /\ Held(k, t) \in 0..Width
        /\ Held(k, s) <= Held(k, t)
    BY <1>1, <1>2, <1>3, <1>4
  <1>7. ASSUME k \in Dirty(s, t) PROVE Held(k, s) < Held(k, t)
    BY <1>1, <1>2, <1>3, <1>4, <1>5, <1>7
  <1>8. ASSUME Held(k, s) < Held(k, t) PROVE k \in Dirty(s, t)
    <2>1. CASE a <= lo
      <3>1. lo \in a..(b - 1)
        BY <1>1, <1>2, <1>3, <1>4, <1>8, <2>1
      <3> QED BY <3>1, <1>1, <1>3, <1>5
    <2>2. CASE a > lo
      <3>1. a \in a..(b - 1) /\ a < lo + Width
        BY <1>1, <1>2, <1>3, <1>4, <1>8, <2>2
      <3> QED BY <3>1, <1>2, <1>3, <1>5, <2>2
    <2> QED BY <1>2, <1>3, <2>1, <2>2
  <1> QED BY <1>6, <1>7, <1>8

(* What a tile file is made of. *)
LEMMA TileFacts ==
    ASSUME NEW k \in Keys, NEW w \in 1..Width
    PROVE  /\ Tile(k, w) \in Files
           /\ KeyOf(Tile(k, w)) = k
           /\ Tile(k, w).width = w
  BY DEF Tile, KeyOf, Key, Keys, Files

(* A file is a tile of a key and a width.                                  *)
LEMMA FileFacts ==
    ASSUME NEW f \in Files
    PROVE  /\ KeyOf(f) \in Keys
           /\ f.width \in 1..Width
           /\ f = Tile(KeyOf(f), f.width)
  BY DEF Tile, KeyOf, Key, Keys, Files
-----------------------------------------------------------------------------
(* Types. *)

Constants ==
    /\ Width \in Nat /\ Width > 1
    /\ MaxLeaves \in Nat
    /\ 0 \in Levels

(* What the assumptions on the constants come to.                          *)
LEMMA ConstantsHold == Constants
  BY TileAssumption DEF Constants, Levels

(* The tile the verifier is at is one of the keys. *)
LEMMA RKeyIsKey ==
    ASSUME rn \in 0..MaxLeaves
    PROVE  RKey \in Keys
  BY ConstantsHold DEF Constants, RKey, Key, Keys

(* What the sessions of the writer need: while one is open no leaf is added, *)
(* and its tiles are those between the checkpoint and the new size.          *)
SessionInv ==
    /\ checkpoint <= leaves
    /\ pc \in {"flush", "history"} => new = leaves
    /\ pc = "flush" => checkpoint < new /\ todo \subseteq Dirty(checkpoint, new)
    /\ pc = "history" => checkpoint = new
    /\ spine <= leaves
    /\ pc = "record" => spine < leaves
    /\ tail = "line" => history # <<>>

(* The last tile of the size read is within the bound. *)
LEMMA NextTileBound ==
    ASSUME rn \in 0..MaxLeaves, rsize \in 0..MaxLeaves, (rn + 1) * Width < rsize
    PROVE  rn + 1 \in 0..MaxLeaves
  <1>1. rn + 1 \in Nat /\ Width \in Nat /\ Width > 1 /\ MaxLeaves \in Nat
    BY ConstantsHold DEF Constants
  <1>2. \A a, b \in Nat : b > 1 => a <= a * b
    OBVIOUS
  <1>3. rn + 1 <= (rn + 1) * Width /\ (rn + 1) * Width \in Nat
    BY <1>1, <1>2
  <1> QED BY <1>1, <1>3

(* Appending to a sequence, and dropping its last element. *)
LEMMA AppendFacts ==
    ASSUME NEW S, NEW q \in Seq(S), NEW e \in S
    PROVE  /\ Append(q, e) \in Seq(S)
           /\ Len(q) \in Nat
           /\ Len(Append(q, e)) = Len(q) + 1
           /\ \A i \in 1..Len(q) : Append(q, e)[i] = q[i]
           /\ Append(q, e)[Len(q) + 1] = e
  OBVIOUS

(* A sequence without its last element.                                    *)
LEMMA FrontFacts ==
    ASSUME NEW S, NEW q \in Seq(S), q # <<>>
    PROVE  LET r == SubSeq(q, 1, Len(q) - 1)
           IN  /\ r \in Seq(S)
               /\ Len(q) \in Nat \ {0}
               /\ Len(r) = Len(q) - 1
               /\ \A i \in 1..Len(r) : r[i] = q[i]
  <1> DEFINE n == Len(q) - 1
             r == SubSeq(q, 1, n)
  <1>1. Len(q) \in Nat \ {0}
    OBVIOUS
  <1>2. 1 \in Int /\ n \in Int /\ \A i \in 1..n : q[i] \in S
    BY <1>1
  <1>3. n \in Nat
    BY <1>1
  <1> HIDE DEF n
  <1>4. /\ r \in Seq(S)
        /\ Len(r) = IF 1 <= n THEN n - 1 + 1 ELSE 0
        /\ \A i \in 1..(n - 1 + 1) : r[i] = q[1 + i - 1]
    BY <1>2, SubSeqProperties
  <1> HIDE DEF r
  <1>5. Len(r) = n
    BY <1>3, <1>4
  <1>6. \A i \in 1..n : r[i] = q[i]
    BY <1>3, <1>4
  <1>7. r \in Seq(S) /\ Len(r) = n /\ \A i \in 1..Len(r) : r[i] = q[i]
    BY <1>4, <1>5, <1>6
  <1> QED BY <1>1, <1>7 DEF r, n

(* The lines of the history stay sizes. *)
LEMMA LinesType ==
    ASSUME NEW S, NEW s \in S, history \in Seq(S),
           tail \in {"none", "origin", "rest", "line"},
           tail = "line" => history # <<>>
    PROVE  /\ Lines(s) \in Seq(S)
           /\ tail \in {"none", "origin"} => Lines(s) = Append(history, s)
           /\ tail = "line" => Lines(s) = SubSeq(history, 1, Len(history) - 1)
           /\ tail = "rest" => Lines(s) = history
  <1>1. CASE tail \in {"none", "origin"}
    <2>1. Lines(s) = Append(history, s)
      BY <1>1 DEF Lines
    <2>2. tail # "line" /\ tail # "rest"
      BY <1>1
    <2> QED BY <1>1, <2>1, <2>2, AppendFacts
  <1>2. CASE tail = "line"
    <2>1. Lines(s) = SubSeq(history, 1, Len(history) - 1)
      BY <1>2 DEF Lines
    <2> QED BY <1>2, <2>1, FrontFacts
  <1>3. CASE tail = "rest"
    BY <1>3 DEF Lines
  <1> QED BY <1>1, <1>2, <1>3

(* At first there is no session.                                           *)
LEMMA SessionInit == Init => TypeOK /\ SessionInv
  BY ConstantsHold DEF Constants, Init, TypeOK, SessionInv

(* The hashes a dirty tile holds at the new size. *)
LEMMA DirtyWidth ==
    ASSUME NEW s \in Nat, NEW t \in Nat, s <= t, NEW k \in Dirty(s, t)
    PROVE  k \in Keys /\ Held(k, t) \in 1..Width
  <1>1. k \in Keys
    BY DEF Dirty
  <1>2. Held(k, s) \in 0..Width /\ Held(k, t) \in 0..Width /\ Held(k, s) < Held(k, t)
    BY <1>1, HeldFacts
  <1>3. Width \in Nat
    BY ConstantsHold DEF Constants
  <1> QED BY <1>1, <1>2, <1>3

(* Every step keeps the session.                                           *)
LEMMA SessionStep == TypeOK /\ SessionInv /\ [Next]_vars => TypeOK' /\ SessionInv'
  <1> SUFFICES ASSUME TypeOK, SessionInv, [Next]_vars
               PROVE  TypeOK' /\ SessionInv'
    OBVIOUS
  <1>0. Constants
    BY ConstantsHold
  <1> USE DEF disk, session, reader
  <1>1. CASE CommitData
    BY <1>0, <1>1 DEF Constants, TypeOK, SessionInv, CommitData
  <1>2. CASE RecordDataCommitted
    BY <1>0, <1>2 DEF Constants, TypeOK, SessionInv, RecordDataCommitted
  <1>3. CASE Open
    <2>1. todo' \subseteq Keys /\ todo' = Dirty(checkpoint, leaves)
      BY <1>3 DEF Open, Dirty
    <2> QED BY <1>0, <1>3, <2>1 DEF Constants, TypeOK, SessionInv, Open
  <1>4. CASE WriteTile
    <2>1. PICK k \in todo : /\ tiles' = tiles \cup {Tile(k, Held(k, new))}
                            /\ todo' = todo \ {k}
                            /\ doomed' = Variants(k) \ {Tile(k, Held(k, new))}
      BY <1>4 DEF WriteTile
    <2>2. k \in Dirty(checkpoint, new) /\ checkpoint \in Nat /\ new \in Nat /\ checkpoint <= new
      BY <1>0, <1>4 DEF WriteTile, SessionInv, TypeOK, Constants
    <2>3. Tile(k, Held(k, new)) \in Files
      BY <2>2, DirtyWidth, TileFacts
    <2>4. doomed' \subseteq tiles
      BY <2>1 DEF Variants
    <2>5. tiles' \subseteq Files /\ doomed' \subseteq Files
      BY <2>1, <2>3, <2>4 DEF TypeOK
    <2> QED BY <1>0, <1>4, <2>1, <2>5 DEF Constants, TypeOK, SessionInv, WriteTile
  <1>5. CASE PruneVariant
    BY <1>0, <1>5 DEF Constants, TypeOK, SessionInv, PruneVariant
  <1>6. CASE WriteCheckpoint
    BY <1>0, <1>6 DEF Constants, TypeOK, SessionInv, WriteCheckpoint
  <1>7. CASE AppendHistory
    <2>1. new \in 1..MaxLeaves
      BY <1>0, <1>7 DEF AppendHistory, TypeOK, Constants, LastSize
    <2>2. history' \in Seq(1..MaxLeaves)
      BY <1>7, <2>1, LinesType, Zenon DEF AppendHistory, TypeOK, SessionInv
    <2> QED BY <1>0, <1>7, <2>2 DEF Constants, TypeOK, SessionInv, AppendHistory, EndSession
  <1>8. CASE TearHistory
    <2>1. new \in 1..MaxLeaves
      BY <1>0, <1>8 DEF TearHistory, TypeOK, Constants, LastSize
    <2>2. Lines(new) \in Seq(1..MaxLeaves)
      BY <2>1, LinesType, Zenon DEF TypeOK, SessionInv
    <2>3. tail \in {"none", "origin"} => Lines(new) # <<>>
      <3>1. tail \in {"none", "origin"} => Lines(new) = Append(history, new)
        BY <2>1, LinesType, Zenon DEF TypeOK, SessionInv
      <3>2. Append(history, new) # <<>>
        BY <2>1 DEF TypeOK
      <3> QED BY <3>1, <3>2
    <2>4. /\ history' \in Seq(1..MaxLeaves)
          /\ tail' \in {"none", "origin", "rest", "line"}
          /\ tail' = "line" => history' # <<>>
      BY <1>8, <2>2, <2>3 DEF TearHistory, TypeOK
    <2>5. /\ pc' = "idle" /\ EndSession
          /\ UNCHANGED <<leaves, spine, tiles, checkpoint, reader>>
      BY <1>8 DEF TearHistory
    <2> QED BY <1>0, <2>4, <2>5 DEF Constants, TypeOK, SessionInv, EndSession
  <1>9. CASE GiveUp
    BY <1>0, <1>9 DEF Constants, TypeOK, SessionInv, GiveUp, EndSession
  <1>10. CASE Verifier
    <2>1. UNCHANGED <<leaves, spine, disk, pc, session>>
      BY <1>10 DEF Verifier, ReadCheckpoint, ReadSize, ReadFull, ReadExact, Scan,
                   ReadBest, ReadHistory, VerifyReturns
    <2>2. /\ rpc' \in {"idle", "size", "full", "exact", "scan", "best", "history", "failed"}
          /\ rcp' \in 0..MaxLeaves
          /\ rsize' \in 0..MaxLeaves
          /\ rn' \in 0..MaxLeaves
          /\ rbest' \in 0..Width
      <3> USE <1>0 DEF Constants, TypeOK
      <3>1. CASE ReadCheckpoint
        BY <3>1 DEF ReadCheckpoint
      <3>2. CASE ReadSize
        BY <3>2 DEF ReadSize
      <3>3. ASSUME NextTile
            PROVE  rpc' \in {"full", "history"} /\ rn' \in 0..MaxLeaves
        BY <3>3, NextTileBound DEF NextTile
      <3>4. CASE ReadFull
        BY <3>3, <3>4 DEF ReadFull
      <3>5. CASE ReadExact
        BY <3>3, <3>5 DEF ReadExact
      <3>6. CASE Scan
        <4>1. \A f \in Variants(RKey) : f.width \in 0..Width
          BY FileFacts DEF Variants
        <4> QED BY <3>6, <4>1 DEF Scan
      <3>7. CASE ReadBest
        BY <3>3, <3>7 DEF ReadBest
      <3>8. CASE ReadHistory
        BY <3>8 DEF ReadHistory, VerifyEnds
      <3>9. CASE VerifyReturns
        BY <3>9 DEF VerifyReturns, VerifyEnds
      <3> QED BY <1>10, <3>1, <3>2, <3>4, <3>5, <3>6, <3>7, <3>8, <3>9 DEF Verifier
    <2> QED BY <2>1, <2>2, Zenon DEF TypeOK, SessionInv
  <1>11. CASE UNCHANGED vars
    BY <1>11 DEF TypeOK, SessionInv, vars
  <1> QED BY <1>1, <1>2, <1>3, <1>4, <1>5, <1>6, <1>7, <1>8, <1>9, <1>10, <1>11
          DEF Next, Writer

(* Every variable keeps its type, and sessions and sizes stay in order. *)
THEOREM TypeCorrect == Spec => [](TypeOK /\ SessionInv)
  <1>1. TypeOK /\ SessionInv /\ [Next]_vars => (TypeOK /\ SessionInv)'
    BY SessionStep
  <1> QED BY <1>1, SessionInit, PTL DEF Spec

-----------------------------------------------------------------------------
(* The tiles on disk. *)

(* The tile that flush leaves for key k at size s. *)
Wide(k, s) == Tile(k, Held(k, s))

(* No tile is wider than the leaves there are, so pruning never deletes the   *)
(* widest; tiles that no session has to write are those of the checkpoint;    *)
(* tiles that the session has written have their new width, apart from what   *)
(* is being pruned.                                                           *)
DiskInv ==
    /\ \A f \in tiles : f.width <= Held(KeyOf(f), leaves)
    /\ \A f \in tiles : KeyOf(f) \notin Dirty(checkpoint, leaves) =>
                            f.width = Held(KeyOf(f), checkpoint)
    /\ pc = "flush" =>
         /\ \A k \in Dirty(checkpoint, leaves) \ todo :
              /\ Wide(k, leaves) \in tiles
              /\ \A f \in tiles : KeyOf(f) = k => f \in doomed \cup {Wide(k, leaves)}
         /\ \A f \in doomed :
              /\ KeyOf(f) \in Dirty(checkpoint, leaves) \ todo
              /\ f.width # Width
              /\ f # Wide(KeyOf(f), leaves)

(* Every step is one of four kinds, as far as tiles are concerned. *)
LEMMA DiskEffects ==
    ASSUME TypeOK, SessionInv, [Next]_vars
    PROVE  \/ /\ leaves' \in {leaves, leaves + 1}
              /\ UNCHANGED <<tiles, checkpoint>>
              /\ pc' = "history" => pc = "history"
              /\ pc = "flush" /\ pc' = "flush" => UNCHANGED <<leaves, todo, doomed>>
              /\ pc = "history" /\ pc' = "history" => UNCHANGED leaves
              /\ pc # "flush" /\ pc' = "flush" =>
                   leaves' = leaves /\ todo' = Dirty(checkpoint, leaves) /\ doomed' = {}
           \/ WriteTile
           \/ PruneVariant
           \/ WriteCheckpoint
  <1> USE DEF disk, session, reader
  <1>1. CASE Verifier
    <2>1. UNCHANGED <<leaves, spine, disk, pc, session>>
      BY <1>1 DEF Verifier, ReadCheckpoint, ReadSize, ReadFull, ReadExact, Scan,
                  ReadBest, ReadHistory, VerifyReturns
    <2> QED BY <2>1
  <1>2. CASE UNCHANGED vars
    BY <1>2 DEF vars
  <1>3. CASE CommitData
    BY <1>3 DEF CommitData
  <1>4. CASE RecordDataCommitted
    BY <1>4 DEF RecordDataCommitted
  <1>5. CASE Open
    BY <1>5 DEF Open
  <1>6. CASE AppendHistory
    BY <1>6 DEF AppendHistory
  <1>7. CASE TearHistory
    BY <1>7 DEF TearHistory
  <1>8. CASE GiveUp
    BY <1>8 DEF GiveUp
  <1> QED BY <1>1, <1>2, <1>3, <1>4, <1>5, <1>6, <1>7, <1>8 DEF Next, Writer

(* The sizes a step relates. *)
LEMMA Sizes ==
    ASSUME TypeOK, SessionInv
    PROVE  leaves \in Nat /\ checkpoint \in Nat /\ checkpoint <= leaves
  BY ConstantsHold DEF Constants, TypeOK, SessionInv

(* More leaves make more tiles dirty. *)
LEMMA DirtyGrows ==
    ASSUME NEW s \in Nat, NEW t \in Nat, NEW u \in Nat, s <= t, t <= u
    PROVE  Dirty(s, t) \subseteq Dirty(s, u)
  <1> SUFFICES ASSUME NEW k \in Dirty(s, t) PROVE k \in Dirty(s, u)
    OBVIOUS
  <1>1. k \in Keys
    BY DEF Dirty
  <1>2. /\ Held(k, s) \in 0..Width /\ Held(k, t) \in 0..Width /\ Held(k, u) \in 0..Width
        /\ Held(k, s) < Held(k, t) /\ Held(k, t) <= Held(k, u)
    BY <1>1, HeldFacts
  <1>3. Held(k, s) < Held(k, u)
    BY <1>2
  <1>4. s <= u
    OBVIOUS
  <1> QED BY <1>1, <1>3, <1>4, HeldFacts

DiskAll == DiskInv /\ CommittedReadable /\ CanonicalTiles

(* An empty log is on disk.                                                *)
LEMMA DiskInit == Init => DiskAll
  <1> SUFFICES ASSUME Init PROVE DiskAll
    OBVIOUS
  <1>1. DiskInv /\ CanonicalTiles
    BY DEF Init, DiskInv, CanonicalTiles
  <1>2. ASSUME NEW k \in Keys PROVE Held(k, 0) = 0
    <2>1. 0 \div Span[k.level] = 0
      <3>1. k.level \in Levels
        BY DEF Keys
      <3>2. Span[k.level] \in Nat \ {0}
        BY <3>1, TileAssumption
      <3>3. \A d \in Nat \ {0} : 0 \div d = 0
        OBVIOUS
      <3> QED BY <3>2, <3>3
    <2>2. k.n * Width \in Nat
      BY ConstantsHold DEF Constants, Keys
    <2> QED BY <2>1, <2>2 DEF Held, Count
  <1>3. CommittedReadable
    BY <1>2 DEF Init, CommittedReadable
  <1> QED BY <1>1, <1>3 DEF DiskAll

(* Steps that leave the tiles and the checkpoint alone. *)
LEMMA DiskQuiet ==
    ASSUME TypeOK, SessionInv, DiskAll, TypeOK', SessionInv',
           leaves' \in {leaves, leaves + 1},
           UNCHANGED <<tiles, checkpoint>>,
           pc' = "history" => pc = "history",
           pc = "flush" /\ pc' = "flush" => UNCHANGED <<leaves, todo, doomed>>,
           pc # "flush" /\ pc' = "flush" =>
               leaves' = leaves /\ todo' = Dirty(checkpoint, leaves) /\ doomed' = {}
    PROVE  DiskAll'
  <1>1. /\ leaves \in Nat /\ checkpoint \in Nat /\ checkpoint <= leaves
        /\ leaves' \in Nat /\ leaves <= leaves'
    BY Sizes
  <1>2. CommittedReadable' /\ CanonicalTiles'
    BY DEF DiskAll, CommittedReadable, Readable, CanonicalTiles
  <1>3. ASSUME NEW f \in tiles
        PROVE  /\ f.width <= Held(KeyOf(f), leaves')
               /\ KeyOf(f) \notin Dirty(checkpoint, leaves') =>
                    f.width = Held(KeyOf(f), checkpoint)
    <2>1. KeyOf(f) \in Keys /\ f.width \in 1..Width
      BY FileFacts, Zenon DEF TypeOK
    <2>2. /\ Held(KeyOf(f), leaves) \in 0..Width
          /\ Held(KeyOf(f), leaves') \in 0..Width
          /\ Held(KeyOf(f), leaves) <= Held(KeyOf(f), leaves')
      BY <1>1, <2>1, HeldFacts
    <2>3. f.width <= Held(KeyOf(f), leaves)
      BY DEF DiskAll, DiskInv
    <2>4. f.width <= Held(KeyOf(f), leaves')
      BY <2>1, <2>2, <2>3
    <2>5. Dirty(checkpoint, leaves) \subseteq Dirty(checkpoint, leaves')
      BY <1>1, DirtyGrows
    <2> QED BY <2>4, <2>5 DEF DiskAll, DiskInv
  <1>4. ASSUME pc' = "flush"
        PROVE  /\ \A k \in Dirty(checkpoint, leaves') \ todo' :
                    /\ Wide(k, leaves') \in tiles
                    /\ \A f \in tiles : KeyOf(f) = k => f \in doomed' \cup {Wide(k, leaves')}
               /\ \A f \in doomed' :
                    /\ KeyOf(f) \in Dirty(checkpoint, leaves') \ todo'
                    /\ f.width # Width
                    /\ f # Wide(KeyOf(f), leaves')
    <2>1. CASE pc = "flush"
      BY <1>4, <2>1 DEF DiskAll, DiskInv
    <2>2. CASE pc # "flush"
      BY <1>4, <2>2
    <2> QED BY <2>1, <2>2
  <1>5. DiskInv'
    BY <1>3, <1>4 DEF DiskInv, Wide
  <1> QED BY <1>2, <1>5 DEF DiskAll

(* flush writes a tile. *)
LEMMA DiskWrite ==
    ASSUME TypeOK, SessionInv, DiskAll, TypeOK', SessionInv', WriteTile
    PROVE  DiskAll'
  <1>1. PICK k \in todo : /\ tiles' = tiles \cup {Tile(k, Held(k, new))}
                          /\ todo' = todo \ {k}
                          /\ doomed' = Variants(k) \ {Tile(k, Held(k, new))}
    BY DEF WriteTile
  <1>2. /\ pc = "flush" /\ pc' = "flush" /\ doomed = {}
        /\ UNCHANGED <<leaves, checkpoint, new>> /\ new = leaves
    BY DEF WriteTile, SessionInv
  <1>3. /\ leaves \in Nat /\ checkpoint \in Nat /\ checkpoint <= leaves
    BY Sizes
  <1>4. k \in Dirty(checkpoint, leaves) /\ k \in Keys /\ Held(k, leaves) \in 1..Width
    BY <1>2, <1>3, DirtyWidth DEF SessionInv
  <1>5. /\ KeyOf(Wide(k, leaves)) = k
        /\ Wide(k, leaves).width = Held(k, leaves)
        /\ Wide(k, leaves) \in Files
    BY <1>4, TileFacts DEF Wide
  <1>6. /\ tiles' = tiles \cup {Wide(k, leaves)}
        /\ doomed' = Variants(k) \ {Wide(k, leaves)}
    BY <1>1, <1>2 DEF Wide
  <1>7. CommittedReadable' /\ CanonicalTiles'
    BY <1>2, <1>6 DEF DiskAll, CommittedReadable, Readable, CanonicalTiles
  <1>8. ASSUME NEW f \in tiles'
        PROVE  /\ f.width <= Held(KeyOf(f), leaves)
               /\ KeyOf(f) \notin Dirty(checkpoint, leaves) =>
                    f.width = Held(KeyOf(f), checkpoint)
    BY <1>4, <1>5, <1>6 DEF DiskAll, DiskInv
  <1>9. ASSUME NEW j \in Dirty(checkpoint, leaves) \ todo'
        PROVE  /\ Wide(j, leaves) \in tiles'
               /\ \A f \in tiles' : KeyOf(f) = j => f \in doomed' \cup {Wide(j, leaves)}
    <2>1. CASE j = k
      <3>1. ASSUME NEW f \in tiles', KeyOf(f) = k, f # Wide(k, leaves)
            PROVE  f \in doomed'
        <4>1. f \in tiles /\ f \in Files
          BY <1>6, <3>1 DEF TypeOK
        <4>2. f.width \in 1..Width /\ f = Tile(k, f.width)
          BY <4>1, <3>1, FileFacts
        <4>3. f.width # Held(k, leaves)
          BY <4>2, <3>1 DEF Wide
        <4>4. f.width <= Held(k, leaves)
          BY <4>1, <3>1 DEF DiskAll, DiskInv
        <4>5. f.width # Width
          BY <4>2, <4>3, <4>4, <1>4, ConstantsHold DEF Constants
        <4> QED BY <1>6, <4>1, <4>5, <3>1 DEF Variants
      <3> QED BY <1>6, <2>1, <3>1
    <2>2. CASE j # k
      BY <1>1, <1>2, <1>5, <1>6, <2>2 DEF DiskAll, DiskInv
    <2> QED BY <2>1, <2>2
  <1>10. ASSUME NEW f \in doomed'
         PROVE  /\ KeyOf(f) \in Dirty(checkpoint, leaves) \ todo'
                /\ f.width # Width
                /\ f # Wide(KeyOf(f), leaves)
    BY <1>1, <1>4, <1>6 DEF Variants
  <1>11. DiskInv'
    BY <1>2, <1>8, <1>9, <1>10 DEF DiskInv, Wide
  <1> QED BY <1>7, <1>11 DEF DiskAll

(* flush deletes a superseded variant. *)
LEMMA DiskPrune ==
    ASSUME TypeOK, SessionInv, DiskAll, TypeOK', SessionInv', PruneVariant
    PROVE  DiskAll'
  <1>1. PICK g \in doomed : tiles' = tiles \ {g} /\ doomed' = doomed \ {g}
    BY DEF PruneVariant
  <1>2. /\ pc = "flush" /\ pc' = "flush"
        /\ UNCHANGED <<leaves, checkpoint, todo>>
    BY DEF PruneVariant
  <1>3. leaves \in Nat /\ checkpoint \in Nat /\ checkpoint <= leaves
    BY Sizes
  <1>4. KeyOf(g) \in Dirty(checkpoint, leaves) \ todo /\ g # Wide(KeyOf(g), leaves)
    BY <1>2 DEF DiskAll, DiskInv
  <1>5. \A j \in Dirty(checkpoint, leaves) \ todo : Wide(j, leaves) \in tiles'
    <2>1. SUFFICES ASSUME NEW j \in Dirty(checkpoint, leaves) \ todo
                   PROVE  Wide(j, leaves) # g
      BY <1>1, <1>2 DEF DiskAll, DiskInv
    <2>2. KeyOf(Wide(j, leaves)) = j
      BY <1>3, DirtyWidth, TileFacts DEF Wide
    <2> QED BY <1>4, <2>2
  <1>6. CommittedReadable'
    <2> SUFFICES ASSUME NEW k \in Keys, Held(k, checkpoint) > 0
                 PROVE  \E f \in tiles' : KeyOf(f) = k /\ f.width >= Held(k, checkpoint)
      BY <1>2 DEF CommittedReadable, Readable
    <2>1. PICK f \in tiles : KeyOf(f) = k /\ f.width >= Held(k, checkpoint)
      BY DEF DiskAll, CommittedReadable, Readable
    <2>2. CASE f # g
      BY <1>1, <2>1, <2>2
    <2>3. CASE f = g
      <3>1. k \in Dirty(checkpoint, leaves) \ todo
        BY <1>4, <2>1, <2>3
      <3>2. /\ Wide(k, leaves) \in tiles'
            /\ KeyOf(Wide(k, leaves)) = k
            /\ Wide(k, leaves).width = Held(k, leaves)
        BY <1>3, <1>5, <3>1, DirtyWidth, TileFacts DEF Wide
      <3>3. /\ Held(k, leaves) \in 0..Width /\ Held(k, checkpoint) \in 0..Width
            /\ Held(k, checkpoint) <= Held(k, leaves)
        BY <1>3, HeldFacts
      <3> QED BY <3>2, <3>3
    <2> QED BY <2>2, <2>3
  <1>7. CanonicalTiles'
    BY <1>2 DEF CanonicalTiles
  <1>8. DiskInv'
    BY <1>1, <1>2, <1>5 DEF DiskAll, DiskInv, Wide
  <1> QED BY <1>6, <1>7, <1>8 DEF DiskAll

(* The checkpoint is published. *)
LEMMA DiskPublish ==
    ASSUME TypeOK, SessionInv, DiskAll, TypeOK', SessionInv', WriteCheckpoint
    PROVE  DiskAll'
  <1>1. /\ pc = "flush" /\ pc' = "history" /\ doomed = {} /\ todo = {}
        /\ checkpoint' = leaves /\ UNCHANGED <<leaves, tiles>>
    BY DEF WriteCheckpoint, SessionInv
  <1>2. leaves \in Nat /\ checkpoint \in Nat /\ checkpoint <= leaves
    BY Sizes
  <1>3. ASSUME NEW f \in tiles
        PROVE  KeyOf(f) \in Keys /\ f = Wide(KeyOf(f), leaves) /\ f.width = Held(KeyOf(f), leaves)
                 /\ Held(KeyOf(f), leaves) > 0
    <2>1. KeyOf(f) \in Keys /\ f.width \in 1..Width /\ f = Tile(KeyOf(f), f.width)
      BY FileFacts, Zenon DEF TypeOK
    <2>2. CASE KeyOf(f) \in Dirty(checkpoint, leaves)
      <3>1. f = Wide(KeyOf(f), leaves)
        BY <1>1, <2>2 DEF DiskAll, DiskInv
      <3>2. Held(KeyOf(f), leaves) \in 1..Width
        BY <1>2, <2>2, DirtyWidth
      <3>3. f.width = Held(KeyOf(f), leaves)
        BY <2>1, <3>1, <3>2, TileFacts DEF Wide
      <3> QED BY <2>1, <3>1, <3>2, <3>3
    <2>3. CASE KeyOf(f) \notin Dirty(checkpoint, leaves)
      <3>1. f.width = Held(KeyOf(f), checkpoint)
        BY <2>3 DEF DiskAll, DiskInv
      <3>2. /\ Held(KeyOf(f), checkpoint) \in 0..Width /\ Held(KeyOf(f), leaves) \in 0..Width
            /\ Held(KeyOf(f), checkpoint) <= Held(KeyOf(f), leaves)
            /\ ~ (Held(KeyOf(f), checkpoint) < Held(KeyOf(f), leaves))
        BY <1>2, <2>1, <2>3, HeldFacts
      <3>3. f.width = Held(KeyOf(f), leaves)
        BY <3>1, <3>2
      <3> QED BY <2>1, <3>3 DEF Wide
    <2> QED BY <2>2, <2>3
  <1>4. ASSUME NEW k \in Keys, Held(k, leaves) > 0
        PROVE  Wide(k, leaves) \in tiles /\ KeyOf(Wide(k, leaves)) = k
                 /\ Wide(k, leaves).width = Held(k, leaves)
    <2>0. Held(k, leaves) \in 1..Width
      BY <1>2, <1>4, HeldFacts
    <2>1. CASE k \in Dirty(checkpoint, leaves)
      BY <1>1, <2>0, <2>1, TileFacts DEF DiskAll, DiskInv, Wide
    <2>2. CASE k \notin Dirty(checkpoint, leaves)
      <3>1. /\ Held(k, checkpoint) \in 0..Width
            /\ Held(k, checkpoint) <= Held(k, leaves)
            /\ ~ (Held(k, checkpoint) < Held(k, leaves))
        BY <1>2, <2>2, HeldFacts
      <3>2. Held(k, checkpoint) > 0
        BY <1>4, <2>0, <3>1
      <3>3. PICK f \in tiles : KeyOf(f) = k
        BY <3>2 DEF DiskAll, CommittedReadable, Readable
      <3> QED BY <1>3, <3>3
    <2> QED BY <2>1, <2>2
  <1>5. CommittedReadable'
    <2> SUFFICES ASSUME NEW k \in Keys, Held(k, leaves) > 0
                 PROVE  \E f \in tiles : KeyOf(f) = k /\ f.width >= Held(k, leaves)
      BY <1>1 DEF CommittedReadable, Readable
    <2>1. Held(k, leaves) \in 0..Width
      BY <1>2, HeldFacts
    <2> QED BY <1>4, <2>1
  <1>6. tiles = {Wide(k, leaves) : k \in {j \in Keys : Held(j, leaves) > 0}}
    BY <1>3, <1>4
  <1>7. CanonicalTiles'
    BY <1>1, <1>6 DEF CanonicalTiles, Wide
  <1>8. DiskInv'
    <2>1. \A f \in tiles : Held(KeyOf(f), leaves) \in 0..Width
      BY <1>2, <1>3, HeldFacts
    <2> QED BY <1>1, <1>3, <2>1 DEF DiskInv
  <1> QED BY <1>5, <1>7, <1>8 DEF DiskAll

(* Every step keeps the log on disk.                                       *)
LEMMA DiskStep ==
    TypeOK /\ SessionInv /\ DiskAll /\ TypeOK' /\ SessionInv' /\ [Next]_vars => DiskAll'
  BY DiskEffects, DiskQuiet, DiskWrite, DiskPrune, DiskPublish

(* The disk invariant holds. *)
LEMMA DiskCorrect == Spec => []DiskAll
  BY SessionInit, SessionStep, TypeCorrect, DiskInit, DiskStep, PTL DEF Spec

(* A crash between any two file operations of an export leaves the published  *)
(* log readable: each tile of the checkpoint has a representation that is     *)
(* wide enough.                                                               *)
THEOREM CommittedReadableHolds == Spec => []CommittedReadable
  <1>1. DiskAll => CommittedReadable
    BY DEF DiskAll
  <1> QED BY <1>1, DiskCorrect, PTL

(* A session that publishes leaves exactly the tiles of its size, whatever    *)
(* the sessions before it left unfinished.                                    *)
THEOREM CanonicalTilesHold == Spec => []CanonicalTiles
  <1>1. DiskAll => CanonicalTiles
    BY DEF DiskAll
  <1> QED BY <1>1, DiskCorrect, PTL

-----------------------------------------------------------------------------
(* The history. *)

(* Only the last step of an export adds to the history.                    *)
LEMMA HistoryEffects ==
    ASSUME TypeOK, SessionInv, [Next]_vars
    PROVE  \/ UNCHANGED history /\ checkpoint' \in Nat /\ checkpoint <= checkpoint'
           \/ /\ pc = "history" /\ new > LastSize /\ history' = Lines(new)
              /\ UNCHANGED checkpoint
  <1> USE DEF disk, session, reader
  <1>0. checkpoint \in Nat /\ (pc = "flush" => new \in Nat /\ checkpoint < new)
    BY ConstantsHold DEF Constants, TypeOK, SessionInv
  <1>1. CASE WriteCheckpoint
    BY <1>0, <1>1 DEF WriteCheckpoint
  <1>2. CASE AppendHistory
    BY <1>2 DEF AppendHistory
  <1>3. CASE TearHistory
    BY <1>0, <1>3 DEF TearHistory
  <1>4. CASE CommitData \/ RecordDataCommitted \/ Open \/ WriteTile \/ PruneVariant \/ GiveUp
    <2>1. CASE CommitData \/ RecordDataCommitted \/ Open
      BY <1>0, <2>1 DEF CommitData, RecordDataCommitted, Open
    <2>2. CASE WriteTile \/ PruneVariant \/ GiveUp
      BY <1>0, <2>2 DEF WriteTile, PruneVariant, GiveUp
    <2> QED BY <1>4, <2>1, <2>2
  <1>5. CASE Verifier \/ UNCHANGED vars
    <2>1. UNCHANGED <<history, checkpoint>>
      BY <1>5 DEF Verifier, ReadCheckpoint, ReadSize, ReadFull, ReadExact, Scan,
                  ReadBest, ReadHistory, VerifyReturns, vars
    <2> QED BY <1>0, <2>1
  <1> QED BY <1>1, <1>2, <1>3, <1>4, <1>5 DEF Next, Writer

(* Every step keeps the history sound.                                     *)
LEMMA HistoryStep ==
    ASSUME TypeOK, SessionInv, HistorySound, [Next]_vars
    PROVE  HistorySound'
  <1> DEFINE S == 1..MaxLeaves
  <1>0. /\ history \in Seq(S) /\ checkpoint \in Nat /\ new \in Nat
        /\ tail \in {"none", "origin", "rest", "line"}
        /\ tail = "line" => history # <<>>
        /\ pc = "history" => checkpoint = new
    BY ConstantsHold DEF Constants, TypeOK, SessionInv
  <1>1. /\ Len(history) \in Nat
        /\ \A i \in 1..Len(history) : history[i] \in Nat
    BY <1>0, ConstantsHold DEF Constants
  <1>2. CASE UNCHANGED history /\ checkpoint' \in Nat /\ checkpoint <= checkpoint'
    BY <1>0, <1>1, <1>2 DEF HistorySound
  <1>3. CASE /\ pc = "history" /\ new > LastSize /\ history' = Lines(new)
             /\ UNCHANGED checkpoint
    <2>1. new \in S
      BY <1>0, <1>1, <1>3 DEF TypeOK, LastSize
    <2> HIDE DEF S
    <2>2. CASE tail \in {"none", "origin"}
      <3>1. /\ Len(history') = Len(history) + 1
            /\ \A i \in 1..Len(history) : history'[i] = history[i]
            /\ history'[Len(history) + 1] = new
        BY <1>0, <1>3, <2>1, <2>2, LinesType, AppendFacts
      <3>2. \A i \in 1..Len(history) : history[i] < new
        <4>1. SUFFICES ASSUME NEW i \in 1..Len(history) PROVE history[i] < new
          OBVIOUS
        <4>2. Len(history) \in 1..Len(history) /\ LastSize = history[Len(history)]
          BY <1>1, <4>1 DEF LastSize
        <4>3. history[i] <= history[Len(history)]
          BY <1>1, <4>1, <4>2 DEF HistorySound
        <4> QED BY <1>0, <1>1, <1>3, <4>1, <4>2, <4>3
      <3>3. \A i \in 1..Len(history') : i \in 1..Len(history) \/ i = Len(history) + 1
        BY <1>1, <3>1
      <3>4. ASSUME NEW i \in 1..Len(history') PROVE history'[i] <= checkpoint'
        <4>1. CASE i \in 1..Len(history)
          BY <1>3, <3>1, <4>1 DEF HistorySound
        <4>2. CASE i = Len(history) + 1
          BY <1>0, <1>3, <3>1, <4>2
        <4> QED BY <3>3, <4>1, <4>2
      <3>5. ASSUME NEW i \in 1..Len(history'), NEW j \in 1..Len(history'), i < j
            PROVE  history'[i] < history'[j]
        <4>1. i \in 1..Len(history)
          BY <1>1, <3>1, <3>5
        <4>2. CASE j \in 1..Len(history)
          BY <3>1, <3>5, <4>1, <4>2 DEF HistorySound
        <4>3. CASE j = Len(history) + 1
          BY <3>1, <3>2, <4>1, <4>3
        <4> QED BY <3>3, <4>2, <4>3
      <3> QED BY <3>4, <3>5 DEF HistorySound
    <2>3. CASE tail = "line"
      <3>1. /\ Len(history') = Len(history) - 1
            /\ \A i \in 1..Len(history') : history'[i] = history[i]
        BY <1>0, <1>3, <2>1, <2>3, LinesType, FrontFacts
      <3> QED BY <1>1, <1>3, <3>1 DEF HistorySound
    <2>4. CASE tail = "rest"
      BY <1>0, <1>3, <2>1, <2>4, LinesType DEF HistorySound
    <2> QED BY <1>0, <2>2, <2>3, <2>4
  <1> QED BY <1>2, <1>3, HistoryEffects

(* The history names increasing sizes up to the checkpoint, also when appends *)
(* are torn.                                                                  *)
THEOREM HistorySoundHolds == Spec => []HistorySound
  <1>1. Init => HistorySound
    BY DEF Init, HistorySound
  <1> QED BY <1>1, HistoryStep, TypeCorrect, PTL DEF Spec

-----------------------------------------------------------------------------
(* The verifier. *)

(* What the verifier has seen is still so or has been overtaken. *)
VerifyInv ==
    /\ rpc # "idle" => 0 < rcp /\ rcp <= checkpoint
    /\ rpc \in {"full", "exact", "scan", "best", "history"} =>
         rcp <= rsize /\ rsize <= checkpoint
    /\ rpc \in {"full", "exact", "scan", "best"} => RCount > 0
    /\ rpc \in {"exact", "scan"} => RCount < Width
    /\ rpc = "best" =>
         /\ RCount <= rbest
         /\ \E f \in tiles : KeyOf(f) = RKey /\ f.width >= rbest

(* Tiles are only replaced by wider ones, and full tiles stay. *)
LEMMA TilesWiden ==
    ASSUME TypeOK, SessionInv, DiskAll, [Next]_vars, NEW f \in tiles
    PROVE  /\ \E g \in tiles' : KeyOf(g) = KeyOf(f) /\ g.width >= f.width
           /\ f.width = Width => f \in tiles'
  <1>0. f.width \in 1..Width /\ KeyOf(f) \in Keys
    BY FileFacts DEF TypeOK
  <1>1. CASE f \in tiles'
    BY <1>0, <1>1
  <1>2. CASE PruneVariant
    <2>1. PICK g \in doomed : tiles' = tiles \ {g}
      BY <1>2 DEF PruneVariant
    <2>2. SUFFICES ASSUME f = g
                   PROVE  /\ \E h \in tiles' : KeyOf(h) = KeyOf(f) /\ h.width >= f.width
                          /\ f.width # Width
      BY <1>1, <2>1
    <2>3. /\ KeyOf(f) \in Dirty(checkpoint, leaves) \ todo
          /\ f.width # Width /\ f # Wide(KeyOf(f), leaves)
          /\ f.width <= Held(KeyOf(f), leaves)
          /\ Wide(KeyOf(f), leaves) \in tiles
      BY <1>2, <2>2 DEF PruneVariant, DiskAll, DiskInv
    <2>4. Held(KeyOf(f), leaves) \in 1..Width
      BY <2>3, Sizes, DirtyWidth
    <2>5. /\ KeyOf(Wide(KeyOf(f), leaves)) = KeyOf(f)
          /\ Wide(KeyOf(f), leaves).width = Held(KeyOf(f), leaves)
      BY <1>0, <2>4, TileFacts DEF Wide
    <2>6. Wide(KeyOf(f), leaves) \in tiles'
      BY <2>1, <2>2, <2>3
    <2> QED BY <1>0, <2>3, <2>4, <2>5, <2>6
  <1>3. PruneVariant \/ tiles \subseteq tiles'
    BY DiskEffects DEF WriteTile, WriteCheckpoint
  <1> QED BY <1>1, <1>2, <1>3

(* A tile below the size read has hashes to be read. *)
LEMMA RCountPositive ==
    ASSUME NEW n \in 0..MaxLeaves, NEW s \in Nat, n * Width < s
    PROVE  Held(Key(0, n), s) > 0
  <1>1. Span[0] = 1 /\ Width \in Nat /\ Width > 1 /\ n * Width \in Nat
    BY TileAssumption, ConstantsHold DEF Constants
  <1>2. Key(0, n).level = 0 /\ Key(0, n).n = n
    BY DEF Key
  <1>3. s \div 1 = s
    OBVIOUS
  <1>4. Count(0, s) = s
    BY <1>1, <1>3 DEF Count
  <1> QED BY <1>1, <1>2, <1>4 DEF Held

(* The checkpoint only grows. *)
LEMMA CheckpointGrows ==
    ASSUME TypeOK, SessionInv, [Next]_vars
    PROVE  checkpoint \in Nat /\ checkpoint' \in Nat /\ checkpoint <= checkpoint'
  BY HistoryEffects, ConstantsHold DEF Constants, TypeOK

(* Steps of the writer. *)
LEMMA VerifyOvertaken ==
    ASSUME TypeOK, SessionInv, DiskAll, VerifyInv, VerifyFailsOnlyOvertaken,
           [Next]_vars, UNCHANGED reader
    PROVE  VerifyInv' /\ VerifyFailsOnlyOvertaken'
  <1>1. checkpoint \in Nat /\ checkpoint' \in Nat /\ checkpoint <= checkpoint'
    BY CheckpointGrows
  <1>2. /\ UNCHANGED <<rpc, rcp, rsize, rn, rbest>>
        /\ rcp \in Nat /\ rsize \in Nat /\ rbest \in Nat /\ rn \in 0..MaxLeaves
    BY ConstantsHold DEF Constants, TypeOK, reader
  <1>3. RKey' = RKey /\ RCount' = RCount /\ RKey \in Keys
    BY <1>2, RKeyIsKey DEF RKey, RCount
  <1>4. ASSUME NEW f \in tiles, NEW w \in Nat, KeyOf(f) = RKey, f.width >= w
        PROVE  \E g \in tiles' : KeyOf(g) = RKey /\ g.width >= w
    <2>1. PICK g \in tiles' : KeyOf(g) = KeyOf(f) /\ g.width >= f.width
      BY TilesWiden
    <2>2. f.width \in Nat /\ g.width \in Nat
      <3>1. f \in Files
        BY DEF TypeOK
      <3>2. g \in Files
        BY SessionStep DEF TypeOK
      <3> QED BY <3>1, <3>2, FileFacts, ConstantsHold DEF Constants
    <2> QED BY <1>4, <2>1, <2>2
  <1>5. VerifyInv'
    <2>1. /\ rpc # "idle" => 0 < rcp /\ rcp <= checkpoint'
          /\ rpc \in {"full", "exact", "scan", "best", "history"} =>
               rcp <= rsize /\ rsize <= checkpoint'
      BY <1>1, <1>2 DEF VerifyInv
    <2>2. rpc = "best" => \E f \in tiles' : KeyOf(f) = RKey /\ f.width >= rbest
      BY <1>2, <1>4 DEF VerifyInv
    <2> QED BY <1>2, <1>3, <2>1, <2>2 DEF VerifyInv
  <1>6. ASSUME rpc = "failed"
        PROVE  \/ checkpoint' > rcp
               \/ Tile(RKey, Width) \in tiles'
               \/ /\ rbest >= RCount
                  /\ \E f \in tiles' : KeyOf(f) = RKey /\ f.width > rbest
    <2>1. CASE checkpoint > rcp
      BY <1>1, <1>2, <2>1
    <2>2. CASE Tile(RKey, Width) \in tiles
      <3>1. Tile(RKey, Width).width = Width
        BY DEF Tile
      <3> QED BY <2>2, <3>1, TilesWiden
    <2>3. ASSUME rbest >= RCount, NEW f \in tiles, KeyOf(f) = RKey, f.width > rbest
          PROVE  \E g \in tiles' : KeyOf(g) = RKey /\ g.width > rbest
      <3>1. f.width \in Nat /\ f.width >= rbest + 1 /\ rbest + 1 \in Nat
        BY <1>2, <2>3, FileFacts, ConstantsHold DEF Constants, TypeOK
      <3>2. PICK g \in tiles' : KeyOf(g) = RKey /\ g.width >= rbest + 1
        BY <1>4, <2>3, <3>1
      <3>3. g.width \in Nat
        <4>1. g \in Files
          BY SessionStep, Zenon DEF TypeOK
        <4> QED BY <4>1, FileFacts, ConstantsHold DEF Constants
      <3> QED BY <1>2, <3>2, <3>3
    <2> QED BY <1>6, <2>1, <2>2, <2>3 DEF VerifyFailsOnlyOvertaken
  <1> QED BY <1>2, <1>3, <1>5, <1>6 DEF VerifyFailsOnlyOvertaken

(* Steps of the verifier. *)
LEMMA VerifyLooks ==
    ASSUME TypeOK, DiskAll, HistorySound, VerifyInv, VerifyFailsOnlyOvertaken, Verifier
    PROVE  VerifyInv' /\ VerifyFailsOnlyOvertaken'
  <1>0. Constants
    BY ConstantsHold
  <1>1. UNCHANGED <<tiles, checkpoint, history>>
    BY DEF Verifier, ReadCheckpoint, ReadSize, ReadFull, ReadExact, Scan,
           ReadBest, ReadHistory, VerifyReturns, disk
  <1>2. /\ rcp \in Nat /\ rsize \in Nat /\ rbest \in Nat /\ rn \in 0..MaxLeaves
        /\ checkpoint \in Nat
    BY <1>0 DEF Constants, TypeOK
  <1>3. RKey \in Keys /\ RCount \in 0..Width
    BY <1>2, RKeyIsKey, HeldFacts DEF RCount
  <1>4. CASE ReadCheckpoint
    BY <1>1, <1>2, <1>4 DEF ReadCheckpoint, VerifyInv, VerifyFailsOnlyOvertaken
  <1>5. CASE ReadSize
    <2>1. /\ rpc = "size" /\ rsize' = checkpoint /\ rn' = 0 /\ rpc' = "full"
          /\ rcp' = rcp /\ 0 < rcp /\ rcp <= checkpoint
      BY <1>5 DEF ReadSize, VerifyInv
    <2>2. Held(Key(0, 0), checkpoint) > 0
      BY <1>0, <1>2, <2>1, RCountPositive DEF Constants
    <2>3. RCount' > 0
      BY <2>1, <2>2 DEF RCount, RKey
    <2> QED BY <1>1, <1>2, <2>1, <2>3 DEF VerifyInv, VerifyFailsOnlyOvertaken
  <1>6. ASSUME NextTile, UNCHANGED <<rcp, rsize, rbest>>,
               rpc \in {"full", "exact", "scan", "best"}
        PROVE  VerifyInv' /\ VerifyFailsOnlyOvertaken'
    <2>1. 0 < rcp /\ rcp <= checkpoint /\ rcp <= rsize /\ rsize <= checkpoint
      BY <1>6 DEF VerifyInv
    <2>2. CASE (rn + 1) * Width < rsize
      <3>1. rn' = rn + 1 /\ rpc' = "full"
        BY <1>6, <2>2 DEF NextTile
      <3>2. rn + 1 \in 0..MaxLeaves
        BY <1>2, <2>2, NextTileBound DEF TypeOK
      <3>3. RCount' > 0
        BY <1>2, <1>6, <2>2, <3>1, <3>2, RCountPositive DEF RCount, RKey
      <3> QED BY <1>1, <1>6, <2>1, <3>1, <3>3 DEF VerifyInv, VerifyFailsOnlyOvertaken
    <2>3. CASE ~ ((rn + 1) * Width < rsize)
      <3>1. rpc' = "history"
        BY <1>6, <2>3 DEF NextTile
      <3> QED BY <1>1, <1>6, <2>1, <3>1 DEF VerifyInv, VerifyFailsOnlyOvertaken
    <2> QED BY <2>2, <2>3
  <1>7. ASSUME rpc \in {"full", "exact", "scan", "best"}
        PROVE  \E f \in tiles : KeyOf(f) = RKey /\ f.width \in 1..Width /\ f.width >= RCount
                                /\ f = Tile(RKey, f.width)
    <2>1. RCount > 0 /\ rsize <= checkpoint
      BY <1>7 DEF VerifyInv
    <2>2. /\ Held(RKey, checkpoint) \in 0..Width
          /\ RCount <= Held(RKey, checkpoint)
      BY <1>2, <1>3, <2>1, HeldFacts DEF RCount
    <2>3. Held(RKey, checkpoint) > 0
      BY <1>3, <2>1, <2>2
    <2>4. PICK f \in tiles : KeyOf(f) = RKey /\ f.width >= Held(RKey, checkpoint)
      BY <1>3, <2>3 DEF DiskAll, CommittedReadable, Readable
    <2>5. f.width \in 1..Width /\ f = Tile(KeyOf(f), f.width)
      BY FileFacts DEF TypeOK
    <2> QED BY <1>3, <2>2, <2>4, <2>5
  <1>8. ASSUME rpc \in {"full", "exact", "scan", "best"},
               UNCHANGED <<rcp, rsize, rn>>
        PROVE  /\ RKey' = RKey /\ RCount' = RCount /\ RCount > 0
               /\ 0 < rcp' /\ rcp' <= checkpoint' /\ rcp' <= rsize' /\ rsize' <= checkpoint'
    BY <1>1, <1>8 DEF RKey, RCount, VerifyInv
  <1>9. CASE ReadFull
    <2>1. rpc = "full" /\ UNCHANGED <<rcp, rsize, rbest>>
      BY <1>9 DEF ReadFull
    <2>2. CASE Tile(RKey, Width) \in tiles
      BY <1>6, <1>9, <2>1, <2>2 DEF ReadFull
    <2>3. CASE Tile(RKey, Width) \notin tiles
      <3>1. RCount < Width
        BY <1>0, <1>3, <1>7, <2>1, <2>3 DEF Constants
      <3>2. rpc' = "exact" /\ UNCHANGED rn
        BY <1>9, <2>3, <3>1 DEF ReadFull
      <3> QED BY <1>8, <2>1, <3>1, <3>2 DEF VerifyInv, VerifyFailsOnlyOvertaken
    <2> QED BY <2>2, <2>3
  <1>10. CASE ReadExact
    <2>1. rpc = "exact" /\ UNCHANGED <<rcp, rsize, rbest>>
      BY <1>10 DEF ReadExact
    <2>2. CASE Tile(RKey, RCount) \in tiles
      BY <1>6, <1>10, <2>1, <2>2 DEF ReadExact
    <2>3. CASE Tile(RKey, RCount) \notin tiles
      <3>1. rpc' = "scan" /\ UNCHANGED rn /\ RCount < Width
        BY <1>10, <2>1, <2>3 DEF ReadExact, VerifyInv
      <3> QED BY <1>8, <2>1, <3>1 DEF VerifyInv, VerifyFailsOnlyOvertaken
    <2> QED BY <2>2, <2>3
  <1>11. CASE Scan
    <2>1. rpc = "scan" /\ UNCHANGED <<rcp, rsize, rn>> /\ RCount < Width
      BY <1>11 DEF Scan, VerifyInv
    <2>2. CASE rpc' = "failed" /\ {f \in Variants(RKey) : f.width >= RCount} = {}
      <3>1. PICK f \in tiles : /\ KeyOf(f) = RKey /\ f.width >= RCount
                               /\ f = Tile(RKey, f.width)
        BY <1>7, <2>1
      <3>2. f.width = Width
        BY <2>2, <3>1 DEF Variants
      <3>3. Tile(RKey, Width) \in tiles
        BY <3>1, <3>2
      <3> QED BY <1>1, <1>8, <2>1, <2>2, <3>3 DEF VerifyInv, VerifyFailsOnlyOvertaken
    <2>3. ASSUME NEW f \in Variants(RKey), f.width >= RCount, rbest' = f.width, rpc' = "best"
          PROVE  VerifyInv' /\ VerifyFailsOnlyOvertaken'
      <3>1. f \in tiles /\ KeyOf(f) = RKey /\ f.width \in 1..Width
        BY FileFacts DEF Variants, TypeOK
      <3>2. RCount' <= rbest' /\ f.width >= rbest'
        BY <1>3, <1>8, <2>1, <2>3, <3>1
      <3> QED BY <1>1, <1>8, <2>1, <2>3, <3>1, <3>2 DEF VerifyInv, VerifyFailsOnlyOvertaken
    <2> QED BY <1>11, <2>2, <2>3 DEF Scan
  <1>12. CASE ReadBest
    <2>1. rpc = "best" /\ UNCHANGED <<rcp, rsize, rbest>>
      BY <1>12 DEF ReadBest
    <2>2. CASE Tile(RKey, rbest) \in tiles
      BY <1>6, <1>12, <2>1, <2>2 DEF ReadBest
    <2>3. CASE Tile(RKey, rbest) \notin tiles
      <3>1. rpc' = "failed" /\ UNCHANGED rn
        BY <1>12, <2>3 DEF ReadBest
      <3>2. PICK f \in tiles : KeyOf(f) = RKey /\ f.width >= rbest
        BY <2>1 DEF VerifyInv
      <3>3. f.width \in 1..Width /\ f = Tile(RKey, f.width)
        BY <3>2, FileFacts DEF TypeOK
      <3>4. f.width > rbest
        BY <1>2, <2>3, <3>2, <3>3
      <3>5. rbest >= RCount
        BY <1>2, <1>3, <2>1 DEF VerifyInv
      <3> QED BY <1>1, <1>8, <2>1, <3>1, <3>2, <3>4, <3>5 DEF VerifyInv, VerifyFailsOnlyOvertaken
    <2> QED BY <2>2, <2>3
  <1>13. CASE ReadHistory
    <2>1. /\ rpc = "history" /\ 0 < rcp /\ rcp <= checkpoint
          /\ rcp <= rsize /\ rsize <= checkpoint
      BY <1>13 DEF ReadHistory, VerifyInv
    <2>2. CASE rsize = rcp /\ \A i \in 1..Len(history) : history[i] <= rsize
      BY <1>13, <2>2 DEF ReadHistory, VerifyEnds, VerifyInv, VerifyFailsOnlyOvertaken
    <2>3. CASE ~ (rsize = rcp /\ \A i \in 1..Len(history) : history[i] <= rsize)
      <3>1. rpc' = "failed" /\ rcp' = rcp
        BY <1>13, <2>3 DEF ReadHistory
      <3>2. \A i \in 1..Len(history) : history[i] \in Nat /\ history[i] <= checkpoint
        BY <1>0 DEF Constants, TypeOK, HistorySound
      <3>3. checkpoint > rcp
        BY <1>2, <2>1, <2>3, <3>2
      <3> QED BY <1>1, <2>1, <3>1, <3>3 DEF VerifyInv, VerifyFailsOnlyOvertaken
    <2> QED BY <2>2, <2>3
  <1>14. CASE VerifyReturns
    BY <1>14 DEF VerifyReturns, VerifyEnds, VerifyInv, VerifyFailsOnlyOvertaken
  <1> QED BY <1>4, <1>5, <1>9, <1>10, <1>11, <1>12, <1>13, <1>14 DEF Verifier

(* A verification that reports a failure has been overtaken by an export: a   *)
(* log at rest, whatever crashes it has been through, verifies.               *)
THEOREM VerifyFailsOnlyOvertakenHolds == Spec => []VerifyFailsOnlyOvertaken
  <1> DEFINE V == VerifyInv /\ VerifyFailsOnlyOvertaken
  <1>1. Init => V
    BY DEF Init, VerifyInv, VerifyFailsOnlyOvertaken
  <1>2. TypeOK /\ SessionInv /\ DiskAll /\ HistorySound /\ V /\ [Next]_vars => V'
    <2> SUFFICES ASSUME TypeOK, SessionInv, DiskAll, HistorySound, V, [Next]_vars
                 PROVE  V'
      OBVIOUS
    <2>1. CASE Verifier
      BY <2>1, VerifyLooks
    <2>2. CASE ~ Verifier
      <3>1. UNCHANGED reader
        BY <2>2 DEF Next, Writer, CommitData, RecordDataCommitted, Open, WriteTile,
                    PruneVariant, WriteCheckpoint, AppendHistory, TearHistory, GiveUp,
                    vars, reader
      <3> QED BY <3>1, VerifyOvertaken, Zenon
    <2> QED BY <2>1, <2>2
  <1>3. V => VerifyFailsOnlyOvertaken
    OBVIOUS
  <1> QED BY <1>1, <1>2, <1>3, TypeCorrect, DiskCorrect, HistorySoundHolds, PTL DEF Spec
=============================================================================
