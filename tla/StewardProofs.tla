---------------------------- MODULE StewardProofs ----------------------------
(***************************************************************************)
(* Proofs about Steward, for every set of processes and every number of     *)
(* transactions.                                                            *)
(***************************************************************************)
EXTENDS Steward, TLAPS

TxnPcs == WritePcs \cup CompactPcs

(* What makes MaxOf mean something: no finiteness argument is needed, since  *)
(* the sets only ever grow by one element.                                   *)
HasMax(S) == \E m \in S : \A x \in S : x <= m
Seqs == {c.seq : c \in commits}
Versions(n) == {0} \cup {leaves[i].ver : i \in 1..n}

MaxInv ==
    /\ HasMax(Seqs)
    /\ \A n \in 0..Len(leaves) : HasMax(Versions(n))

(* A process that runs a transaction has been given an identity for it. *)
TypeInv ==
    /\ TypeOK
    /\ MaxInv
    /\ \A p \in Procs : pc[p] \in TxnPcs => txn[p].txn \in TxnIds

(* write.lock: held by exactly the process that is at a step that needs it,  *)
(* and by one process at most.                                               *)
LockInv ==
    /\ \A p \in Procs : p \in lock <=> pc[p] \in LockedPcs
    /\ \A p, q \in lock : p = q

(* The steps between the freeze check of a writer and the end of its work. *)
AdmittedPcs == TxnPcs \ {"w_locked", "c_locked"}

(* A freeze and an admitted writer exclude each other, and the tip that      *)
(* freeze_writes has read stays the tip until it is marked.                  *)
FreezeInv ==
    /\ FrozenTip
    /\ freeze # NotFrozen => \A p \in Procs : pc[p] \notin AdmittedPcs
    /\ \A p \in Procs : pc[p] = "z_tip" => tip[p] \in Tips(Len(leaves))

(* Where a transaction has its Begin row and no commit yet; where it has no  *)
(* commit yet.                                                               *)
BegunPcs == {"begun", "open", "f_begun", "c_begun"}
UncommittedPcs == BegunPcs \cup {"w_locked", "begin", "c_locked", "c_begin"}

(* A txn_id is used once: no commit and no Failed row carries one that is    *)
(* yet to be given out, or that belongs to a transaction still to commit.    *)
(* Every leaf has its commit, and an optimize under way has no leaf.         *)
DataInv ==
    /\ AuditTrail
    /\ FailedMeansNoData
    /\ \A i \in DOMAIN leaves : \E c \in commits : c.txn = leaves[i].txn
    /\ \A c \in commits : c.txn < nextTxn
    /\ \A r \in ctl : r.kind = "Failed" => r.txn < nextTxn
    /\ \A p \in Procs :
         /\ pc[p] \in TxnPcs => txn[p].txn < nextTxn
         /\ pc[p] \in BegunPcs => Row("Begin", txn[p]) \in ctl
         /\ pc[p] \in UncommittedPcs =>
              /\ \A c \in commits : c.txn # txn[p].txn
              /\ \A r \in ctl : r.kind = "Failed" => r.txn # txn[p].txn
         /\ pc[p] = "c_altered" => \A i \in DOMAIN leaves : leaves[i].txn # txn[p].txn

-----------------------------------------------------------------------------
(* The maximum of a set that has one. *)
LEMMA MaxOfFact ==
    ASSUME NEW S \in SUBSET Nat, HasMax(S)
    PROVE  MaxOf(S) \in S /\ \A x \in S : x <= MaxOf(S)
BY DEF HasMax, MaxOf

(* A set that has a maximum still has one with one more element. *)
LEMMA MaxOfMore ==
    ASSUME NEW S \in SUBSET Nat, HasMax(S), NEW x \in Nat
    PROVE  HasMax(S \cup {x})
<1>1. PICK m \in S : \A y \in S : y <= m
  BY DEF HasMax
<1>2. CASE x <= m
  BY <1>1, <1>2 DEF HasMax
<1>3. CASE ~ (x <= m)
  BY <1>1, <1>3 DEF HasMax
<1>4. QED
  BY <1>2, <1>3

(* A sequence with one more element. *)
LEMMA AppendFacts ==
    ASSUME NEW S, NEW s \in Seq(S), NEW e \in S
    PROVE  /\ Append(s, e) \in Seq(S)
           /\ Len(Append(s, e)) = Len(s) + 1
           /\ DOMAIN Append(s, e) = 1..(Len(s) + 1)
           /\ Append(s, e)[Len(s) + 1] = e
           /\ \A i \in 1..Len(s) : Append(s, e)[i] = s[i]
           /\ Append(s, e) = [i \in 1..(Len(s) + 1) |-> Append(s, e)[i]]
<1>1. /\ Append(s, e) \in Seq(S)
      /\ Len(Append(s, e)) = Len(s) + 1
      /\ Append(s, e)[Len(s) + 1] = e
      /\ \A i \in 1..Len(s) : Append(s, e)[i] = s[i]
  OBVIOUS
<1> DEFINE t == Append(s, e)
<1> HIDE DEF t
<1>2. t \in Seq(S) => DOMAIN t = 1..Len(t) /\ t = [i \in 1..Len(t) |-> t[i]]
  OBVIOUS
<1>3. QED
  BY <1>1, <1>2 DEF t

(* A function on an initial segment is a sequence. *)
LEMMA SegmentIsSeq ==
    ASSUME NEW S, NEW n \in Nat, NEW f \in [1..n -> S]
    PROVE  f \in Seq(S) /\ Len(f) = n
OBVIOUS

(* The leaves of the commit log have their type. *)
LEMMA LeafType ==
    ASSUME TypeOK
    PROVE  /\ Len(leaves) \in Nat
           /\ DOMAIN leaves = 1..Len(leaves)
           /\ \A i \in 1..Len(leaves) :
                leaves[i] \in [ver : Nat, txn : TxnIds, parent : {NoTxn} \cup TxnIds]
<1> DEFINE Leaf == [ver : Nat, txn : TxnIds, parent : {NoTxn} \cup TxnIds]
<1>1. leaves \in Seq(Leaf)
  BY DEF TypeOK
<1> HIDE DEF Leaf
<1>2. /\ Len(leaves) \in Nat
      /\ DOMAIN leaves = 1..Len(leaves)
      /\ \A i \in 1..Len(leaves) : leaves[i] \in Leaf
  BY <1>1
<1>3. QED
  BY <1>2 DEF Leaf

(* A lifecycle row of a transaction is a row. *)
LEMMA RowType ==
    ASSUME NEW kind \in RecordKinds,
           NEW x \in [seq : Nat, txn : {NoTxn} \cup TxnIds]
    PROVE  Row(kind, x) \in Rows
BY DEF Row, Rows

(* Recording rows keeps the control table and the snapshot typed. *)
LEMMA RecordType ==
    ASSUME TypeOK, NEW p \in Procs, NEW rows \in SUBSET Rows, Record(p, rows)
    PROVE  ctl' \subseteq Rows /\ pending' \in [Procs -> SUBSET Rows]
<1>1. ctl' \subseteq Rows
  BY DEF Record, TypeOK
<1>2. Incomplete(ctl') \in SUBSET Rows
  BY <1>1 DEF Incomplete
<1>3. QED
  BY <1>1, <1>2 DEF Record, TypeOK

(* The row of a process's own transaction, written or not. *)
LEMMA RecordOrNotType ==
    ASSUME TypeOK, NEW p \in Procs, NEW kind \in RecordKinds,
           RecordOrNot(p, Row(kind, txn[p]))
    PROVE  ctl' \subseteq Rows /\ pending' \in [Procs -> SUBSET Rows]
<1>1. Row(kind, txn[p]) \in Rows
  BY RowType DEF TypeOK
<1>2. PICK rows \in {{}, {Row(kind, txn[p])}} : Record(p, rows)
  BY DEF RecordOrNot
<1>3. rows \in SUBSET Rows
  BY <1>1
<1>4. QED
  BY <1>2, <1>3, RecordType

(* The version a commit-log leaf is put on top of. *)
LEMMA TopVersionFact ==
    ASSUME TypeOK, MaxInv, NEW n \in 0..Len(leaves)
    PROVE  /\ TopVersion(n) \in Nat
           /\ TopVersion(n) \in Versions(n)
           /\ \A x \in Versions(n) : x <= TopVersion(n)
           /\ Tips(n) \subseteq {NoTxn} \cup TxnIds
<1> DEFINE Leaf == [ver : Nat, txn : TxnIds, parent : {NoTxn} \cup TxnIds]
<1>0. leaves \in Seq(Leaf) /\ Len(leaves) \in Nat
  BY DEF TypeOK
<1>1. \A i \in 1..n : leaves[i] \in Leaf
  <2> HIDE DEF Leaf
  <2>1. QED
    BY <1>0
<1>2. Versions(n) \in SUBSET Nat
  BY <1>1 DEF Versions
<1>3. TopVersion(n) = MaxOf(Versions(n))
  BY DEF TopVersion, Versions
<1>4. TopVersion(n) \in Versions(n) /\ \A x \in Versions(n) : x <= TopVersion(n)
  BY <1>2, <1>3, MaxOfFact DEF MaxInv
<1>5. Tips(n) \subseteq {NoTxn} \cup TxnIds
  BY <1>1 DEF Tips
<1>6. QED
  BY <1>2, <1>4, <1>5

(* The largest sequence of the Delta history. *)
LEMMA LastTxnSeqFact ==
    ASSUME TypeOK, MaxInv
    PROVE  LastTxnSeq \in Nat /\ \A c \in commits : c.seq <= LastTxnSeq
<1>1. Seqs \in SUBSET Nat
  BY DEF TypeOK, Seqs
<1>2. LastTxnSeq = MaxOf(Seqs)
  BY DEF LastTxnSeq, Seqs
<1>3. LastTxnSeq \in Seqs /\ \A x \in Seqs : x <= LastTxnSeq
  BY <1>1, <1>2, MaxOfFact DEF MaxInv
<1>4. QED
  BY <1>1, <1>3 DEF Seqs

(* A Delta commit with a leaf keeps the data table typed. *)
LEMMA DeltaCommitType ==
    ASSUME TypeOK, MaxInv, NEW x \in [seq : Nat, txn : TxnIds],
           NEW n \in 0..Len(leaves), DeltaCommit(x, n)
    PROVE  /\ commits' \subseteq [seq : Nat, txn : {NoTxn} \cup TxnIds]
           /\ leaves' \in Seq([ver : Nat, txn : TxnIds, parent : {NoTxn} \cup TxnIds])
           /\ Len(leaves') = Len(leaves) + 1
           /\ leaves'[Len(leaves')].txn = x.txn
           /\ \A i \in 1..Len(leaves) : leaves'[i] = leaves[i]
           /\ commits' = commits \cup {x}
           /\ MaxInv'
<1> DEFINE Leaf == [ver : Nat, txn : TxnIds, parent : {NoTxn} \cup TxnIds]
<1>1. PICK parent \in Tips(n) :
        leaves' = Append(leaves, [ver |-> TopVersion(n) + 1, txn |-> x.txn,
                                  parent |-> parent])
  BY DEF DeltaCommit
<1>2. [ver |-> TopVersion(n) + 1, txn |-> x.txn, parent |-> parent] \in Leaf
  BY <1>1, TopVersionFact
<1>3. leaves \in Seq(Leaf)
  BY DEF TypeOK
<1> HIDE DEF Leaf
<1>4. /\ leaves' \in Seq(Leaf)
      /\ Len(leaves') = Len(leaves) + 1
      /\ leaves'[Len(leaves')] = [ver |-> TopVersion(n) + 1, txn |-> x.txn, parent |-> parent]
      /\ \A i \in 1..Len(leaves) : leaves'[i] = leaves[i]
  BY <1>1, <1>2, <1>3
<1>5. commits' = commits \cup {x}
  BY DEF DeltaCommit
<1>6. commits' \subseteq [seq : Nat, txn : {NoTxn} \cup TxnIds]
  BY <1>5 DEF TypeOK
<1>7. HasMax(Seqs')
  <2>1. Seqs' = Seqs \cup {x.seq}
    BY <1>5 DEF Seqs
  <2>2. Seqs \in SUBSET Nat
    BY DEF Seqs, TypeOK
  <2>3. QED
    BY <2>1, <2>2, MaxOfMore DEF MaxInv
<1>8. ASSUME NEW m \in 0..Len(leaves')
      PROVE  HasMax(Versions(m)')
  <2>1. Len(leaves) \in Nat
    BY <1>3
  <2>2. CASE m \in 0..Len(leaves)
    <3>1. \A i \in 1..m : leaves'[i].ver = leaves[i].ver
      BY <1>4, <2>1, <2>2
    <3>2. Versions(m)' = Versions(m)
      BY <3>1 DEF Versions
    <3>3. QED
      BY <2>2, <3>2 DEF MaxInv
  <2>3. CASE m = Len(leaves) + 1
    <3> DEFINE k == Len(leaves)
    <3>1. \A i \in 1..k : leaves'[i].ver = leaves[i].ver
      BY <1>4
    <3>2. leaves'[k + 1].ver = TopVersion(n) + 1
      BY <1>4
    <3>3. 1..(k + 1) = (1..k) \cup {k + 1}
      BY <2>1
    <3>4. Versions(m)' = Versions(k) \cup {TopVersion(n) + 1}
      <4>1. {leaves'[i].ver : i \in 1..(k + 1)}
              = {leaves'[i].ver : i \in 1..k} \cup {leaves'[k + 1].ver}
        BY <3>3
      <4>2. {leaves'[i].ver : i \in 1..k} = {leaves[i].ver : i \in 1..k}
        BY <3>1
      <4>3. QED
        BY <2>3, <3>2, <4>1, <4>2 DEF Versions
    <3>5. Versions(k) \in SUBSET Nat /\ HasMax(Versions(k))
      <4>1. \A i \in 1..k : leaves[i] \in Leaf
        BY <1>3
      <4>2. \A i \in 1..k : leaves[i].ver \in Nat
        BY <4>1 DEF Leaf
      <4>3. QED
        BY <2>1, <4>2 DEF Versions, MaxInv
    <3>6. TopVersion(n) + 1 \in Nat
      BY TopVersionFact
    <3>7. QED
      BY <3>4, <3>5, <3>6, MaxOfMore
  <2>4. QED
    BY <1>4, <2>1, <2>2, <2>3
<1>9. MaxInv'
  BY <1>7, <1>8 DEF MaxInv
<1>10. QED
  BY <1>4, <1>5, <1>6, <1>9 DEF Leaf

-----------------------------------------------------------------------------
(* The initial state is well typed. *)
LEMMA TypeInit == Init => TypeInv
<1> SUFFICES ASSUME Init PROVE TypeInv
  OBVIOUS
<1>1. Genesis \in [seq : Nat \ {0}, txn : {NoTxn} \cup TxnIds]
  BY DEF Genesis
<1>2. ctl \subseteq Rows
  BY <1>1, RowType DEF Init, RecordKinds
<1>3. TypeOK
  BY <1>1, <1>2, StewardAssumption DEF Init, TypeOK, Pcs
<1>4. HasMax(Seqs)
  BY DEF Init, Genesis, HasMax, Seqs
<1>5. \A n \in 0..Len(leaves) : HasMax(Versions(n))
  BY DEF Init, HasMax, Versions
<1>6. QED
  BY <1>3, <1>4, <1>5 DEF TypeInv, MaxInv, Init, TxnPcs, WritePcs, CompactPcs

(* The facts about sequences and versions depend on the data table only. *)
LEMMA MaxStable == MaxInv /\ UNCHANGED store => MaxInv'
BY DEF MaxInv, store, Seqs, Versions

(* A step keeps the types. *)
LEMMA TypeStep == TypeInv /\ [Next]_vars => TypeInv'
<1> SUFFICES ASSUME TypeInv, [Next]_vars
             PROVE  TypeInv'
  OBVIOUS
<1>0. TypeOK /\ MaxInv /\ \A p \in Procs : pc[p] \in TxnPcs => txn[p].txn \in TxnIds
  BY DEF TypeInv
<1>a. Genesis \in [seq : Nat \ {0}, txn : {NoTxn} \cup TxnIds]
  BY DEF Genesis
<1>1. ASSUME NEW p \in Procs, Step(p)
      PROVE  TypeInv'
  <2> DEFINE Typed == TypeOK' /\ \A q \in Procs : pc'[q] \in TxnPcs => txn'[q].txn \in TxnIds
  <2>a. UNCHANGED store /\ Typed => TypeInv'
    BY <1>0, MaxStable DEF TypeInv
  <2>b. txn[p] \in [seq : Nat, txn : {NoTxn} \cup TxnIds]
    BY <1>0 DEF TypeOK
  <2> DEFINE TxnRec == [seq : Nat \ {0}, txn : {NoTxn} \cup TxnIds]
  <2>c. ASSUME Leave(p)
        PROVE  /\ pc' \in [Procs -> Pcs] /\ lock' \in SUBSET Procs
               /\ txn' \in [Procs -> TxnRec] /\ todo' = todo
               /\ tip' \in [Procs -> {NoTxn} \cup TxnIds]
               /\ \A q \in Procs : pc'[q] \in TxnPcs => txn'[q].txn \in TxnIds
    <3>1. "idle" \in Pcs \ TxnPcs
      BY DEF Pcs, TxnPcs, WritePcs, CompactPcs
    <3>2. /\ pc' \in [Procs -> Pcs] /\ lock' \in SUBSET Procs /\ todo' = todo
          /\ tip' \in [Procs -> {NoTxn} \cup TxnIds]
      BY <1>0, <2>c, <3>1 DEF Leave, Goto, TypeOK
    <3>3. txn' \in [Procs -> TxnRec]
      BY <1>0, <1>a, <2>c DEF Leave, TypeOK
    <3>4. \A q \in Procs : pc'[q] \in TxnPcs => txn'[q].txn \in TxnIds
      <4>1. \A q \in Procs : q # p => pc'[q] = pc[q] /\ txn'[q] = txn[q]
        BY <1>0, <2>c DEF Leave, Goto, TypeOK
      <4>2. pc'[p] \notin TxnPcs
        BY <1>0, <2>c, <3>1 DEF Leave, Goto, TypeOK
      <4>3. QED
        BY <1>0, <4>1, <4>2
    <3>5. QED
      BY <3>2, <3>3, <3>4
  <2> USE DEF Goto, store, ship, control, local, Pcs, LockedPcs, WritePcs,
              CompactPcs, FreezePcs, TxnPcs
  <2>1. CASE OpenControl(p)
    <3>1. Incomplete(ctl) \subseteq Rows
      BY <1>0 DEF TypeOK, Incomplete
    <3>2. QED
      BY <1>0, <2>1, <2>a, <3>1 DEF OpenControl, TypeOK
  <2>2. CASE OpenData(p)
    BY <1>0, <2>2, <2>a, LastTxnSeqFact, SMTT(40) DEF OpenData, TypeOK
  <2>3. CASE Exit(p)
    BY <1>0, <1>a, <2>3, <2>a DEF Exit, TypeOK
  <2>4. CASE BeginWrite(p) \/ CompactLock(p)
    <3>1. [seq |-> lastWriteSeq[p] + 1, txn |-> nextTxn] \in
              [seq : Nat \ {0}, txn : {NoTxn} \cup TxnIds]
      BY <1>0, <2>4, StewardAssumption DEF BeginWrite, CompactLock, TryAcquire, TypeOK, TxnIds
    <3>2. nextTxn \in TxnIds /\ nextTxn + 1 \in 1..(MaxTxns + 1)
      BY <1>0, <2>4, StewardAssumption DEF BeginWrite, CompactLock, TryAcquire, TypeOK, TxnIds
    <3>3. QED
      <4>1. TryAcquire(p, "w_locked") \/ TryAcquire(p, "c_locked")
        BY <2>4 DEF BeginWrite, CompactLock
      <4>2. txn' \in [Procs -> TxnRec]
        BY <1>0, <3>1, <4>1, ZenonT(60) DEF TryAcquire, TypeOK
      <4>3. \A q \in Procs : pc'[q] \in TxnPcs => txn'[q].txn \in TxnIds
        <5>1. \A q \in Procs : q # p => pc'[q] = pc[q] /\ txn'[q] = txn[q]
          BY <1>0, <4>1 DEF TryAcquire, TypeOK
        <5>2. txn'[p].txn = nextTxn
          BY <1>0, <4>1 DEF TryAcquire, TypeOK
        <5>3. QED
          BY <1>0, <3>2, <5>1, <5>2
      <4>4. TypeOK'
        <5>1. pc' \in [Procs -> Pcs] /\ lock' \in SUBSET Procs
          BY <1>0, <4>1 DEF TryAcquire, TypeOK
        <5>2. nextTxn' \in 1..(MaxTxns + 1)
          BY <3>2, <4>1 DEF TryAcquire
        <5>3. UNCHANGED <<store, control, freeze, ship, todo, tip>>
          BY <4>1 DEF TryAcquire
        <5>4. QED
          BY <1>0, <4>2, <5>1, <5>2, <5>3 DEF TypeOK
      <4>5. QED
        BY <2>a, <4>1, <4>3, <4>4 DEF TryAcquire
  <2>5. CASE FreezeLock(p) \/ UnfreezeLock(p)
    BY <1>0, <2>5, <2>a DEF FreezeLock, UnfreezeLock, LockOnly, TypeOK
  <2>6. CASE RecoverStart(p) \/ RecoverReturns(p)
    BY <1>0, <2>6, <2>a, ZenonT(60) DEF RecoverStart, RecoverReturns, TypeOK
  <2>7. CASE RecoverStep(p)
    <3>1. PICK r \in todo[p] :
            /\ Record(p, {Row("Completed", r)})
            /\ todo' = [todo EXCEPT ![p] = @ \ {r}]
            /\ Goto(p, IF todo[p] = {r} THEN "verify" ELSE "recover")
      BY <2>7 DEF RecoverStep
    <3>2. r \in Rows
      BY <1>0 DEF TypeOK
    <3>3. {Row("Completed", r)} \subseteq Rows
      BY <3>2 DEF Row, Rows, RecordKinds
    <3>4. ctl' \subseteq Rows /\ pending' \in [Procs -> SUBSET Rows]
      BY <1>0, <3>1, <3>3, RecordType
    <3>5. QED
      BY <1>0, <2>7, <2>a, <3>1, <3>4 DEF RecoverStep, TypeOK
  <2>8. CASE \/ RejectFrozen(p) \/ RecordBeginFails(p) \/ CompactReturns(p)
             \/ RecordDataCommittedFails(p) \/ Finish(p) \/ FreezeReturns(p)
    BY <1>0, <2>8, <2>a, <2>c DEF RejectFrozen, RecordBeginFails, FreezeReturns,
         RecordDataCommittedFails, Finish, CompactReturns, TypeOK
  <2>21. CASE AdmitWrite(p) \/ DataBegin(p) \/ AdmitCompact(p)
    BY <1>0, <2>21, <2>a DEF AdmitWrite, DataBegin, AdmitCompact, TypeOK
  <2>9. CASE \/ RecordBegin(p) \/ CompactBegin(p) \/ RecordDataCommitted(p)
    <3>1. \A k \in RecordKinds : {Row(k, txn[p])} \in SUBSET Rows
      BY <2>b, RowType
    <3>2. ctl' \subseteq Rows /\ pending' \in [Procs -> SUBSET Rows]
      BY <1>0, <2>9, <3>1, RecordType DEF RecordBegin, CompactBegin,
           RecordDataCommitted, RecordKinds
    <3>3. QED
      BY <1>0, <2>9, <2>a, <3>2, ZenonT(60) DEF RecordBegin, CompactBegin,
           RecordDataCommitted, TypeOK
  <2>10. CASE \/ DataBeginFails(p) \/ RollBack(p) \/ CommitNoop(p)
              \/ FactoryFails(p) \/ FactoryNoop(p)
    <3>1. ctl' \subseteq Rows /\ pending' \in [Procs -> SUBSET Rows]
      BY <1>0, <2>10, RecordOrNotType DEF DataBeginFails, RollBack, CommitNoop,
           FactoryFails, FactoryNoop, RecordKinds
    <3>2. CASE FactoryFails(p) \/ FactoryNoop(p)
      BY <1>0, <2>a, <3>1, <3>2 DEF FactoryFails, FactoryNoop, TypeOK
    <3>3. CASE DataBeginFails(p) \/ RollBack(p) \/ CommitNoop(p)
      <4>1. Leave(p) /\ UNCHANGED <<store, freeze, nextTxn, snap>>
        BY <3>3 DEF DataBeginFails, RollBack, CommitNoop
      <4>2. lastWriteSeq' \in [Procs -> Nat] /\ dataSeq' \in [Procs -> Nat]
        <5>1. CASE DataBeginFails(p)
          BY <1>0, <5>1 DEF DataBeginFails, TypeOK
        <5>2. CASE RollBack(p)
          BY <1>0, <2>b, <5>2 DEF RollBack, TypeOK
        <5>3. CASE CommitNoop(p)
          BY <1>0, <2>b, <5>3 DEF CommitNoop, TypeOK
        <5>4. QED
          BY <3>3, <5>1, <5>2, <5>3
      <4>3. QED
        BY <1>0, <2>a, <2>c, <3>1, <4>1, <4>2 DEF TypeOK
    <3>4. QED
      BY <2>10, <3>2, <3>3
  <2>11. CASE CommitData(p)
    <3>1. txn[p] \in [seq : Nat, txn : TxnIds] /\ snap[p] \in 0..Len(leaves)
      BY <1>0, <2>11 DEF CommitData, TypeOK
    <3>2. DeltaCommit(txn[p], snap[p])
      BY <2>11 DEF CommitData
    <3>3. /\ commits' \subseteq [seq : Nat, txn : {NoTxn} \cup TxnIds]
          /\ leaves' \in Seq([ver : Nat, txn : TxnIds, parent : {NoTxn} \cup TxnIds])
          /\ Len(leaves') = Len(leaves) + 1
          /\ MaxInv'
      BY <1>0, <3>1, <3>2, DeltaCommitType
    <3>4. Len(leaves) \in Nat
      BY <1>0 DEF TypeOK
    <3>5. QED
      BY <1>0, <2>11, <3>3, <3>4, SMTT(40) DEF CommitData, TypeOK, TypeInv
  <2>12. CASE FactoryCommit(p)
    <3>1. txn[p] \in [seq : Nat, txn : TxnIds] /\ Len(leaves) \in 0..Len(leaves)
      BY <1>0, <2>12 DEF FactoryCommit, TypeOK
    <3>2. DeltaCommit(txn[p], Len(leaves))
      BY <2>12 DEF FactoryCommit
    <3>3. /\ commits' \subseteq [seq : Nat, txn : {NoTxn} \cup TxnIds]
          /\ leaves' \in Seq([ver : Nat, txn : TxnIds, parent : {NoTxn} \cup TxnIds])
          /\ Len(leaves') = Len(leaves) + 1
          /\ MaxInv'
      BY <1>0, <3>1, <3>2, DeltaCommitType
    <3>5. QED
      BY <1>0, <2>12, <3>1, <3>3, SMTT(40) DEF FactoryCommit, TypeOK, TypeInv
  <2>13. CASE FactoryBegin(p)
    <3>1. [seq |-> LastTxnSeq + 1, txn |-> nextTxn] \in
              [seq : Nat \ {0}, txn : {NoTxn} \cup TxnIds]
      BY <1>0, <2>13, StewardAssumption, LastTxnSeqFact, SMTT(40) DEF FactoryBegin, TypeOK, TxnIds
    <3>2. nextTxn \in TxnIds /\ nextTxn + 1 \in 1..(MaxTxns + 1)
      BY <1>0, <2>13, StewardAssumption DEF FactoryBegin, TypeOK, TxnIds
    <3>3. txn'[p] = [seq |-> LastTxnSeq + 1, txn |-> nextTxn]
      BY <1>0, <2>13 DEF FactoryBegin, TypeOK
    <3>4. {Row("Begin", txn'[p])} \in SUBSET Rows
      BY <3>1, <3>3, RowType DEF RecordKinds
    <3>5. ctl' \subseteq Rows /\ pending' \in [Procs -> SUBSET Rows]
      BY <1>0, <2>13, <3>4, RecordType DEF FactoryBegin
    <3>6. QED
      BY <1>0, <2>13, <2>a, <3>1, <3>2, <3>5 DEF FactoryBegin, TypeOK
  <2>14. CASE RecordFactory(p)
    <3>1. {} \in SUBSET Rows
          /\ {Row(k, txn[p]) : k \in {"DataCommitted", "Completed"}} \in SUBSET Rows
      BY <2>b, RowType DEF RecordKinds
    <3>2. ctl' \subseteq Rows /\ pending' \in [Procs -> SUBSET Rows]
      BY <1>0, <2>14, <3>1, RecordType DEF RecordFactory
    <3>3. QED
      BY <1>0, <2>14, <2>a, <3>2 DEF RecordFactory, TypeOK
  <2>15. CASE CompactNothing(p)
    <3>1. {Row("Completed", txn[p])} \in SUBSET Rows
      BY <2>b, RowType DEF RecordKinds
    <3>2. ctl' \subseteq Rows /\ pending' \in [Procs -> SUBSET Rows]
      BY <1>0, <2>15, <3>1, RecordType, RecordOrNotType DEF CompactNothing, RecordKinds
    <3>3. lastWriteSeq' \in [Procs -> Nat]
      BY <1>0, <2>15 DEF CompactNothing, TypeOK
    <3>4. Leave(p) /\ UNCHANGED <<store, freeze, nextTxn, dataSeq, snap>>
      BY <2>15 DEF CompactNothing
    <3>5. QED
      BY <1>0, <2>a, <2>c, <3>2, <3>3, <3>4 DEF TypeOK
  <2>16. CASE Optimize(p)
    <3>1. Seqs' = Seqs \cup {txn[p].seq}
      BY <2>16 DEF Optimize, Seqs
    <3>2. Seqs \in SUBSET Nat
      BY <1>0 DEF Seqs, TypeOK
    <3>3. HasMax(Seqs')
      BY <1>0, <2>b, <3>1, <3>2, MaxOfMore DEF MaxInv
    <3>4. MaxInv'
      BY <1>0, <2>16, <3>3 DEF MaxInv, Optimize, Versions
    <3>5. Len(leaves) \in Nat
      BY <1>0 DEF TypeOK
    <3>6. /\ pc' \in [Procs -> Pcs]
          /\ \A q \in Procs : pc'[q] \in TxnPcs => txn'[q].txn \in TxnIds
      BY <1>0, <2>16 DEF Optimize, TypeOK
    <3>7. /\ snap' \in [Procs -> Nat]
          /\ \A q \in Procs : snap'[q] <= Len(leaves')
      BY <1>0, <2>16, <3>5 DEF Optimize, TypeOK
    <3>8. commits' \subseteq [seq : Nat, txn : {NoTxn} \cup TxnIds]
      BY <1>0, <2>16, <2>b DEF Optimize, TypeOK
    <3>9. QED
      BY <1>0, <2>16, <3>4, <3>6, <3>7, <3>8 DEF Optimize, TypeOK, TypeInv
  <2>17. CASE CompactCommitted(p)
    <3>1. ctl' \subseteq Rows /\ pending' \in [Procs -> SUBSET Rows]
      BY <1>0, <2>17, RecordOrNotType DEF CompactCommitted, RecordKinds
    <3>2. {dataSeq[p], txn[p].seq} \in SUBSET Nat /\ HasMax({dataSeq[p], txn[p].seq})
      BY <1>0, <2>b DEF TypeOK, HasMax
    <3>3. MaxOf({dataSeq[p], txn[p].seq}) \in Nat
      BY <3>2, MaxOfFact
    <3>4. QED
      BY <1>0, <2>17, <2>a, <2>c, <3>1, <3>3 DEF CompactCommitted, TypeOK
  <2>22. CASE CompactAltered(p)
    <3>1. ctl' \subseteq Rows /\ pending' \in [Procs -> SUBSET Rows]
      BY <1>0, <2>22, RecordOrNotType DEF CompactAltered, RecordKinds
    <3>2. QED
      BY <1>0, <2>22, <2>a, <2>c, <3>1 DEF CompactAltered, TypeOK
  <2>18. CASE FreezeReadTip(p)
    <3>1. Len(leaves) \in 0..Len(leaves)
      BY <1>0 DEF TypeOK
    <3>2. QED
      BY <1>0, <2>18, <2>a, <3>1, TopVersionFact DEF FreezeReadTip, TypeOK
  <2>19. CASE FreezeMark(p) \/ Unfreeze(p)
    BY <1>0, <2>19, <2>a, <2>c, SMTT(40) DEF FreezeMark, Unfreeze, TypeOK
  <2>20. QED
    BY <1>1, <2>1, <2>2, <2>3, <2>4, <2>5, <2>6, <2>7, <2>8, <2>9, <2>10, <2>11,
       <2>12, <2>13, <2>14, <2>15, <2>16, <2>17, <2>18, <2>19,
       <2>21, <2>22 DEF Step, Working
<1>2. CASE UNCHANGED vars
  <2>1. UNCHANGED store /\ TypeOK'
    BY <1>0, <1>2 DEF vars, store, control, ship, local, TypeOK
  <2>2. QED
    BY <1>0, <1>2, <2>1, MaxStable DEF vars, local, TypeInv
<1>3. QED
  BY <1>1, <1>2 DEF Next

(* Every reachable state is well typed. *)
THEOREM TypeCorrect == Spec => []TypeOK
<1>1. TypeInv => TypeOK
  BY DEF TypeInv
<1>2. QED
  BY <1>1, TypeInit, TypeStep, PTL DEF Spec

-----------------------------------------------------------------------------
(* A step moves one process, and takes, keeps or drops the lock as its place *)
(* before and after asks for.                                                *)
LEMMA Moves ==
    ASSUME TypeOK, NEW p \in Procs, Step(p)
    PROVE  /\ \A q \in Procs : q # p => pc'[q] = pc[q]
           /\ \/ pc[p] \notin LockedPcs /\ pc'[p] \notin LockedPcs /\ lock' = lock
              \/ lock = {} /\ pc'[p] \in LockedPcs /\ lock' = {p}
              \/ pc'[p] \notin LockedPcs /\ lock' = lock \ {p}
              \/ pc[p] \in LockedPcs /\ pc'[p] \in LockedPcs /\ lock' = lock
<1> USE DEF TypeOK, Goto, LockedPcs, WritePcs, CompactPcs, FreezePcs
<1>1. CASE OpenControl(p) \/ OpenData(p) \/ RecoverStart(p) \/ RecoverStep(p)
           \/ RecoverReturns(p)
  BY <1>1 DEF OpenControl, OpenData, RecoverStart, RecoverStep, RecoverReturns
<1>2. CASE BeginWrite(p) \/ CompactLock(p) \/ FreezeLock(p) \/ UnfreezeLock(p)
  BY <1>2 DEF BeginWrite, CompactLock, FreezeLock, UnfreezeLock, LockOnly, TryAcquire
<1>3. ASSUME Leave(p) \/ Exit(p)
      PROVE  /\ \A q \in Procs : q # p => pc'[q] = pc[q]
             /\ pc'[p] \notin LockedPcs /\ lock' = lock \ {p}
  BY <1>3 DEF Leave, Exit
<1>4. CASE RejectFrozen(p) \/ RecordBeginFails(p) \/ CompactReturns(p)
           \/ RecordDataCommittedFails(p) \/ Finish(p) \/ FreezeReturns(p)
           \/ DataBeginFails(p) \/ RollBack(p) \/ CommitNoop(p)
           \/ CompactNothing(p) \/ CompactCommitted(p) \/ CompactAltered(p)
           \/ FreezeMark(p) \/ Unfreeze(p) \/ Exit(p)
  <2>1. Leave(p) \/ Exit(p)
    BY <1>4 DEF RejectFrozen, RecordBeginFails, CompactReturns,
       RecordDataCommittedFails, Finish, FreezeReturns, DataBeginFails, RollBack,
       CommitNoop, CompactNothing, CompactCommitted, CompactAltered, FreezeMark,
       Unfreeze
  <2>2. QED
    BY <1>3, <2>1
<1>5. CASE AdmitWrite(p) \/ DataBegin(p) \/ AdmitCompact(p) \/ RecordBegin(p)
           \/ CompactBegin(p) \/ RecordDataCommitted(p)
  BY <1>5 DEF AdmitWrite, DataBegin, AdmitCompact, RecordBegin, CompactBegin,
     RecordDataCommitted
<1>6. CASE FactoryFails(p) \/ FactoryNoop(p) \/ CommitData(p) \/ FactoryCommit(p)
           \/ FactoryBegin(p) \/ RecordFactory(p) \/ Optimize(p) \/ FreezeReadTip(p)
  BY <1>6 DEF FactoryFails, FactoryNoop, CommitData, FactoryCommit, FactoryBegin,
     RecordFactory, Optimize, FreezeReadTip
<1>7. QED
  BY <1>1, <1>2, <1>4, <1>5, <1>6 DEF Step, Working

(* The write lock is exact and exclusive. *)
LEMMA LockStep == TypeOK /\ LockInv /\ [Next]_vars => LockInv'
<1> SUFFICES ASSUME TypeOK, LockInv, [Next]_vars
             PROVE  LockInv'
  OBVIOUS
<1>1. ASSUME NEW p \in Procs, Step(p)
      PROVE  LockInv'
  BY <1>1, Moves DEF LockInv
<1>2. CASE UNCHANGED vars
  BY <1>2 DEF vars, LockInv
<1>3. QED
  BY <1>1, <1>2 DEF Next

(* A new pond: nobody holds the lock. *)
LEMMA LockInit == Init => LockInv
BY DEF Init, LockInv, LockedPcs, WritePcs, CompactPcs, FreezePcs

(* Which steps touch the data table, the freeze marker and the tip read for  *)
(* it; every other step leaves the three alone.                              *)
LEMMA FreezeEffects ==
    ASSUME TypeOK, NEW p \in Procs, Step(p)
    PROVE  \/ /\ UNCHANGED <<commits, leaves, freeze>>
              /\ \A q \in Procs : q # p => tip'[q] = tip[q]
              /\ pc'[p] # "z_tip"
              /\ pc'[p] \in AdmittedPcs => pc[p] \in AdmittedPcs \/ freeze = NotFrozen
           \/ /\ pc[p] \in AdmittedPcs /\ pc'[p] \in AdmittedPcs
              /\ UNCHANGED <<freeze, tip>>
           \/ FreezeReadTip(p) \/ FreezeMark(p) \/ Unfreeze(p)
<1> USE DEF TypeOK, Goto, LockedPcs, WritePcs, CompactPcs, FreezePcs, AdmittedPcs,
            TxnPcs, store, local
<1>0. CASE OpenControl(p) \/ OpenData(p)
  BY <1>0 DEF OpenControl, OpenData
<1>1. CASE RecoverStart(p) \/ RecoverStep(p) \/ RecoverReturns(p)
  BY <1>1 DEF RecoverStart, RecoverStep, RecoverReturns
<1>2. CASE BeginWrite(p) \/ CompactLock(p) \/ FreezeLock(p) \/ UnfreezeLock(p)
  BY <1>2 DEF BeginWrite, CompactLock, FreezeLock, UnfreezeLock, LockOnly, TryAcquire
<1>3. CASE RejectFrozen(p) \/ RecordBeginFails(p) \/ CompactReturns(p)
           \/ RecordDataCommittedFails(p) \/ Finish(p) \/ FreezeReturns(p)
           \/ DataBeginFails(p) \/ RollBack(p) \/ CommitNoop(p)
           \/ CompactNothing(p) \/ CompactCommitted(p) \/ CompactAltered(p) \/ Exit(p)
  <2>1. /\ Leave(p) \/ Exit(p)
        /\ UNCHANGED <<commits, leaves, freeze>>
    BY <1>3 DEF RejectFrozen, RecordBeginFails, CompactReturns,
       RecordDataCommittedFails, Finish, FreezeReturns, DataBeginFails, RollBack,
       CommitNoop, CompactNothing, CompactCommitted, CompactAltered, Exit
  <2>2. QED
    BY <2>1 DEF Leave, Exit
<1>5. CASE AdmitWrite(p) \/ DataBegin(p) \/ AdmitCompact(p) \/ RecordBegin(p)
           \/ CompactBegin(p) \/ RecordDataCommitted(p)
  BY <1>5 DEF AdmitWrite, DataBegin, AdmitCompact, RecordBegin, CompactBegin,
     RecordDataCommitted
<1>6. CASE FactoryFails(p) \/ FactoryNoop(p) \/ CommitData(p) \/ FactoryCommit(p)
           \/ FactoryBegin(p) \/ RecordFactory(p) \/ Optimize(p)
  BY <1>6 DEF FactoryFails, FactoryNoop, CommitData, FactoryCommit, FactoryBegin,
     RecordFactory, Optimize
<1>7. QED
  BY <1>0, <1>1, <1>2, <1>3, <1>5, <1>6 DEF Step, Working

(* A freeze is never made over a writer, nor passed by one. *)
LEMMA FreezeStep == TypeOK /\ LockInv /\ FreezeInv /\ [Next]_vars => FreezeInv'
<1> SUFFICES ASSUME TypeOK, LockInv, FreezeInv, [Next]_vars
             PROVE  FreezeInv'
  OBVIOUS
<1> USE DEF FreezeInv, FrozenTip
<1>1. ASSUME NEW p \in Procs, Step(p)
      PROVE  FreezeInv'
  <2>1. \A q \in Procs : q # p => pc'[q] = pc[q]
    BY <1>1, Moves
  <2>2. \A n : UNCHANGED leaves => Tips(n)' = Tips(n)
    <3> SUFFICES ASSUME NEW n, leaves' = leaves
                 PROVE  Tips(n)' = Tips(n)
      OBVIOUS
    <3>1. TopVersion(n)' = TopVersion(n)
      BY Zenon DEF TopVersion
    <3>2. QED
      BY <3>1, Zenon DEF Tips
  <2>3. AdmittedPcs \subseteq LockedPcs /\ "z_tip" \in LockedPcs \ AdmittedPcs
        /\ "idle" \notin AdmittedPcs
    BY DEF AdmittedPcs, TxnPcs, LockedPcs, FreezePcs, WritePcs, CompactPcs
  <2>4. CASE /\ UNCHANGED <<commits, leaves, freeze>>
             /\ \A q \in Procs : q # p => tip'[q] = tip[q]
             /\ pc'[p] # "z_tip"
             /\ pc'[p] \in AdmittedPcs => pc[p] \in AdmittedPcs \/ freeze = NotFrozen
    BY <2>1, <2>2, <2>4
  <2>5. CASE /\ pc[p] \in AdmittedPcs /\ pc'[p] \in AdmittedPcs
             /\ UNCHANGED <<freeze, tip>>
    <3>1. \A q \in Procs : pc'[q] # "z_tip"
      BY <2>1, <2>3, <2>5 DEF LockInv
    <3>2. freeze = NotFrozen
      BY <2>5
    <3>3. QED
      BY <2>5, <3>1, <3>2
  <2>6. CASE FreezeReadTip(p)
    BY <2>1, <2>2, <2>3, <2>6 DEF FreezeReadTip, Goto, TypeOK, store
  <2>7. CASE FreezeMark(p)
    <3>1. freeze' = tip[p] /\ UNCHANGED leaves /\ pc'[p] = "idle" /\ pc[p] = "z_tip"
      BY <2>7 DEF FreezeMark, Leave, Goto, TypeOK, store
    <3>2. \A q \in Procs : q # p => pc[q] \notin LockedPcs
      BY <2>3, <3>1 DEF LockInv
    <3>3. QED
      BY <2>1, <2>2, <2>3, <3>1, <3>2
  <2>8. CASE Unfreeze(p)
    <3>1. freeze' = NotFrozen /\ UNCHANGED leaves /\ pc'[p] = "idle"
          /\ \A q \in Procs : q # p => tip'[q] = tip[q]
      BY <2>8 DEF Unfreeze, Leave, Goto, TypeOK, store
    <3>2. QED
      BY <2>1, <2>2, <3>1
  <2>9. QED
    BY <1>1, <2>4, <2>5, <2>6, <2>7, <2>8, FreezeEffects
<1>2. CASE UNCHANGED vars
  BY <1>2, ZenonT(60) DEF vars, store, local, Tips, TopVersion
<1>3. QED
  BY <1>1, <1>2 DEF Next

(* A new pond is not frozen. *)
LEMMA FreezeInit == Init => FreezeInv
BY DEF Init, FreezeInv, FrozenTip, AdmittedPcs, TxnPcs, WritePcs, CompactPcs

(* What a freeze protects holds in every reachable state. *)
LEMMA FreezeAlways == Spec => [](TypeOK /\ LockInv /\ FreezeInv)
BY TypeCorrect, LockInit, LockStep, FreezeInit, FreezeStep, PTL DEF Spec

(* The tip in the freeze marker is the tip of the commit log. *)
THEOREM FrozenTipHolds == Spec => []FrozenTip
<1>1. FreezeInv => FrozenTip
  BY DEF FreezeInv
<1>2. QED
  BY <1>1, FreezeAlways, PTL

(* A frozen pond makes no Delta commit. *)
THEOREM NoCommitWhileFrozenHolds == Spec => NoCommitWhileFrozen
<1>1. TypeOK /\ FreezeInv /\ [Next]_vars
        => [freeze # NotFrozen /\ freeze' # NotFrozen => UNCHANGED store]_vars
  <2> SUFFICES ASSUME TypeOK, FreezeInv, [Next]_vars,
                      freeze # NotFrozen, freeze' # NotFrozen
               PROVE  UNCHANGED store
    OBVIOUS
  <2>1. ASSUME NEW p \in Procs, Step(p)
        PROVE  UNCHANGED store
    BY <2>1, FreezeEffects DEF FreezeInv, FreezeReadTip, FreezeMark, Unfreeze, store
  <2>2. CASE UNCHANGED vars
    BY <2>2 DEF vars
  <2>3. QED
    BY <2>1, <2>2 DEF Next
<1>2. QED
  BY <1>1, FreezeAlways, PTL DEF Spec, NoCommitWhileFrozen
=============================================================================
