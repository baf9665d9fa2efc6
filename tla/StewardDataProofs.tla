-------------------------- MODULE StewardDataProofs --------------------------
(*****************************************************************************)
(* Proofs about Steward, continued: what the two stores say of each          *)
(* transaction, the two allocators, and single sessions.                     *)
(*****************************************************************************)
EXTENDS StewardProofs

-----------------------------------------------------------------------------
(* What a step does to the two tables and to the transactions under way:     *)
(* five kinds of step.                                                       *)
Quiet(p) ==
    /\ UNCHANGED <<commits, leaves, nextTxn>>
    /\ ctl \subseteq ctl'
    /\ \A r \in ctl' \ ctl : r.kind \in {"DataCommitted", "Completed"}
    /\ pc'[p] \in TxnPcs => pc[p] \in TxnPcs /\ txn'[p] = txn[p]
    /\ pc'[p] \in BegunPcs => pc[p] \in BegunPcs
    /\ pc'[p] \in UncommittedPcs => pc[p] \in UncommittedPcs
    /\ pc'[p] # "c_altered"

Fails(p) ==
    /\ UNCHANGED <<commits, leaves, nextTxn>>
    /\ ctl' = ctl \/ ctl' = ctl \cup {Row("Failed", txn[p])}
    /\ pc[p] \in UncommittedPcs \cup {"c_altered"}
    /\ pc'[p] \notin UncommittedPcs \cup {"c_altered"}
    /\ pc'[p] \in TxnPcs => txn'[p] = txn[p]

Begins(p) ==
    /\ UNCHANGED <<commits, leaves, nextTxn, txn>>
    /\ ctl' = ctl \cup {Row("Begin", txn[p])}
    /\ pc[p] \in UncommittedPcs
    /\ pc'[p] # "c_altered"

Allocates(p) ==
    /\ UNCHANGED <<commits, leaves>>
    /\ pc'[p] # "c_altered"
    /\ nextTxn' = nextTxn + 1
    /\ txn'[p].txn = nextTxn
    /\ \/ ctl' = ctl /\ pc'[p] \notin BegunPcs
       \/ ctl' = ctl \cup {Row("Begin", txn'[p])}

Commits(p) ==
    /\ commits' = commits \cup {txn[p]}
    /\ UNCHANGED <<ctl, nextTxn, txn>>
    /\ pc[p] \in BegunPcs
    /\ pc'[p] \in TxnPcs \ UncommittedPcs
    /\ \A i \in DOMAIN leaves' :
         \/ i \in DOMAIN leaves /\ leaves'[i] = leaves[i]
         \/ leaves'[i].txn = txn[p].txn /\ pc'[p] # "c_altered"

(* What a step that makes a Delta commit does: a leaf it adds is its own.     *)
LEMMA CommitEffects ==
    ASSUME TypeOK, NEW p \in Procs, CommitData(p) \/ FactoryCommit(p) \/ Optimize(p)
    PROVE  Commits(p)
<1> USE DEF Goto, local, control, TxnPcs, WritePcs, CompactPcs, BegunPcs, UncommittedPcs
<1>a. pc \in [Procs -> Pcs]
  BY DEF TypeOK
<1>1. txn[p] = [seq |-> txn[p].seq, txn |-> txn[p].txn]
  BY DEF TypeOK
<1>2. CASE Optimize(p)
  BY <1>a, <1>2 DEF Optimize, Commits
<1>3. CASE CommitData(p) \/ FactoryCommit(p)
  <2>1. (\E base \in {snap[p], Len(leaves)} : DeltaCommit(txn[p], base))
        /\ UNCHANGED <<ctl, nextTxn, txn>>
        /\ pc[p] \in {"open", "f_begun"}
        /\ \E to \in {"committed", "f_committed"} : pc' = [pc EXCEPT ![p] = to]
    BY <1>3 DEF CommitData, FactoryCommit
  <2>2. QED
    BY <1>a, <1>1, <2>1 DEF DeltaCommit, Commits
<1>4. QED
  BY <1>2, <1>3

(* Every step is of one of those kinds, and touches one process's            *)
(* transaction.                                                              *)
LEMMA DataEffects ==
    ASSUME TypeOK, NEW p \in Procs, Step(p)
    PROVE  /\ \A q \in Procs : q # p => pc'[q] = pc[q] /\ txn'[q] = txn[q]
           /\ Quiet(p) \/ Fails(p) \/ Begins(p) \/ Allocates(p) \/ Commits(p)
<1> USE DEF Goto, store, local, control, TxnPcs, WritePcs, CompactPcs, BegunPcs,
            UncommittedPcs
<1>a. pc \in [Procs -> Pcs] /\ p \in DOMAIN txn
  BY DEF TypeOK
<1>1. CASE OpenControl(p) \/ OpenData(p) \/ RecoverStart(p) \/ RecoverReturns(p)
           \/ FreezeLock(p) \/ UnfreezeLock(p) \/ FreezeReadTip(p)
           \/ AdmitWrite(p) \/ AdmitCompact(p) \/ DataBegin(p)
  BY <1>a, <1>1 DEF OpenControl, OpenData, RecoverStart, RecoverReturns, FreezeLock,
     UnfreezeLock, LockOnly, FreezeReadTip, AdmitWrite, AdmitCompact, DataBegin, Quiet
<1>2. CASE RecoverStep(p)
  BY <1>a, <1>2 DEF RecoverStep, Record, Row, Quiet
<1>3. CASE BeginWrite(p) \/ CompactLock(p)
  BY <1>a, <1>3, SMTT(40) DEF BeginWrite, CompactLock, TryAcquire, Allocates, TypeOK
<1>4. CASE FactoryBegin(p)
  BY <1>a, <1>4 DEF FactoryBegin, Record, Allocates, TypeOK
<1>5. ASSUME Leave(p) \/ Exit(p)
      PROVE  /\ \A q \in Procs : q # p => pc'[q] = pc[q] /\ txn'[q] = txn[q]
             /\ pc'[p] \notin TxnPcs
  BY <1>a, <1>5 DEF Leave, Exit, TypeOK
<1>6. CASE RejectFrozen(p) \/ RecordBeginFails(p) \/ CompactReturns(p)
           \/ RecordDataCommittedFails(p) \/ Finish(p) \/ FreezeReturns(p)
           \/ FreezeMark(p) \/ Unfreeze(p) \/ Exit(p)
  <2>1. /\ Leave(p) \/ Exit(p)
        /\ UNCHANGED <<commits, leaves, ctl, nextTxn>>
    BY <1>6 DEF RejectFrozen, RecordBeginFails, CompactReturns,
       RecordDataCommittedFails, Finish, FreezeReturns, FreezeMark, Unfreeze, Exit
  <2>2. QED
    BY <1>5, <2>1 DEF Quiet
<1>7. CASE CommitNoop(p) \/ CompactCommitted(p)
  <2>1. /\ Leave(p) /\ UNCHANGED <<commits, leaves, nextTxn>>
        /\ \E k \in {"DataCommitted", "Completed"} : RecordOrNot(p, Row(k, txn[p]))
    BY <1>7 DEF CommitNoop, CompactCommitted
  <2>2. PICK k \in {"DataCommitted", "Completed"} : RecordOrNot(p, Row(k, txn[p]))
    BY <2>1
  <2>3. ctl' = ctl \/ ctl' = ctl \cup {Row(k, txn[p])}
    BY <2>2 DEF RecordOrNot, Record
  <2>4. Row(k, txn[p]).kind \in {"DataCommitted", "Completed"}
    BY DEF Row
  <2>5. ctl \subseteq ctl' /\ \A r \in ctl' \ ctl : r.kind \in {"DataCommitted", "Completed"}
    BY <2>3, <2>4
  <2>6. QED
    BY <1>5, <2>1, <2>5 DEF Quiet
<1>8. CASE DataBeginFails(p) \/ RollBack(p) \/ CompactAltered(p)
  <2>1. /\ Leave(p) /\ UNCHANGED <<commits, leaves, nextTxn>>
        /\ RecordOrNot(p, Row("Failed", txn[p]))
        /\ pc[p] \in UncommittedPcs \cup {"c_altered"}
    BY <1>8 DEF DataBeginFails, RollBack, CompactAltered
  <2>2. QED
    BY <1>5, <2>1 DEF Fails, RecordOrNot, Record
<1>9. CASE CompactNothing(p)
  <2>1. /\ Leave(p) /\ UNCHANGED <<commits, leaves, nextTxn>>
        /\ pc[p] \in UncommittedPcs
        /\ RecordOrNot(p, Row("Failed", txn[p])) \/ Record(p, {Row("Completed", txn[p])})
    BY <1>9 DEF CompactNothing
  <2>2. CASE RecordOrNot(p, Row("Failed", txn[p]))
    <3>1. ctl' = ctl \/ ctl' = ctl \cup {Row("Failed", txn[p])}
      BY <2>2 DEF RecordOrNot, Record
    <3>2. QED
      BY <1>5, <2>1, <3>1 DEF Fails
  <2>3. CASE Record(p, {Row("Completed", txn[p])})
    <3>1. ctl' = ctl \cup {Row("Completed", txn[p])}
      BY <2>3 DEF Record
    <3>2. Row("Completed", txn[p]).kind = "Completed"
      BY DEF Row
    <3>3. ctl \subseteq ctl' /\ \A r \in ctl' \ ctl : r.kind = "Completed"
      BY <3>1, <3>2
    <3>4. QED
      BY <1>5, <2>1, <3>3 DEF Quiet
  <2>4. QED
    BY <2>1, <2>2, <2>3
<1>10. CASE FactoryFails(p)
  BY <1>a, <1>10 DEF FactoryFails, Fails, RecordOrNot, Record
<1>11. CASE FactoryNoop(p)
  BY <1>a, <1>11 DEF FactoryNoop, Quiet, RecordOrNot, Record, Row
<1>12. CASE RecordFactory(p) \/ RecordDataCommitted(p)
  <2>1. /\ UNCHANGED <<commits, leaves, nextTxn, txn>>
        /\ pc' = [pc EXCEPT ![p] = "post"] /\ pc[p] \in {"committed", "f_committed"}
    BY <1>12 DEF RecordFactory, RecordDataCommitted
  <2>2. PICK rows \in SUBSET {Row(k, txn[p]) : k \in {"DataCommitted", "Completed"}} :
          ctl' = ctl \cup rows
    BY <1>12 DEF RecordFactory, RecordDataCommitted, Record
  <2>3. \A r \in rows : r.kind \in {"DataCommitted", "Completed"}
    BY <2>2 DEF Row
  <2>4. ctl \subseteq ctl' /\ \A r \in ctl' \ ctl : r.kind \in {"DataCommitted", "Completed"}
    BY <2>2, <2>3
  <2>5. QED
    BY <1>a, <2>1, <2>4 DEF Quiet
<1>13. CASE RecordBegin(p) \/ CompactBegin(p)
  BY <1>a, <1>13 DEF RecordBegin, CompactBegin, Begins, Record
<1>14. CASE CommitData(p) \/ FactoryCommit(p) \/ Optimize(p)
  <2>1. \A q \in Procs : q # p => pc'[q] = pc[q] /\ txn'[q] = txn[q]
    BY <1>a, <1>14 DEF CommitData, FactoryCommit, Optimize
  <2>2. QED
    BY <1>14, <2>1, CommitEffects
<1>15. QED
  BY <1>1, <1>2, <1>3, <1>4, <1>6, <1>7, <1>8, <1>9, <1>10, <1>11, <1>12, <1>13,
     <1>14 DEF Step, Working

(* The bookkeeping of transaction identities is inductive. *)
LEMMA DataStep == TypeOK /\ LockInv /\ DataInv /\ [Next]_vars => DataInv'
<1> SUFFICES ASSUME TypeOK, LockInv, DataInv, [Next]_vars
             PROVE  DataInv'
  OBVIOUS
<1>1. ASSUME NEW p \in Procs, Step(p)
      PROVE  DataInv'
  <2>1. \A q \in Procs : q # p => pc'[q] = pc[q] /\ txn'[q] = txn[q]
    BY <1>1, DataEffects
  <2>2. UncommittedPcs \subseteq TxnPcs /\ TxnPcs \subseteq LockedPcs
        /\ BegunPcs \subseteq UncommittedPcs
        /\ "c_altered" \in TxnPcs \ UncommittedPcs
    BY DEF UncommittedPcs, BegunPcs, TxnPcs, LockedPcs, WritePcs, CompactPcs
  <2>3. pc[p] \in LockedPcs => \A q \in Procs : q # p => pc[q] \notin LockedPcs
    BY DEF LockInv
  <2>4. nextTxn \in Nat /\ \A c \in commits : c.txn \in Int
    BY StewardAssumption DEF TypeOK, TxnIds, NoTxn
  <2> DEFINE Leafless(q) ==
        pc'[q] = "c_altered" => \A i \in DOMAIN leaves' : leaves'[i].txn # txn'[q].txn
  <2>b. ASSUME UNCHANGED <<commits, leaves>>, pc'[p] # "c_altered"
        PROVE  /\ \A i \in DOMAIN leaves' : \E c \in commits' : c.txn = leaves'[i].txn
               /\ \A q \in Procs : Leafless(q)
    BY <2>1, <2>b DEF DataInv
  <2>5. CASE Quiet(p)
    <3>1. AuditTrail' /\ FailedMeansNoData'
      BY <2>5 DEF Quiet, DataInv, AuditTrail, FailedMeansNoData, Row
    <3>2. QED
      BY <2>1, <2>2, <2>5, <2>b, <3>1, SMTT(40) DEF Quiet, DataInv, Row
  <2>a. \A k, x : Row(k, x).kind = k /\ Row(k, x).txn = x.txn
    BY DEF Row
  <2>6. CASE Fails(p)
    <3>1. \A r \in ctl' : r \in ctl \/ r.txn = txn[p].txn
      BY <2>6, <2>a, SMTT(40) DEF Fails
    <3>2. \A i \in DOMAIN leaves : leaves[i].txn # txn[p].txn
      BY <2>6 DEF Fails, DataInv
    <3>3. AuditTrail'
      BY <2>6 DEF Fails, DataInv, AuditTrail
    <3>4. FailedMeansNoData'
      BY <2>6, <2>a, <3>1, <3>2 DEF Fails, DataInv, FailedMeansNoData
    <3>5. \A q \in Procs : pc'[q] \notin UncommittedPcs
      BY <2>1, <2>2, <2>3, <2>6 DEF Fails
    <3>6. \A r \in ctl' : r.kind = "Failed" => r.txn < nextTxn'
      BY <2>2, <2>6, <3>1 DEF Fails, DataInv
    <3>7. \A q \in Procs : pc'[q] \in TxnPcs => txn'[q].txn < nextTxn'
      BY <2>1, <2>2, <2>6 DEF Fails, DataInv
    <3>8. QED
      BY <2>2, <2>6, <2>b, <3>3, <3>4, <3>5, <3>6, <3>7 DEF Fails, DataInv
  <2>7. CASE Begins(p)
    <3>1. \A r \in ctl' : r.kind = "Failed" => r \in ctl
      BY <2>7, <2>a DEF Begins
    <3>2. AuditTrail' /\ FailedMeansNoData'
      BY <2>7, <2>a, <3>1 DEF Begins, DataInv, AuditTrail, FailedMeansNoData
    <3>3. \A q \in Procs :
            /\ pc'[q] \in TxnPcs => txn'[q].txn < nextTxn'
            /\ pc'[q] \in BegunPcs => Row("Begin", txn[q]) \in ctl'
            /\ pc'[q] \in UncommittedPcs =>
                 /\ \A c \in commits' : c.txn # txn'[q].txn
                 /\ \A r \in ctl' : r.kind = "Failed" => r.txn # txn'[q].txn
      BY <2>1, <2>2, <2>7, <3>1 DEF Begins, DataInv
    <3>4. QED
      BY <2>7, <2>b, <3>1, <3>2, <3>3 DEF Begins, DataInv
  <2>8. CASE Allocates(p)
    <3>1. \A r \in ctl' : r.kind = "Failed" => r \in ctl /\ r.txn < nextTxn
      BY <2>8, <2>a, SMTT(40) DEF Allocates, DataInv
    <3>2. AuditTrail' /\ FailedMeansNoData'
      BY <2>8, <2>a, <3>1 DEF Allocates, DataInv, AuditTrail, FailedMeansNoData
    <3>3. \A q \in Procs : q # p =>
            /\ pc'[q] \in TxnPcs => txn'[q].txn < nextTxn
            /\ pc'[q] \in BegunPcs => Row("Begin", txn'[q]) \in ctl'
            /\ pc'[q] \in UncommittedPcs =>
                 /\ \A c \in commits' : c.txn # txn'[q].txn
                 /\ \A r \in ctl' : r.kind = "Failed" => r.txn # txn'[q].txn
      BY <2>1, <2>8, <3>1 DEF Allocates, DataInv
    <3>4. pc'[p] \in BegunPcs => Row("Begin", txn'[p]) \in ctl'
      BY <2>8 DEF Allocates
    <3>5. \A c \in commits' : c.txn # nextTxn /\ c.txn < nextTxn'
      BY <2>4, <2>8 DEF Allocates, DataInv
    <3>6. \A r \in ctl' : r.kind = "Failed" => r.txn # nextTxn /\ r.txn < nextTxn'
      <4>1. \A r \in ctl : r.txn \in Int
        BY StewardAssumption DEF TypeOK, Rows, TxnIds, NoTxn
      <4>2. QED
        BY <2>4, <2>8, <3>1, <4>1 DEF Allocates
    <3>7. \A q \in Procs : txn[q].txn \in Int
      BY StewardAssumption DEF TypeOK, TxnIds, NoTxn
    <3>8. \A q \in Procs : pc'[q] \in TxnPcs => txn'[q].txn < nextTxn'
      BY <2>1, <2>4, <2>8, <3>3, <3>7, SMTT(40) DEF Allocates
    <3>9. txn'[p].txn = nextTxn
      BY <2>8 DEF Allocates
    <3>10. QED
      <4>1. /\ \A i \in DOMAIN leaves' : \E c \in commits' : c.txn = leaves'[i].txn
            /\ \A q \in Procs : Leafless(q)
        BY <2>8, <2>b DEF Allocates
      <4>2. QED
        BY <3>1, <3>2, <3>3, <3>4, <3>5, <3>6, <3>8, <3>9, <4>1 DEF DataInv
  <2>9. CASE Commits(p)
    <3>1. /\ Row("Begin", txn[p]) \in ctl /\ txn[p].txn < nextTxn
          /\ \A c \in commits : c.txn # txn[p].txn
          /\ \A r \in ctl : r.kind = "Failed" => r.txn # txn[p].txn
      BY <2>2, <2>9 DEF Commits, DataInv
    <3>2. AuditTrail'
      BY <2>9, <3>1 DEF Commits, DataInv, AuditTrail
    <3>3. FailedMeansNoData'
      BY <2>9, <2>a, <3>1, SMTT(40) DEF Commits, DataInv, FailedMeansNoData
    <3>4. \A q \in Procs : pc'[q] \notin UncommittedPcs
      BY <2>1, <2>2, <2>3, <2>9 DEF Commits
    <3>5. \A q \in Procs : pc'[q] \in TxnPcs => txn'[q].txn < nextTxn'
      BY <2>1, <2>9, <3>1 DEF Commits, DataInv
    <3>6. \A i \in DOMAIN leaves' : \E c \in commits' : c.txn = leaves'[i].txn
      BY <2>9 DEF Commits, DataInv
    <3>7. \A q \in Procs : Leafless(q)
      <4>1. \A q \in Procs : q # p => pc'[q] # "c_altered"
        BY <2>1, <2>2, <2>3, <2>9 DEF Commits
      <4>2. \A i \in DOMAIN leaves : leaves[i].txn # txn[p].txn
        BY <3>1 DEF DataInv
      <4>3. Leafless(p)
        BY <2>9, <4>2 DEF Commits
      <4>4. QED
        BY <4>1, <4>3
    <3>8. QED
      BY <2>2, <2>9, <3>1, <3>2, <3>3, <3>4, <3>5, <3>6, <3>7 DEF Commits, DataInv
  <2>10. QED
    BY <1>1, <2>5, <2>6, <2>7, <2>8, <2>9, DataEffects
<1>2. CASE UNCHANGED vars
  BY <1>2 DEF vars, store, control, local, DataInv, AuditTrail, FailedMeansNoData
<1>3. QED
  BY <1>1, <1>2 DEF Next

(* init_pond announces its own commit and calls it committed. *)
LEMMA DataInit == Init => DataInv
BY SMTT(40) DEF Init, DataInv, AuditTrail, FailedMeansNoData, Row, Genesis, NoTxn, TxnPcs,
   WritePcs, CompactPcs, BegunPcs, UncommittedPcs

(* The two stores agree in every reachable state, crashes included. *)
LEMMA DataAlways == Spec => [](TypeOK /\ LockInv /\ DataInv)
BY TypeCorrect, LockInit, LockStep, DataInit, DataStep, PTL DEF Spec

(* Every Delta commit has its Begin row. *)
THEOREM AuditTrailHolds == Spec => []AuditTrail
<1>1. DataInv => AuditTrail
  BY DEF DataInv
<1>2. QED
  BY <1>1, DataAlways, PTL

(* A Failed transaction has no leaf in the commit log, whatever the          *)
(* processes, the crashes and the compactions; none commits twice.           *)
THEOREM FailedMeansNoDataHolds == Spec => []FailedMeansNoData
<1>1. DataInv => FailedMeansNoData
  BY DEF DataInv
<1>2. QED
  BY <1>1, DataAlways, PTL

-----------------------------------------------------------------------------
(* Lockstep: without compaction the Ship's allocator and the persistence's   *)
(* differ only while a data transaction is open.                             *)
LockstepInv ==
    \A p \in Procs :
        /\ pc[p] \notin CompactPcs
        /\ pc[p] \notin {"closed", "opening", "open"} => lastWriteSeq[p] = dataSeq[p]
        /\ pc[p] = "open" => /\ lastWriteSeq[p] = txn[p].seq
                             /\ txn[p].seq = dataSeq[p] + 1

(* The allocators stay in lockstep. *)
LEMMA LockstepStep ==
    ASSUME "compact" \notin Features
    PROVE  TypeOK /\ LockstepInv /\ [Next]_vars => LockstepInv'
<1> SUFFICES ASSUME TypeOK, LockstepInv, [Next]_vars
             PROVE  LockstepInv'
  OBVIOUS
<1>1. ASSUME NEW p \in Procs, Step(p)
      PROVE  LockstepInv'
  <2> USE DEF LockstepInv, TypeOK, Goto, ship, local, CompactPcs
  <2>0. ASSUME UNCHANGED <<ship, txn>>, pc[p] \notin {"closed", "opening", "open"},
               NEW to \in {"post", "f_committed"}, pc' = [pc EXCEPT ![p] = to]
        PROVE  LockstepInv'
    BY <1>1, <2>0
  <2>1. CASE OpenControl(p) \/ RecoverReturns(p) \/ FreezeLock(p)
             \/ UnfreezeLock(p) \/ FreezeReadTip(p)
    BY <1>1, <2>1, ZenonT(60) DEF OpenControl, RecoverReturns, FreezeLock, UnfreezeLock,
       LockOnly, FreezeReadTip
  <2>11. CASE OpenData(p)
    BY <1>1, <2>11 DEF OpenData
  <2>12. CASE RecoverStart(p)
    BY <1>1, <2>12 DEF RecoverStart
  <2>2. CASE RecoverStep(p) \/ AdmitWrite(p) \/ DataBegin(p) \/ RecordBegin(p)
             \/ RecordDataCommitted(p)
    BY <1>1, <2>2, ZenonT(60) DEF RecoverStep, AdmitWrite, DataBegin, RecordBegin,
       RecordDataCommitted
  <2>3. CASE BeginWrite(p) \/ CompactLock(p)
    BY <1>1, <2>3 DEF BeginWrite, CompactLock, TryAcquire
  <2>4. CASE FactoryBegin(p)
    BY <1>1, <2>4 DEF FactoryBegin
  <2>13. CASE FactoryFails(p) \/ FactoryNoop(p) \/ FactoryCommit(p)
              \/ RecordFactory(p)
    <3>1. /\ UNCHANGED <<ship, txn>> /\ pc[p] \in {"f_begun", "f_committed"}
          /\ \/ pc' = [pc EXCEPT ![p] = "post"]
             \/ pc' = [pc EXCEPT ![p] = "f_committed"]
      BY <2>13 DEF FactoryFails, FactoryNoop, FactoryCommit, RecordFactory
    <3>2. QED
      BY <2>0, <3>1
  <2>5. CASE RejectFrozen(p) \/ RecordBeginFails(p) \/ DataBeginFails(p)
             \/ RecordDataCommittedFails(p) \/ Finish(p) \/ FreezeReturns(p)
             \/ FreezeMark(p) \/ Unfreeze(p)
    <3>1. Leave(p) /\ UNCHANGED ship /\ pc[p] \notin {"closed", "opening", "open"}
      BY <2>5 DEF RejectFrozen, RecordBeginFails, DataBeginFails, FreezePcs,
         RecordDataCommittedFails, Finish, FreezeReturns, FreezeMark, Unfreeze
    <3>2. QED
      BY <1>1, <3>1 DEF Leave
  <2>6. CASE Exit(p)
    BY <1>1, <2>6 DEF Exit
  <2>7. CASE RollBack(p) \/ CommitNoop(p)
    <3>1. lastWriteSeq'[p] = dataSeq'[p] /\ pc'[p] = "idle"
      BY <1>1, <2>7 DEF RollBack, CommitNoop, Leave
    <3>a. \A q \in Procs : q # p => pc'[q] = pc[q] /\ txn'[q] = txn[q]
      BY <1>1, <2>7 DEF RollBack, CommitNoop, Leave
    <3>b. \A q \in Procs : q # p => /\ lastWriteSeq'[q] = lastWriteSeq[q]
                                   /\ dataSeq'[q] = dataSeq[q]
      BY <1>1, <2>7 DEF RollBack, CommitNoop
    <3>2. \A q \in Procs : q # p => /\ lastWriteSeq'[q] = lastWriteSeq[q]
                                   /\ dataSeq'[q] = dataSeq[q]
                                   /\ pc'[q] = pc[q] /\ txn'[q] = txn[q]
      BY <3>a, <3>b
    <3>3. QED
      BY <3>1, <3>2, ZenonT(40)
  <2>8. CASE CommitData(p)
    BY <1>1, <2>8 DEF CommitData
  <2>9. CASE AdmitCompact(p) \/ CompactBegin(p) \/ CompactReturns(p)
             \/ CompactNothing(p) \/ Optimize(p) \/ CompactCommitted(p)
             \/ CompactAltered(p)
    BY <1>1, <2>9 DEF AdmitCompact, CompactBegin, CompactReturns, CompactNothing,
       Optimize, CompactCommitted, CompactAltered
  <2>10. QED
    BY <1>1, <2>1, <2>2, <2>3, <2>4, <2>5, <2>6, <2>7, <2>8, <2>9, <2>11,
       <2>12, <2>13 DEF Step, Working
<1>2. CASE UNCHANGED vars
  BY <1>2 DEF vars, ship, local, LockstepInv
<1>3. QED
  BY <1>1, <1>2 DEF Next

(* A Ship that does not compact always passes the strict +1 check: between   *)
(* transactions last_write_seq is the persistence's last_txn_seq, whatever   *)
(* aborts, no-ops and failed control writes came before.                     *)
THEOREM LockstepHolds ==
    ASSUME "compact" \notin Features
    PROVE  Spec => []Lockstep
<1>1. Init => LockstepInv
  BY DEF Init, LockstepInv, CompactPcs
<1>2. LockstepInv => Lockstep
  BY DEF LockstepInv, Lockstep
<1>3. QED
  BY <1>1, <1>2, LockstepStep, TypeCorrect, PTL DEF Spec

-----------------------------------------------------------------------------
(* Drift: a compaction takes its sequence before it begins and may keep it.  *)
(* What a process may give back is above what its persistence has.           *)
AheadInv ==
    \A p \in Procs :
        /\ dataSeq[p] <= lastWriteSeq[p]
        /\ pc[p] \in CompactPcs \cup {"open"} => dataSeq[p] < txn[p].seq
        /\ pc[p] \in {"open", "c_begin", "c_begun", "c_committed"} =>
             lastWriteSeq[p] = txn[p].seq

(* A step moves the allocators of its own process only. *)
LEMMA ShipEffects ==
    ASSUME NEW p \in Procs, Step(p)
    PROVE  /\ UNCHANGED lastWriteSeq \/ \E v : lastWriteSeq' = [lastWriteSeq EXCEPT ![p] = v]
           /\ UNCHANGED dataSeq \/ \E v : dataSeq' = [dataSeq EXCEPT ![p] = v]
BY DEF ship, Step, Working, OpenControl, OpenData, Exit, BeginWrite, CompactLock,
   FreezeLock, UnfreezeLock, TryAcquire, LockOnly, RecoverStart, RecoverStep,
   RecoverReturns, RejectFrozen, AdmitWrite, RecordBegin, RecordBeginFails,
   DataBegin, DataBeginFails, RollBack, CommitNoop, CommitData, RecordDataCommitted,
   RecordDataCommittedFails, Finish, FactoryBegin, FactoryFails, FactoryNoop,
   FactoryCommit, RecordFactory, AdmitCompact, CompactBegin, CompactReturns,
   CompactNothing, Optimize, CompactCommitted, CompactAltered, FreezeReadTip,
   FreezeReturns, FreezeMark, Unfreeze

(* The Ship's allocator stays ahead of the persistence's. *)
LEMMA AheadStep == TypeInv /\ AheadInv /\ [Next]_vars => AheadInv'
<1> SUFFICES ASSUME TypeInv, AheadInv, [Next]_vars
             PROVE  AheadInv'
  OBVIOUS
<1>0. TypeOK /\ MaxInv
  BY DEF TypeInv
<1>1. ASSUME NEW p \in Procs, Step(p)
      PROVE  AheadInv'
  <2> DEFINE Ahead(q) ==
        /\ dataSeq[q] <= lastWriteSeq[q]
        /\ pc[q] \in CompactPcs \cup {"open"} => dataSeq[q] < txn[q].seq
        /\ pc[q] \in {"open", "c_begin", "c_begun", "c_committed"} =>
             lastWriteSeq[q] = txn[q].seq
  <2>1. \A q \in Procs : q # p => /\ pc'[q] = pc[q] /\ txn'[q] = txn[q]
                                  /\ lastWriteSeq'[q] = lastWriteSeq[q]
                                  /\ dataSeq'[q] = dataSeq[q]
    <3>1. \A q \in Procs : q # p => pc'[q] = pc[q] /\ txn'[q] = txn[q]
      BY <1>0, <1>1, DataEffects
    <3>2. /\ UNCHANGED lastWriteSeq \/ \E v : lastWriteSeq' = [lastWriteSeq EXCEPT ![p] = v]
          /\ UNCHANGED dataSeq \/ \E v : dataSeq' = [dataSeq EXCEPT ![p] = v]
      BY <1>1, ShipEffects
    <3>3. QED
      BY <1>0, <3>1, <3>2 DEF TypeOK
  <2>2. /\ dataSeq[p] \in Nat /\ lastWriteSeq[p] \in Nat /\ txn[p].seq \in Nat \ {0}
        /\ Ahead(p)
    BY <1>0, <1>1 DEF TypeOK, AheadInv
  <2>3. ASSUME Ahead(p)'
        PROVE  AheadInv'
    BY <2>1, <2>3 DEF AheadInv
  <2> HIDE DEF Ahead
  <2>4. ASSUME UNCHANGED ship, pc'[p] \notin CompactPcs \cup {"open"}
        PROVE  Ahead(p)'
    BY <2>2, <2>4 DEF Ahead, ship, CompactPcs
  <2>5. ASSUME UNCHANGED <<ship, txn>>, pc[p] \in {"c_begin", "c_begun", "c_committed"}
        PROVE  Ahead(p)'
    BY <2>2, <2>5 DEF Ahead, ship, CompactPcs
  <2>a. ASSUME dataSeq'[p] \in Nat, txn'[p].seq \in Nat, dataSeq'[p] < txn'[p].seq,
               lastWriteSeq'[p] = txn'[p].seq
        PROVE  AheadInv'
    <3>1. dataSeq'[p] <= lastWriteSeq'[p]
      BY <2>a
    <3>2. Ahead(p)'
      BY <2>a, <3>1, Zenon DEF Ahead
    <3>3. QED
      BY <2>3, <3>2, Zenon
  <2>b. ASSUME dataSeq'[p] <= lastWriteSeq'[p], pc'[p] \in {"idle", "closed", "committed"}
        PROVE  AheadInv'
    <3>1. /\ pc'[p] \notin CompactPcs \cup {"open"}
          /\ pc'[p] \notin {"open", "c_begin", "c_begun", "c_committed"}
      BY <2>b DEF CompactPcs
    <3>2. Ahead(p)'
      BY <2>b, <3>1, Zenon DEF Ahead
    <3>3. QED
      BY <2>3, <3>2, Zenon
  <2> USE DEF Goto
  <2>6. pc \in [Procs -> Pcs] /\ p \in DOMAIN txn /\ p \in DOMAIN dataSeq
        /\ p \in DOMAIN lastWriteSeq
    BY <1>0, <1>1 DEF TypeOK
  <2>7. CASE \/ OpenControl(p) \/ RecoverStart(p) \/ RecoverStep(p) \/ RecoverReturns(p)
             \/ FreezeLock(p) \/ UnfreezeLock(p) \/ FreezeReadTip(p) \/ AdmitWrite(p)
             \/ RecordBegin(p) \/ RecordDataCommitted(p) \/ BeginWrite(p)
             \/ FactoryBegin(p) \/ FactoryFails(p) \/ FactoryNoop(p) \/ FactoryCommit(p)
             \/ RecordFactory(p)
    <3>1. UNCHANGED ship /\ pc'[p] \notin CompactPcs \cup {"open"}
      BY <2>6, <2>7 DEF OpenControl, RecoverStart, RecoverStep, RecoverReturns, FreezeLock,
         UnfreezeLock, LockOnly, FreezeReadTip, AdmitWrite, RecordBegin, BeginWrite,
         TryAcquire, RecordDataCommitted, FactoryBegin, FactoryFails, FactoryNoop,
         FactoryCommit, RecordFactory, CompactPcs
    <3>2. QED
      BY <2>3, <2>4, <3>1
  <2>8. CASE \/ RejectFrozen(p) \/ RecordBeginFails(p) \/ DataBeginFails(p)
             \/ RecordDataCommittedFails(p) \/ Finish(p) \/ FreezeReturns(p)
             \/ FreezeMark(p) \/ Unfreeze(p) \/ CompactReturns(p) \/ CompactAltered(p)
    <3>1. UNCHANGED ship /\ Leave(p)
      BY <2>8 DEF RejectFrozen, RecordBeginFails, DataBeginFails, CompactReturns, CompactAltered,
         RecordDataCommittedFails, Finish, FreezeReturns, FreezeMark, Unfreeze
    <3>2. pc'[p] = "idle"
      BY <2>6, <3>1 DEF Leave
    <3>3. QED
      BY <2>3, <2>4, <3>1, <3>2 DEF CompactPcs
  <2>9. CASE CompactBegin(p)
    <3>1. UNCHANGED <<ship, txn>> /\ pc[p] = "c_begin"
      BY <2>9 DEF CompactBegin, local
    <3>2. QED
      BY <2>3, <2>5, <3>1
  <2>10. CASE OpenData(p) \/ Exit(p)
    <3>1. LastTxnSeq \in Nat
      BY <1>0, LastTxnSeqFact
    <3>2. /\ dataSeq'[p] = lastWriteSeq'[p] /\ dataSeq'[p] \in Nat
          /\ pc'[p] \in {"idle", "closed"}
      BY <2>6, <2>10, <3>1 DEF OpenData, Exit
    <3>3. dataSeq'[p] <= lastWriteSeq'[p] /\ pc'[p] \in {"idle", "closed", "committed"}
      BY <3>2
    <3>4. QED
      BY <2>b, <3>3, Zenon
  <2>11. CASE CompactLock(p)
    <3>1. /\ UNCHANGED ship /\ pc'[p] = "c_locked"
          /\ txn'[p].seq = lastWriteSeq[p] + 1
      BY <2>6, <2>11 DEF CompactLock, TryAcquire
    <3>2. pc'[p] \notin {"open", "c_begin", "c_begun", "c_committed"}
      BY <3>1
    <3>3. dataSeq'[p] <= lastWriteSeq'[p] /\ dataSeq'[p] < txn'[p].seq
      <4>1. dataSeq'[p] = dataSeq[p] /\ lastWriteSeq'[p] = lastWriteSeq[p]
        BY <3>1 DEF ship
      <4>2. dataSeq[p] <= lastWriteSeq[p]
        BY <2>2, Zenon DEF Ahead
      <4>3. \A a, b \in Nat : a <= b => a < b + 1
        OBVIOUS
      <4>4. dataSeq[p] < lastWriteSeq[p] + 1
        BY <2>2, <4>2, <4>3, Zenon
      <4>5. QED
        BY <3>1, <4>1, <4>2, <4>4, Zenon
    <3>4. Ahead(p)'
      BY <3>2, <3>3, Zenon DEF Ahead
    <3>5. QED
      BY <2>3, <3>4, Zenon
  <2>12. CASE DataBegin(p) \/ AdmitCompact(p)
    <3>1. /\ UNCHANGED <<txn, dataSeq>> /\ lastWriteSeq'[p] = txn[p].seq
          /\ dataSeq[p] < txn[p].seq
      BY <2>2, <2>6, <2>12 DEF DataBegin, AdmitCompact, local, Ahead, CompactPcs
    <3>2. QED
      BY <2>2, <2>a, <3>1
  <2>13. CASE RollBack(p) \/ CompactNothing(p)
    <3>1. /\ UNCHANGED dataSeq /\ lastWriteSeq'[p] = txn[p].seq - 1
          /\ pc[p] \in {"open", "c_begun"} /\ Leave(p)
      BY <2>6, <2>13 DEF RollBack, CompactNothing
    <3>2. pc'[p] = "idle"
      BY <2>6, <3>1 DEF Leave
    <3>3. dataSeq[p] < txn[p].seq
      <4>1. pc[p] \in CompactPcs \cup {"open"}
        BY <3>1 DEF CompactPcs
      <4>2. QED
        BY <2>2, <4>1, Zenon DEF Ahead
    <3>4. dataSeq'[p] <= lastWriteSeq'[p]
      BY <2>2, <3>1, <3>3
    <3>5. QED
      BY <2>b, <3>2, <3>4
  <2>14. CASE CommitNoop(p) \/ CommitData(p)
    <3>1. /\ UNCHANGED lastWriteSeq /\ dataSeq'[p] = txn[p].seq /\ pc[p] = "open"
          /\ pc'[p] \in {"idle", "committed"}
      BY <2>6, <2>14 DEF CommitNoop, CommitData, Leave
    <3>2. lastWriteSeq[p] = txn[p].seq
      BY <2>2, <3>1 DEF Ahead
    <3>3. dataSeq'[p] <= lastWriteSeq'[p]
      BY <2>2, <3>1, <3>2
    <3>4. QED
      BY <2>b, <3>1, <3>3
  <2>15. CASE Optimize(p)
    <3>1. /\ UNCHANGED <<txn, dataSeq, lastWriteSeq>> /\ pc[p] = "c_begun"
      BY <2>15 DEF Optimize, local
    <3>2. dataSeq[p] < txn[p].seq /\ lastWriteSeq[p] = txn[p].seq
      <4>1. /\ pc[p] \in CompactPcs \cup {"open"}
            /\ pc[p] \in {"open", "c_begin", "c_begun", "c_committed"}
        BY <3>1 DEF CompactPcs
      <4>2. QED
        BY <2>2, <4>1, Zenon DEF Ahead
    <3>3. QED
      BY <2>2, <2>a, <3>1, <3>2
  <2>16. CASE CompactCommitted(p)
    <3>1. /\ UNCHANGED lastWriteSeq /\ pc[p] = "c_committed" /\ Leave(p)
          /\ dataSeq'[p] = MaxOf({dataSeq[p], txn[p].seq})
      BY <2>6, <2>16 DEF CompactCommitted
    <3>2. pc'[p] = "idle"
      BY <2>6, <3>1 DEF Leave
    <3>3. dataSeq[p] < txn[p].seq /\ lastWriteSeq[p] = txn[p].seq
      BY <2>2, <3>1 DEF Ahead, CompactPcs
    <3>4. HasMax({dataSeq[p], txn[p].seq})
      BY <2>2, <3>3 DEF HasMax
    <3>5. {dataSeq[p], txn[p].seq} \in SUBSET Nat
      BY <2>2
    <3>6. MaxOf({dataSeq[p], txn[p].seq}) \in {dataSeq[p], txn[p].seq}
      BY <3>4, <3>5, MaxOfFact
    <3>7. dataSeq'[p] <= lastWriteSeq'[p]
      BY <2>2, <3>1, <3>3, <3>6
    <3>8. QED
      BY <2>b, <3>2, <3>7
  <2>17. QED
    BY <1>1, <2>7, <2>8, <2>9, <2>10, <2>11, <2>12, <2>13, <2>14, <2>15, <2>16
       DEF Step, Working
<1>2. CASE UNCHANGED vars
  BY <1>2 DEF vars, ship, local, AheadInv
<1>3. QED
  BY <1>1, <1>2 DEF Next

(* Whatever several processes do, compactions, factories and crashes         *)
(* included, an idle Ship never offers a sequence that its own persistence   *)
(* has already used: last_write_seq is at or above last_txn_seq.             *)
THEOREM NeverBehindHolds == Spec => []NeverBehind
<1>1. Init => AheadInv
  BY DEF Init, AheadInv, CompactPcs
<1>2. AheadInv => NeverBehind
  BY DEF AheadInv, NeverBehind
<1>3. QED
  BY <1>1, <1>2, AheadStep, TypeInit, TypeStep, PTL DEF Spec

-----------------------------------------------------------------------------
(* One session at a time. *)
SessionInv == \A p, q \in Procs : pc[p] # "closed" /\ pc[q] # "closed" => p = q

(* A process that has not opened the pond can only open it. *)
LEMMA ClosedStep ==
    ASSUME NEW p \in Procs, Step(p), pc[p] = "closed"
    PROVE  OpenControl(p)
BY DEF Step, Working, OpenData, Exit, BeginWrite, CompactLock, FreezeLock,
   UnfreezeLock, TryAcquire, LockOnly, RecoverStart, RecoverStep, RecoverReturns,
   RejectFrozen, AdmitWrite, RecordBegin, RecordBeginFails, DataBegin,
   DataBeginFails, RollBack, CommitNoop, CommitData, RecordDataCommitted,
   RecordDataCommittedFails, Finish, FactoryBegin, FactoryFails, FactoryNoop,
   FactoryCommit, RecordFactory, AdmitCompact, CompactBegin, CompactReturns,
   CompactNothing, Optimize, CompactCommitted, CompactAltered, FreezeReadTip,
   FreezeReturns, FreezeMark, Unfreeze, FreezePcs

(* In a session every other process is closed, before and after a step. *)
LEMMA OthersClosed ==
    ASSUME OneSession, TypeOK, SessionInv, NEW p \in Procs, Step(p)
    PROVE  \A q \in Procs : q # p => pc[q] = "closed" /\ pc'[q] = "closed"
<1>1. \A q \in Procs : q # p => pc[q] = "closed"
  BY ClosedStep DEF OpenControl, SessionInv
<1>2. QED
  BY <1>1, Moves

(* A step opens a Ship only when no process has one. *)
LEMMA SessionStep ==
    ASSUME OneSession
    PROVE  TypeOK /\ SessionInv /\ [Next]_vars => SessionInv'
<1> SUFFICES ASSUME TypeOK, SessionInv, [Next]_vars
             PROVE  SessionInv'
  OBVIOUS
<1>1. ASSUME NEW p \in Procs, Step(p)
      PROVE  SessionInv'
  BY <1>1, OthersClosed DEF SessionInv
<1>2. CASE UNCHANGED vars
  BY <1>2 DEF vars, SessionInv
<1>3. QED
  BY <1>1, <1>2 DEF Next

(* At most one process has the pond open, in every reachable state. *)
LEMMA SessionAlways ==
    ASSUME OneSession
    PROVE  Spec => []SessionInv
<1>1. Init => SessionInv
  BY DEF Init, SessionInv
<1>2. QED
  BY <1>1, SessionStep, TypeCorrect, PTL DEF Spec
=============================================================================
