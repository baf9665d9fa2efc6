------------------------- MODULE StewardChainProofs --------------------------
(*****************************************************************************)
(* Proofs about Steward, continued: single sessions.  Recovery, the chain of *)
(* the commit log, and the refinement of PondHistory.                        *)
(*****************************************************************************)
EXTENDS StewardDataProofs, NaturalsInduction, WellFoundedInduction

-----------------------------------------------------------------------------
(* Recovery: in a session the Ship's view of what is incomplete is current,  *)
(* and recover() has still to complete exactly that.                         *)
RecoverInv ==
    \A p \in Procs :
        /\ pc[p] # "closed" => pending[p] = Incomplete(ctl)
        /\ pc[p] \in {"recover", "verify"} => todo[p] = pending[p]
        /\ pc[p] = "verify" => todo[p] = {}

(* A Completed row takes its transaction out of the incomplete ones, and no  *)
(* other.                                                                    *)
LEMMA IncompleteLess ==
    ASSUME NEW rows \in SUBSET Rows, NEW r \in Incomplete(rows)
    PROVE  Incomplete(rows \cup {Row("Completed", r)}) = Incomplete(rows) \ {r}
<1>1. r \in Rows /\ r.kind = "Begin" /\ r \in rows
  BY DEF Incomplete
<1>2. Row("Completed", r).kind = "Completed" /\ Row("Completed", r).seq = r.seq
  BY DEF Row
<1>3. ASSUME NEW s \in Incomplete(rows), s.seq = r.seq
      PROVE  s = r
  <2>1. s \in Rows /\ s.kind = "Begin" /\ s.txn \in Int /\ r.txn \in Int
    BY <1>1, StewardAssumption DEF Incomplete, Rows, TxnIds, NoTxn
  <2>2. s.txn <= r.txn /\ r.txn <= s.txn
    BY <1>1, <1>3 DEF Incomplete
  <2>3. s.txn = r.txn
    BY <2>1, <2>2
  <2>4. QED
    BY <1>1, <1>3, <2>1, <2>3 DEF Rows
<1>4. ASSUME NEW s \in Incomplete(rows \cup {Row("Completed", r)})
      PROVE  s \in Incomplete(rows) /\ s # r
  BY <1>1, <1>2, <1>4 DEF Incomplete
<1>5. ASSUME NEW s \in Incomplete(rows), s # r
      PROVE  s \in Incomplete(rows \cup {Row("Completed", r)})
  BY <1>2, <1>3, <1>5 DEF Incomplete
<1>6. QED
  BY <1>4, <1>5

(* A step that is not one of recovery's keeps the process outside recover(). *)
LEMMA ControlEffects ==
    ASSUME TypeOK, NEW p \in Procs, Step(p)
    PROVE  \/ /\ \/ pc'[p] = "closed"
                 \/ pending'[p] = Incomplete(ctl')
                 \/ pc[p] # "closed" /\ UNCHANGED control
              /\ pc'[p] \notin {"recover", "verify"}
           \/ RecoverStart(p) \/ RecoverStep(p)
<1> USE DEF TypeOK, Goto, control
<1>1. CASE OpenControl(p)
  <2>1. pending'[p] = Incomplete(ctl) /\ ctl' = ctl /\ pc'[p] = "opening"
    BY <1>1 DEF OpenControl
  <2>2. QED
    BY <2>1 DEF Incomplete
<1>0. CASE Exit(p)
  BY <1>0 DEF Exit
<1>2. CASE OpenData(p) \/ RecoverReturns(p) \/ FreezeLock(p) \/ UnfreezeLock(p)
           \/ FreezeReadTip(p) \/ AdmitWrite(p) \/ AdmitCompact(p) \/ DataBegin(p)
  BY <1>2 DEF OpenData, RecoverReturns, FreezeLock, UnfreezeLock, LockOnly,
     FreezeReadTip, AdmitWrite, AdmitCompact, DataBegin
<1>3. CASE BeginWrite(p) \/ CompactLock(p) \/ CommitData(p) \/ FactoryCommit(p)
           \/ Optimize(p)
  BY <1>3 DEF BeginWrite, CompactLock, TryAcquire, CommitData, FactoryCommit, Optimize
<1>4. CASE RejectFrozen(p) \/ RecordBeginFails(p) \/ CompactReturns(p)
           \/ RecordDataCommittedFails(p) \/ Finish(p) \/ FreezeReturns(p)
           \/ FreezeMark(p) \/ Unfreeze(p)
  <2>1. Leave(p) /\ UNCHANGED control /\ pc[p] # "closed"
    BY <1>4 DEF RejectFrozen, RecordBeginFails, CompactReturns, FreezePcs,
       RecordDataCommittedFails, Finish, FreezeReturns, FreezeMark, Unfreeze
  <2>2. QED
    BY <2>1 DEF Leave
<1>5. ASSUME NEW rows, Record(p, rows)
      PROVE  UNCHANGED control \/ pending'[p] = Incomplete(ctl')
  <2>1. CASE rows = {}
    BY <1>5, <2>1 DEF Record
  <2>2. CASE rows # {}
    BY <1>5, <2>2 DEF Record
  <2>3. QED
    BY <2>1, <2>2
<1>a. ASSUME NEW row, RecordOrNot(p, row)
      PROVE  UNCHANGED control \/ pending'[p] = Incomplete(ctl')
  BY <1>5, <1>a DEF RecordOrNot
<1> HIDE DEF control
<1>6. CASE \/ RecordBegin(p) \/ CompactBegin(p) \/ RecordDataCommitted(p)
           \/ FactoryBegin(p) \/ RecordFactory(p)
  <2>1. \E rows : Record(p, rows)
    BY <1>6 DEF RecordBegin, CompactBegin, RecordDataCommitted, FactoryBegin,
       RecordFactory
  <2>2. UNCHANGED control \/ pending'[p] = Incomplete(ctl')
    BY <1>5, <2>1
  <2>3. pc[p] # "closed" /\ pc'[p] \notin {"recover", "verify"}
    BY <1>6 DEF RecordBegin, CompactBegin, RecordDataCommitted, FactoryBegin,
       RecordFactory
  <2>4. QED
    BY <2>2, <2>3
<1>7. CASE \/ FactoryFails(p) \/ FactoryNoop(p) \/ DataBeginFails(p)
           \/ RollBack(p) \/ CommitNoop(p) \/ CompactNothing(p)
           \/ CompactCommitted(p) \/ CompactAltered(p)
  <2>1. (\E row : RecordOrNot(p, row)) \/ (\E rows : Record(p, rows))
    BY <1>7 DEF FactoryFails, FactoryNoop, DataBeginFails, RollBack, CommitNoop,
       CompactNothing, CompactCommitted, CompactAltered
  <2>2. UNCHANGED control \/ pending'[p] = Incomplete(ctl')
    BY <1>5, <1>a, <2>1
  <2>3. pc[p] # "closed" /\ pc'[p] \notin {"recover", "verify"}
    BY <1>7 DEF FactoryFails, FactoryNoop, DataBeginFails, RollBack, CommitNoop,
       CompactNothing, CompactCommitted, CompactAltered, Leave
  <2>4. QED
    BY <2>2, <2>3
<1>8. QED
  BY <1>0, <1>1, <1>2, <1>3, <1>4, <1>6, <1>7 DEF Step, Working

(* What recover() knows of the control table survives every step. *)
LEMMA RecoverInvStep ==
    ASSUME OneSession
    PROVE  TypeOK /\ SessionInv /\ RecoverInv /\ [Next]_vars => RecoverInv'
<1> SUFFICES ASSUME TypeOK, SessionInv, RecoverInv, [Next]_vars
             PROVE  RecoverInv'
  OBVIOUS
<1>1. ASSUME NEW p \in Procs, Step(p)
      PROVE  RecoverInv'
  <2>1. \A q \in Procs : q # p => pc'[q] = "closed"
    BY <1>1, OthersClosed
  <2>2. CASE /\ \/ pc'[p] = "closed"
                \/ pending'[p] = Incomplete(ctl')
                \/ pc[p] # "closed" /\ UNCHANGED control
             /\ pc'[p] \notin {"recover", "verify"}
    BY <1>1, <2>1, <2>2 DEF RecoverInv, control, Incomplete
  <2>3. CASE RecoverStart(p)
    BY <1>1, <2>1, <2>3 DEF RecoverInv, RecoverStart, control, Goto, TypeOK, Incomplete
  <2>4. CASE RecoverStep(p)
    <3>1. PICK r \in todo[p] :
            /\ Record(p, {Row("Completed", r)})
            /\ todo' = [todo EXCEPT ![p] = @ \ {r}]
            /\ Goto(p, IF todo[p] = {r} THEN "verify" ELSE "recover")
      BY <2>4 DEF RecoverStep
    <3>2. todo[p] = pending[p] /\ pending[p] = Incomplete(ctl)
      BY <1>1, <2>4 DEF RecoverStep, RecoverInv
    <3>3. ctl' = ctl \cup {Row("Completed", r)} /\ pending'[p] = Incomplete(ctl')
      BY <1>1, <3>1 DEF Record, TypeOK
    <3>4. ctl \in SUBSET Rows
      BY DEF TypeOK
    <3>5. Incomplete(ctl \cup {Row("Completed", r)}) = Incomplete(ctl) \ {r}
      BY <3>1, <3>2, <3>4, IncompleteLess, SMTT(40)
    <3>6. pending'[p] = todo[p] \ {r} /\ todo'[p] = todo[p] \ {r}
      BY <1>1, <3>1, <3>2, <3>3, <3>5 DEF TypeOK
    <3>7. pc'[p] = IF todo[p] = {r} THEN "verify" ELSE "recover"
      BY <1>1, <3>1 DEF Goto, TypeOK
    <3>8. pending'[p] = Incomplete(ctl')
      BY <3>3
    <3>9. QED
      BY <2>1, <3>6, <3>7, <3>8 DEF RecoverInv, Incomplete
  <2>5. QED
    BY <1>1, <2>2, <2>3, <2>4, ControlEffects
<1>2. CASE UNCHANGED vars
  BY <1>2 DEF vars, control, local, RecoverInv, Incomplete
<1>3. QED
  BY <1>1, <1>2 DEF Next

(* In a session, recover_command's check after recover() always passes: the  *)
(* recovery of many interrupted transactions leaves none incomplete.         *)
THEOREM RecoveryVerifiedHolds ==
    ASSUME OneSession
    PROVE  Spec => []RecoveryVerified
<1>1. Init => RecoverInv
  BY DEF Init, RecoverInv
<1>2. RecoverInv => RecoveryVerified
  BY DEF RecoverInv, RecoveryVerified
<1>3. QED
  BY <1>1, <1>2, RecoverInvStep, SessionAlways, TypeCorrect, PTL DEF Spec

-----------------------------------------------------------------------------
(* One session without factories: the Ship's snapshot and its allocator are  *)
(* current, so that a commit gets a new sequence and extends the chain, and  *)
(* an optimize finds the same content before and after.                      *)
UnreachedPcs == {"f_begun", "f_committed", "c_altered"}
ShipCurrent(p) ==
    /\ pc[p] \notin UnreachedPcs
    /\ pc[p] \notin {"closed", "opening"} =>
         /\ snap[p] = Len(leaves)
         /\ \A c \in commits : c.seq <= lastWriteSeq[p]
    /\ pc[p] \in UncommittedPcs => \A c \in commits : c.seq < txn[p].seq
    /\ pc[p] \in {"open", "c_begin", "c_begun"} => lastWriteSeq[p] = txn[p].seq

ChainInv ==
    /\ LinearChain
    /\ \A i \in DOMAIN leaves : \E c \in commits : c.txn = leaves[i].txn
    /\ \A p \in Procs : ShipCurrent(p)

(* On a linear chain the top version is the length and the tip the last leaf. *)
LEMMA ChainTop ==
    ASSUME TypeOK, MaxInv, LinearChain
    PROVE  /\ TopVersion(Len(leaves)) = Len(leaves)
           /\ Tips(Len(leaves)) =
                {IF Len(leaves) = 0 THEN NoTxn ELSE leaves[Len(leaves)].txn}
<1> DEFINE n == Len(leaves)
<1>1. n \in Nat /\ DOMAIN leaves = 1..n
  BY DEF TypeOK
<1>2. \A i \in 1..n : leaves[i].ver = i
  BY <1>1 DEF LinearChain
<1>3. /\ TopVersion(n) \in Versions(n)
      /\ \A x \in Versions(n) : x <= TopVersion(n)
  <2>1. n \in 0..Len(leaves)
    BY <1>1
  <2>2. QED
    BY <2>1, TopVersionFact
<1> HIDE DEF n
<1>4. Versions(n) = 0..n
  <2>1. Versions(n) \subseteq 0..n
    BY <1>1, <1>2 DEF Versions
  <2>2. ASSUME NEW i \in 0..n
        PROVE  i \in Versions(n)
    BY <1>1, <1>2 DEF Versions
  <2>3. QED
    BY <2>1, <2>2
<1>5. TopVersion(n) = n
  BY <1>1, <1>3, <1>4
<1>6. CASE n = 0
  BY <1>5, <1>6 DEF Tips, n
<1>7. CASE n # 0
  <2>1. {j \in 1..n : leaves[j].ver = n} = {n}
    BY <1>1, <1>2, <1>7
  <2>2. Tips(n) = {leaves[i].txn : i \in {j \in 1..n : leaves[j].ver = n}}
    BY <1>5, <1>7 DEF Tips
  <2>3. Tips(n) = {leaves[n].txn}
    BY <2>1, <2>2
  <2>4. QED
    BY <1>5, <1>7, <2>3 DEF n
<1>8. QED
  BY <1>6, <1>7

(* A Delta commit from a current snapshot extends the chain. *)
LEMMA ChainCommit ==
    ASSUME TypeOK, MaxInv, LinearChain, NEW x \in [seq : Nat, txn : TxnIds],
           DeltaCommit(x, Len(leaves))
    PROVE  /\ DOMAIN leaves' = 1..(Len(leaves) + 1)
           /\ \A i \in 1..Len(leaves) : leaves'[i] = leaves[i]
           /\ leaves'[Len(leaves) + 1] = [ver |-> Len(leaves) + 1, txn |-> x.txn,
                 parent |-> IF Len(leaves) = 0 THEN NoTxn ELSE leaves[Len(leaves)].txn]
           /\ LinearChain'
<1> DEFINE leaf == [ver |-> Len(leaves) + 1, txn |-> x.txn,
              parent |-> IF Len(leaves) = 0 THEN NoTxn ELSE leaves[Len(leaves)].txn]
<1>1. leaves' = Append(leaves, leaf)
  BY ChainTop DEF DeltaCommit
<1>2. Len(leaves) \in Nat /\ DOMAIN leaves = 1..Len(leaves)
  BY LeafType
<1>3. leaf \in [ver : Nat, txn : TxnIds, parent : {NoTxn} \cup TxnIds]
  <2>1. Len(leaves) # 0 => leaves[Len(leaves)].txn \in TxnIds
    BY <1>2, LeafType
  <2>2. QED
    BY <1>2, <2>1
<1>4. /\ DOMAIN leaves' = 1..(Len(leaves) + 1)
      /\ \A i \in 1..Len(leaves) : leaves'[i] = leaves[i]
      /\ leaves'[Len(leaves) + 1] = leaf
  <2> HIDE DEF leaf
  <2> DEFINE Leaf == [ver : Nat, txn : TxnIds, parent : {NoTxn} \cup TxnIds]
  <2>1. leaves \in Seq(Leaf) /\ leaf \in Leaf
    BY <1>3 DEF TypeOK
  <2> HIDE DEF Leaf
  <2>2. QED
    BY <1>1, <2>1, AppendFacts
<1>7. ASSUME NEW i \in DOMAIN leaves'
      PROVE  /\ leaves'[i].ver = i
             /\ leaves'[i].parent = IF i = 1 THEN NoTxn ELSE leaves'[i - 1].txn
  <2>1. CASE i \in 1..Len(leaves)
    <3>1. leaves'[i] = leaves[i] /\ i \in DOMAIN leaves
      BY <1>2, <1>4, <2>1
    <3>2. i # 1 => leaves'[i - 1] = leaves[i - 1]
      BY <1>2, <1>4, <2>1
    <3>3. QED
      BY <3>1, <3>2 DEF LinearChain
  <2>2. CASE i = Len(leaves) + 1
    <3>1. i # 1 => leaves'[i - 1] = leaves[Len(leaves)] /\ Len(leaves) # 0
      BY <1>2, <1>4, <2>2
    <3>2. i = 1 => Len(leaves) = 0
      BY <1>2, <2>2
    <3>3. leaves'[i] = leaf
      BY <1>4, <2>2
    <3>4. QED
      BY <2>2, <3>1, <3>2, <3>3, SMTT(40)
  <2>3. QED
    BY <1>2, <1>4, <1>7, <2>1, <2>2
<1>8. QED
  BY <1>4, <1>7 DEF LinearChain

(* The chain and the currency of the Ship are kept. *)
LEMMA ChainStep ==
    ASSUME OneSession, "factory" \notin Features
    PROVE  TypeInv /\ SessionInv /\ ChainInv /\ [Next]_vars => ChainInv'
<1> SUFFICES ASSUME TypeInv, SessionInv, ChainInv, [Next]_vars
             PROVE  ChainInv'
  OBVIOUS
<1>0. TypeOK /\ MaxInv /\ \A p \in Procs : pc[p] \in TxnPcs => txn[p].txn \in TxnIds
  BY DEF TypeInv
<1>1. ASSUME NEW p \in Procs, Step(p)
      PROVE  ChainInv'
  <2>1. \A q \in Procs : q # p => pc'[q] = "closed"
    BY <1>0, <1>1, OthersClosed
  <2>2. \A q \in Procs : q # p => ShipCurrent(q)'
    BY <2>1 DEF ShipCurrent, UnreachedPcs, UncommittedPcs, BegunPcs
  <2>3. ShipCurrent(p)
    BY <1>1 DEF ChainInv
  <2>4. ASSUME UNCHANGED <<commits, leaves>>, ShipCurrent(p)'
        PROVE  ChainInv'
    BY <2>2, <2>4 DEF ChainInv, LinearChain
  <2>5. /\ \A c \in commits : c.seq \in Int
        /\ txn[p].seq \in Nat \ {0} /\ lastWriteSeq[p] \in Nat
        /\ Len(leaves) \in Nat
    BY <1>0 DEF TypeOK
  <2> USE DEF Goto, store, ship, local, UncommittedPcs, BegunPcs, UnreachedPcs
  <2>6. ASSUME UNCHANGED <<commits, leaves, ship>>, Leave(p),
               pc[p] \notin {"closed", "opening"}
        PROVE  ChainInv'
    <3>1. ShipCurrent(p)'
      BY <1>0, <2>3, <2>6 DEF ShipCurrent, Leave, TypeOK
    <3>2. QED
      BY <2>4, <2>6, <3>1
  <2>7. CASE RejectFrozen(p) \/ RecordBeginFails(p) \/ CompactReturns(p)
             \/ RecordDataCommittedFails(p) \/ Finish(p) \/ FreezeReturns(p)
             \/ FreezeMark(p) \/ Unfreeze(p) \/ DataBeginFails(p)
    BY <2>6, <2>7 DEF RejectFrozen, RecordBeginFails, CompactReturns, FreezePcs,
       RecordDataCommittedFails, Finish, FreezeReturns, FreezeMark, Unfreeze,
       DataBeginFails
  <2>8. CASE OpenControl(p) \/ Exit(p) \/ RecoverReturns(p) \/ FreezeLock(p)
             \/ UnfreezeLock(p) \/ FreezeReadTip(p)
    <3>1. UNCHANGED <<commits, leaves>>
      BY <2>8 DEF OpenControl, Exit, RecoverReturns, FreezeLock, UnfreezeLock,
         LockOnly, FreezeReadTip
    <3>a. pc \in [Procs -> Pcs]
      BY <1>0 DEF TypeOK
    <3>b. \/ pc'[p] \in {"opening", "closed"}
          \/ /\ UNCHANGED ship
             /\ pc[p] \notin {"closed", "opening"}
             /\ pc'[p] \in {"idle", "z_locked", "u_locked", "z_tip"}
      BY <2>8, <3>a DEF OpenControl, Exit, RecoverReturns, FreezeLock, UnfreezeLock,
         LockOnly, FreezeReadTip
    <3>2. ShipCurrent(p)'
      BY <2>3, <3>1, <3>b DEF ShipCurrent
    <3>3. QED
      BY <2>4, <3>1, <3>2
  <2>9. CASE RecoverStart(p) \/ RecoverStep(p)
    <3>1. /\ UNCHANGED <<commits, leaves, ship, txn>>
          /\ pc'[p] \in {"recover", "verify"} /\ pc[p] \in {"idle", "recover"}
      BY <1>0, <2>9 DEF RecoverStart, RecoverStep, TypeOK
    <3>2. ShipCurrent(p)'
      BY <2>3, <3>1 DEF ShipCurrent
    <3>3. QED
      BY <2>4, <3>1, <3>2
  <2>10. CASE OpenData(p)
    <3>1. \A c \in commits : c.seq <= LastTxnSeq
      BY <1>0, LastTxnSeqFact
    <3>2. UNCHANGED <<commits, leaves>> /\ pc'[p] = "idle"
          /\ lastWriteSeq'[p] = LastTxnSeq /\ snap'[p] = Len(leaves)
      BY <1>0, <2>10 DEF OpenData, TypeOK
    <3>3. ShipCurrent(p)'
      BY <3>1, <3>2 DEF ShipCurrent
    <3>4. QED
      BY <2>4, <3>2, <3>3
  <2>11. CASE BeginWrite(p) \/ CompactLock(p)
    <3>0. PICK to \in {"w_locked", "c_locked"} : TryAcquire(p, to)
      BY <2>11 DEF BeginWrite, CompactLock
    <3>1. /\ UNCHANGED <<commits, leaves, ship>> /\ pc[p] = "idle"
          /\ pc'[p] \in {"w_locked", "c_locked"}
          /\ txn'[p].seq = lastWriteSeq[p] + 1
      <4>1. pc \in [Procs -> Pcs] /\ p \in DOMAIN txn
        BY <1>0 DEF TypeOK
      <4>2. QED
        BY <3>0, <4>1 DEF TryAcquire
    <3>2. ShipCurrent(p)'
      BY <2>3, <2>5, <3>1, SMTT(40) DEF ShipCurrent
    <3>3. QED
      BY <2>4, <3>1, <3>2
  <2>12. CASE AdmitWrite(p) \/ RecordBegin(p) \/ RecordDataCommitted(p)
              \/ CompactBegin(p)
    <3>1. UNCHANGED <<commits, leaves, ship, txn>>
      BY <2>12 DEF AdmitWrite, RecordBegin, RecordDataCommitted, CompactBegin
    <3>2. ShipCurrent(p)'
      BY <1>0, <2>3, <2>12, <3>1 DEF AdmitWrite, RecordBegin, RecordDataCommitted,
         CompactBegin, ShipCurrent, TypeOK
    <3>3. QED
      BY <2>4, <3>1, <3>2
  <2>13. CASE DataBegin(p) \/ AdmitCompact(p)
    <3>1. /\ UNCHANGED <<commits, leaves, txn, snap>>
          /\ lastWriteSeq'[p] = txn[p].seq
          /\ pc[p] \in {"begun", "c_locked"} /\ pc'[p] \in {"open", "c_begin"}
      BY <1>0, <2>13 DEF DataBegin, AdmitCompact, TypeOK
    <3>a. /\ snap[p] = Len(leaves)
          /\ \A c \in commits : c.seq < txn[p].seq
      BY <2>3, <3>1 DEF ShipCurrent
    <3>b. \A c \in commits : c.seq <= txn[p].seq
      BY <2>5, <3>a
    <3>2. ShipCurrent(p)'
      BY <3>1, <3>a, <3>b DEF ShipCurrent
    <3>3. QED
      BY <2>4, <3>1, <3>2
  <2>14. CASE RollBack(p) \/ CompactNothing(p)
    <3>1. /\ UNCHANGED <<commits, leaves, snap>>
          /\ lastWriteSeq'[p] = txn[p].seq - 1
          /\ pc[p] \in {"open", "c_begun"} /\ pc'[p] = "idle"
      BY <1>0, <2>14 DEF RollBack, CompactNothing, Leave, TypeOK
    <3>a. /\ snap[p] = Len(leaves)
          /\ \A c \in commits : c.seq < txn[p].seq
      BY <2>3, <3>1 DEF ShipCurrent
    <3>b. \A c \in commits : c.seq <= txn[p].seq - 1
      BY <2>5, <3>a
    <3>2. ShipCurrent(p)'
      BY <3>1, <3>a, <3>b DEF ShipCurrent
    <3>3. QED
      BY <2>4, <3>1, <3>2
  <2>15. CASE CommitNoop(p) \/ CompactCommitted(p)
    <3>1. /\ UNCHANGED <<commits, leaves, snap, lastWriteSeq>>
          /\ pc[p] \in {"open", "c_committed"} /\ pc'[p] = "idle"
      BY <1>0, <2>15 DEF CommitNoop, CompactCommitted, Leave, TypeOK
    <3>2. ShipCurrent(p)'
      BY <2>3, <3>1 DEF ShipCurrent
    <3>3. QED
      BY <2>4, <3>1, <3>2
  <2>16. CASE Optimize(p)
    <3>1. /\ commits' = commits \cup {txn[p]} /\ leaves' = leaves
          /\ snap'[p] = Len(leaves) /\ lastWriteSeq'[p] = txn[p].seq
          /\ pc[p] = "c_begun" /\ pc'[p] = "c_committed"
      BY <1>0, <2>3, <2>16 DEF Optimize, ShipCurrent, TypeOK
    <3>2. ShipCurrent(p)'
      BY <2>3, <2>5, <3>1, SMTT(40) DEF ShipCurrent
    <3>3. QED
      BY <2>2, <3>1, <3>2 DEF ChainInv, LinearChain
  <2>17. CASE CommitData(p)
    <3>1. txn[p] \in [seq : Nat, txn : TxnIds] /\ snap[p] = Len(leaves)
      BY <1>0, <2>3, <2>17 DEF CommitData, ShipCurrent, TypeOK, TxnPcs, WritePcs
    <3>2. DeltaCommit(txn[p], Len(leaves)) /\ Len(leaves) \in 0..Len(leaves)
      <4>1. DeltaCommit(txn[p], snap[p])
        BY <2>17 DEF CommitData
      <4>2. Len(leaves) \in 0..Len(leaves)
        BY <2>5
      <4>3. QED
        BY <3>1, <4>1, <4>2
    <3>3. LinearChain' /\ DOMAIN leaves' = 1..(Len(leaves) + 1)
      BY <1>0, <3>1, <3>2, ChainCommit DEF ChainInv
    <3>4. /\ commits' = commits \cup {txn[p]}
          /\ Len(leaves') = Len(leaves) + 1
          /\ leaves'[Len(leaves) + 1].txn = txn[p].txn
          /\ \A i \in 1..Len(leaves) : leaves'[i] = leaves[i]
      BY <1>0, <3>1, <3>2, DeltaCommitType
    <3>5. DOMAIN leaves = 1..Len(leaves)
      BY <1>0, LeafType
    <3>6. \A i \in DOMAIN leaves' : \E c \in commits' : c.txn = leaves'[i].txn
      BY <2>5, <3>3, <3>4, <3>5, SMTT(40) DEF ChainInv
    <3>7. /\ snap'[p] = Len(leaves') /\ lastWriteSeq'[p] = txn[p].seq
          /\ pc[p] = "open" /\ pc'[p] = "committed"
      BY <1>0, <2>3, <2>17 DEF CommitData, ShipCurrent, TypeOK
    <3>a. \A c \in commits : c.seq < txn[p].seq
      BY <2>3, <3>7 DEF ShipCurrent
    <3>b. \A c \in commits' : c.seq <= txn[p].seq
      BY <2>5, <3>4, <3>a
    <3>8. ShipCurrent(p)'
      BY <3>7, <3>b DEF ShipCurrent
    <3>9. QED
      BY <2>2, <3>3, <3>6, <3>8 DEF ChainInv
  <2>18. CASE FactoryBegin(p) \/ FactoryFails(p) \/ FactoryNoop(p)
              \/ FactoryCommit(p) \/ RecordFactory(p) \/ CompactAltered(p)
    BY <2>3, <2>18 DEF FactoryBegin, FactoryFails, FactoryNoop, FactoryCommit,
       RecordFactory, CompactAltered, ShipCurrent
  <2>19. QED
    BY <1>1, <2>7, <2>8, <2>9, <2>10, <2>11, <2>12, <2>13, <2>14, <2>15, <2>16,
       <2>17, <2>18 DEF Step, Working
<1>2. CASE UNCHANGED vars
  BY <1>2 DEF vars, store, ship, local, ChainInv, ShipCurrent, LinearChain
<1>3. QED
  BY <1>1, <1>2 DEF Next

(* The Ship is current and the commit log is a chain, in every reachable state. *)
LEMMA ChainAlways ==
    ASSUME OneSession, "factory" \notin Features
    PROVE  Spec => [](TypeInv /\ SessionInv /\ ChainInv)
<1>1. Init => ChainInv
  <2> SUFFICES ASSUME Init
               PROVE  ChainInv
    OBVIOUS
  <2>1. DOMAIN leaves = {}
    BY DEF Init
  <2>2. \A p \in Procs : pc[p] = "closed"
    BY DEF Init
  <2>3. \A p \in Procs : ShipCurrent(p)
    BY <2>2 DEF ShipCurrent, UnreachedPcs, UncommittedPcs, BegunPcs
  <2>4. QED
    BY <2>1, <2>3 DEF ChainInv, LinearChain
<1>2. QED
  BY <1>1, ChainStep, SessionAlways, TypeInit, TypeStep, PTL DEF Spec

(* In one session at a time and without factories, the commit log is one     *)
(* linear chain.                                                             *)
THEOREM LinearChainHolds ==
    ASSUME OneSession, "factory" \notin Features
    PROVE  Spec => []LinearChain
<1>1. ChainInv => LinearChain
  BY DEF ChainInv
<1>2. QED
  BY <1>1, ChainAlways, PTL

(* Under the same conditions, txn_seq strictly increases from Delta commit   *)
(* to Delta commit, compactions included.                                    *)
THEOREM SeqStrictlyIncreasingHolds ==
    ASSUME OneSession, "factory" \notin Features
    PROVE  Spec => SeqStrictlyIncreasing
<1>1. TypeInv /\ SessionInv /\ ChainInv /\ [Next]_vars
        => [\A c \in commits' \ commits : \A d \in commits : d.seq < c.seq]_vars
  <2> SUFFICES ASSUME TypeInv, SessionInv, ChainInv, [Next]_vars
               PROVE  \A c \in commits' \ commits : \A d \in commits : d.seq < c.seq
    OBVIOUS
  <2>1. ASSUME NEW p \in Procs, Step(p)
        PROVE  \A c \in commits' \ commits : \A d \in commits : d.seq < c.seq
    <3>1. TypeOK /\ BegunPcs \subseteq UncommittedPcs
      BY DEF TypeInv, UncommittedPcs
    <3>2. UNCHANGED commits \/ Commits(p)
      BY <2>1, <3>1, DataEffects DEF Quiet, Fails, Begins, Allocates
    <3>3. QED
      BY <2>1, <3>1, <3>2 DEF Commits, ChainInv, ShipCurrent
  <2>2. CASE UNCHANGED vars
    BY <2>2 DEF vars, store
  <2>3. QED
    BY <2>1, <2>2 DEF Next
<1>2. QED
  BY <1>1, ChainAlways, PTL DEF Spec, SeqStrictlyIncreasing

(* Under the same conditions a Failed row means more: the transaction made no *)
(* Delta commit at all, since a compaction finds the content as it left it.   *)
FailedExact == \A c \in commits, r \in ctl : r.kind = "Failed" => r.txn # c.txn

THEOREM FailedExactHolds ==
    ASSUME OneSession, "factory" \notin Features
    PROVE  Spec => []FailedExact
<1>1. Init => FailedExact
  BY DEF Init, FailedExact, Row, Genesis
<1>2. TypeOK /\ DataInv /\ ChainInv /\ FailedExact /\ [Next]_vars => FailedExact'
  <2> SUFFICES ASSUME TypeOK, DataInv, ChainInv, FailedExact, [Next]_vars
               PROVE  FailedExact'
    OBVIOUS
  <2>1. ASSUME NEW p \in Procs, Step(p)
        PROVE  FailedExact'
    <3>1. pc[p] # "c_altered" /\ BegunPcs \subseteq UncommittedPcs
      BY <2>1 DEF ChainInv, ShipCurrent, UnreachedPcs, UncommittedPcs
    <3>2. pc[p] \in UncommittedPcs =>
            /\ \A c \in commits : c.txn # txn[p].txn
            /\ \A r \in ctl : r.kind = "Failed" => r.txn # txn[p].txn
      BY <2>1 DEF DataInv
    <3>3. \A k, x : Row(k, x).kind = k /\ Row(k, x).txn = x.txn
      BY DEF Row
    <3>4. CASE Quiet(p) \/ Begins(p) \/ Allocates(p)
      <4>1. \A r \in ctl' : r.kind = "Failed" => r \in ctl
        BY <3>3, <3>4 DEF Quiet, Begins, Allocates
      <4>2. QED
        BY <3>4, <4>1 DEF Quiet, Begins, Allocates, FailedExact
    <3>5. CASE Fails(p)
      BY <3>1, <3>2, <3>3, <3>5 DEF Fails, FailedExact
    <3>6. CASE Commits(p)
      BY <3>1, <3>2, <3>6 DEF Commits, FailedExact
    <3>7. QED
      BY <2>1, <3>4, <3>5, <3>6, DataEffects
  <2>2. CASE UNCHANGED vars
    BY <2>2 DEF vars, store, control, FailedExact
  <2>3. QED
    BY <2>1, <2>2 DEF Next
<1>3. QED
  BY <1>1, <1>2, DataAlways, ChainAlways, PTL DEF Spec

-----------------------------------------------------------------------------
(* Crashes: of the rows that share a committed sequence, the committed       *)
(* transaction's are the last, so that no later attempt can hide it.         *)
CommittedPcs == {"committed", "c_committed"}
RowsInv ==
    /\ \A c \in commits, r \in ctl : r.seq = c.seq => r.txn <= c.txn
    /\ \A r \in ctl : r.txn < nextTxn
    /\ \A p \in Procs :
         /\ pc[p] \in UncommittedPcs => \A r \in ctl : r.txn <= txn[p].txn
         /\ pc[p] \in CommittedPcs =>
              \A c \in commits : c.seq = txn[p].seq => c.txn = txn[p].txn

(* A row of the transaction that the process itself runs.                    *)
OwnRow(p, r) ==
    /\ pc[p] \in UncommittedPcs \cup CommittedPcs
    /\ r.seq = txn[p].seq
    /\ r.txn = txn[p].txn

(* A new row is of the writer's own transaction, or of one that recover()    *)
(* has on its list.                                                          *)
LEMMA RowEffects ==
    ASSUME TypeOK, NEW p \in Procs, Step(p), pc[p] \notin UnreachedPcs,
           "factory" \notin Features
    PROVE  \A r \in ctl' : \/ r \in ctl
                           \/ OwnRow(p, r)
                           \/ \E s \in todo[p] : pc[p] = "recover"
                                /\ r.seq = s.seq /\ r.txn = s.txn
<1> USE DEF UncommittedPcs, BegunPcs, CommittedPcs
<1>a. \A k, x : Row(k, x).seq = x.seq /\ Row(k, x).txn = x.txn
  BY DEF Row
<1>b. ASSUME NEW k, RecordOrNot(p, Row(k, txn[p])) \/ Record(p, {Row(k, txn[p])}),
             pc[p] \in UncommittedPcs \cup CommittedPcs
      PROVE  \A r \in ctl' : r \in ctl \/ OwnRow(p, r)
  <2>1. ctl' = ctl \/ ctl' = ctl \cup {Row(k, txn[p])}
    BY <1>b DEF RecordOrNot, Record
  <2>2. QED
    BY <1>a, <1>b, <2>1 DEF OwnRow
<1>1. CASE \/ RecordBegin(p) \/ CompactBegin(p) \/ RecordDataCommitted(p)
           \/ DataBeginFails(p) \/ RollBack(p) \/ CommitNoop(p) \/ CompactNothing(p)
           \/ CompactCommitted(p)
  <2>1. /\ pc[p] \in UncommittedPcs \cup CommittedPcs
        /\ \E k : RecordOrNot(p, Row(k, txn[p])) \/ Record(p, {Row(k, txn[p])})
    BY <1>1 DEF RecordBegin, CompactBegin, RecordDataCommitted, DataBeginFails,
       RollBack, CommitNoop, CompactNothing, CompactCommitted
  <2>2. QED
    BY <1>b, <2>1
<1>2. CASE RecoverStep(p)
  <2>1. PICK s \in todo[p] : ctl' = ctl \cup {Row("Completed", s)}
    BY <1>2 DEF RecoverStep, Record
  <2>2. QED
    BY <1>2, <1>a, <2>1 DEF RecoverStep
<1>3. CASE FactoryBegin(p) \/ FactoryFails(p) \/ FactoryNoop(p) \/ FactoryCommit(p)
           \/ RecordFactory(p) \/ CompactAltered(p)
  BY <1>3 DEF FactoryBegin, FactoryFails, FactoryNoop, FactoryCommit, RecordFactory,
     CompactAltered, UnreachedPcs
<1>4. CASE ctl' = ctl
  BY <1>4
<1>5. QED
  BY <1>1, <1>2, <1>3, <1>4 DEF control, Step, Working, OpenControl, OpenData, Exit,
     BeginWrite, CompactLock, FreezeLock, UnfreezeLock, TryAcquire, LockOnly,
     RecoverStart, RecoverReturns, RejectFrozen, AdmitWrite, RecordBeginFails,
     DataBegin, CommitData, RecordDataCommittedFails, Finish, AdmitCompact,
     CompactReturns, Optimize, FreezeReadTip, FreezeReturns, FreezeMark, Unfreeze

(* Where a step leaves a transaction that has not committed, or just has. *)
LEMMA PhaseEffects ==
    ASSUME TypeOK, NEW p \in Procs, Step(p), pc[p] \notin UnreachedPcs,
           "factory" \notin Features
    PROVE  /\ pc'[p] \in UncommittedPcs =>
                \/ pc[p] \in UncommittedPcs /\ UNCHANGED <<txn, nextTxn>>
                \/ txn'[p].txn = nextTxn /\ UNCHANGED ctl
           /\ pc'[p] \in CommittedPcs => Commits(p)
<1> USE DEF UncommittedPcs, BegunPcs, CommittedPcs, Goto, local
<1>a. pc \in [Procs -> Pcs] /\ p \in DOMAIN txn
  BY DEF TypeOK
<1>1. CASE BeginWrite(p) \/ CompactLock(p)
  <2>1. PICK to \in {"w_locked", "c_locked"} : TryAcquire(p, to)
    BY <1>1 DEF BeginWrite, CompactLock
  <2>2. pc'[p] = to /\ txn'[p].txn = nextTxn /\ ctl' = ctl
    BY <1>a, <2>1 DEF TryAcquire, control
  <2>3. QED
    BY <2>2
<1>2. CASE CommitData(p) \/ Optimize(p)
  <2>1. pc'[p] \notin UncommittedPcs
    BY <1>a, <1>2 DEF CommitData, Optimize
  <2>2. QED
    BY <1>2, <2>1, CommitEffects
<1>3. CASE AdmitWrite(p) \/ RecordBegin(p) \/ DataBegin(p) \/ AdmitCompact(p)
           \/ CompactBegin(p)
  <2>1. UNCHANGED <<txn, nextTxn>> /\ pc[p] \in UncommittedPcs
        /\ pc'[p] \notin CommittedPcs
    BY <1>a, <1>3 DEF AdmitWrite, RecordBegin, DataBegin, AdmitCompact, CompactBegin
  <2>2. QED
    BY <2>1
<1>4. CASE Leave(p)
  BY <1>a, <1>4 DEF Leave
<1>5. CASE OpenControl(p) \/ OpenData(p) \/ Exit(p) \/ FreezeLock(p) \/ UnfreezeLock(p)
           \/ RecoverStart(p) \/ RecoverReturns(p) \/ FreezeReadTip(p)
           \/ RecordDataCommitted(p)
  BY <1>a, <1>5 DEF OpenControl, OpenData, Exit, FreezeLock, UnfreezeLock, LockOnly,
     RecoverStart, RecoverReturns, FreezeReadTip, RecordDataCommitted
<1>6. CASE RecoverStep(p)
  BY <1>a, <1>6 DEF RecoverStep
<1>7. CASE FactoryBegin(p) \/ FactoryFails(p) \/ FactoryNoop(p) \/ FactoryCommit(p)
           \/ RecordFactory(p) \/ CompactAltered(p)
  BY <1>7 DEF FactoryBegin, FactoryFails, FactoryNoop, FactoryCommit, RecordFactory,
     CompactAltered, UnreachedPcs
<1>8. QED
  BY <1>1, <1>2, <1>3, <1>4, <1>5, <1>6, <1>7 DEF Step, Working, RejectFrozen,
     RecordBeginFails, DataBeginFails, RollBack, CommitNoop, RecordDataCommittedFails,
     Finish, CompactReturns, CompactNothing, CompactCommitted, FreezeReturns,
     FreezeMark, Unfreeze

(* The order of the rows of one sequence is kept. *)
LEMMA RowsStep ==
    ASSUME OneSession, "factory" \notin Features
    PROVE  /\ TypeInv /\ DataInv /\ SessionInv /\ RecoverInv /\ ChainInv /\ RowsInv
           /\ [Next]_vars
           => RowsInv'
<1> SUFFICES ASSUME TypeInv, DataInv, SessionInv, RecoverInv, ChainInv, RowsInv,
                    [Next]_vars
             PROVE  RowsInv'
  OBVIOUS
<1>0. TypeOK
  BY DEF TypeInv
<1>1. ASSUME NEW p \in Procs, Step(p)
      PROVE  RowsInv'
  <2>0. /\ nextTxn \in Int /\ txn[p].txn \in Int /\ txn[p].seq \in Int
        /\ \A c \in commits : c.seq \in Int /\ c.txn \in Int
        /\ \A r \in ctl : r.seq \in Int /\ r.txn \in Int
    BY <1>0, <1>1, StewardAssumption DEF TypeOK, Rows, TxnIds, NoTxn
  <2>1. /\ \A q \in Procs : q # p => pc'[q] = "closed"
        /\ "closed" \notin UncommittedPcs \cup CommittedPcs
        /\ BegunPcs \subseteq UncommittedPcs
        /\ UncommittedPcs \cup CommittedPcs \subseteq TxnPcs
    BY <1>0, <1>1, OthersClosed DEF UncommittedPcs, BegunPcs, CommittedPcs, TxnPcs,
       WritePcs, CompactPcs
  <2>2. pc[p] \notin UnreachedPcs
    BY <1>1 DEF ChainInv, ShipCurrent
  <2>3. /\ pc[p] \in UncommittedPcs => /\ \A c \in commits : c.seq < txn[p].seq
                                       /\ \A r \in ctl : r.txn <= txn[p].txn
        /\ pc[p] \in CommittedPcs =>
             \A c \in commits : c.seq = txn[p].seq => c.txn = txn[p].txn
        /\ pc[p] \in TxnPcs => txn[p].txn < nextTxn
    BY <1>1 DEF ChainInv, ShipCurrent, RowsInv, DataInv
  <2>4. pc[p] = "recover" => todo[p] \subseteq ctl
    BY <1>1 DEF RecoverInv, Incomplete
  <2>5. ASSUME NEW r \in ctl'
        PROVE  \/ \E s \in ctl : r.seq = s.seq /\ r.txn = s.txn
               \/ OwnRow(p, r)
    BY <1>0, <1>1, <2>2, <2>4, <2>5, RowEffects
  <2>6. \A r \in ctl' : r.txn < nextTxn
    BY <2>1, <2>3, <2>5 DEF OwnRow, RowsInv
  <2>7. \A c \in commits, r \in ctl' : r.seq = c.seq => r.txn <= c.txn
    <3> SUFFICES ASSUME NEW c \in commits, NEW r \in ctl', r.seq = c.seq
                 PROVE  r.txn <= c.txn
      OBVIOUS
    <3>1. CASE \E s \in ctl : r.seq = s.seq /\ r.txn = s.txn
      <4>1. PICK s \in ctl : r.seq = s.seq /\ r.txn = s.txn
        BY <3>1
      <4>2. s.txn <= c.txn
        BY <4>1 DEF RowsInv
      <4>3. QED
        BY <4>1, <4>2
    <3>2. CASE OwnRow(p, r)
      <4>0. /\ r.seq = txn[p].seq /\ r.txn = txn[p].txn
            /\ pc[p] \in UncommittedPcs \/ pc[p] \in CommittedPcs
            /\ c.seq \in Int /\ c.txn \in Int
        BY <2>0, <3>2 DEF OwnRow
      <4>1. pc[p] \notin UncommittedPcs
        <5>1. pc[p] \in UncommittedPcs => c.seq < c.seq
          BY <2>3, <4>0
        <5>2. QED
          BY <4>0, <5>1
      <4>2. c.txn = r.txn
        BY <2>3, <4>0, <4>1
      <4>3. QED
        BY <4>0, <4>2
    <3>3. QED
      BY <2>5, <3>1, <3>2
  <2>8. pc[p] \in UncommittedPcs => \A r \in ctl' : r.txn <= txn[p].txn
    BY <2>0, <2>3, <2>5 DEF OwnRow
  <2>9. CASE Commits(p)
    <3>1. commits' = commits \cup {txn[p]} /\ ctl' = ctl /\ txn' = txn
          /\ nextTxn' = nextTxn /\ pc[p] \in UncommittedPcs /\ pc'[p] \notin UncommittedPcs
      BY <2>1, <2>9 DEF Commits
    <3>2. \A c \in commits', r \in ctl' : r.seq = c.seq => r.txn <= c.txn
      BY <2>7, <2>8, <3>1
    <3>3. \A c \in commits' : c.seq = txn'[p].seq => c.txn = txn'[p].txn
      BY <2>0, <2>3, <3>1
    <3>4. QED
      BY <2>1, <2>6, <3>1, <3>2, <3>3 DEF RowsInv
  <2>10. CASE ~ Commits(p)
    <3>1. commits' = commits /\ nextTxn' \in {nextTxn, nextTxn + 1}
      BY <1>0, <1>1, <2>10, DataEffects DEF Quiet, Fails, Begins, Allocates
    <3>2. pc'[p] \notin CommittedPcs
      BY <1>0, <1>1, <2>2, <2>10, PhaseEffects
    <3>3. \A r \in ctl' : r.txn < nextTxn' /\ r.txn \in Int
      BY <2>0, <2>5, <2>6, <3>1 DEF OwnRow
    <3>4. pc'[p] \in UncommittedPcs => \A r \in ctl' : r.txn <= txn'[p].txn
      <4>1. CASE pc[p] \in UncommittedPcs /\ UNCHANGED <<txn, nextTxn>>
        BY <2>8, <4>1
      <4>2. CASE txn'[p].txn = nextTxn /\ UNCHANGED ctl
        BY <2>0, <2>6, <4>2
      <4>3. QED
        BY <1>0, <1>1, <2>2, <4>1, <4>2, PhaseEffects
    <3>5. QED
      BY <2>1, <2>7, <3>1, <3>2, <3>3, <3>4 DEF RowsInv
  <2>11. QED
    BY <2>9, <2>10
<1>2. CASE UNCHANGED vars
  BY <1>2 DEF vars, store, control, local, RowsInv
<1>3. QED
  BY <1>1, <1>2 DEF Next

(* Of the Begin rows of one sequence there is a first. *)
LEMMA FirstBegin ==
    ASSUME NEW rows \in SUBSET Rows, NEW b \in rows
    PROVE  \E r \in rows : r.seq = b.seq /\ \A s \in rows : s.seq = b.seq => r.txn <= s.txn
<1> DEFINE T == {s.txn : s \in {x \in rows : x.seq = b.seq}}
<1>1. T \in SUBSET Nat /\ T # {}
  BY StewardAssumption DEF Rows, TxnIds, NoTxn
<1> HIDE DEF T
<1>2. PICK m \in T : \A x \in T : <<x, m>> \notin OpToRel(<, Nat)
  BY <1>1, NatLessThanWellFounded, WFMin
<1>3. \A x \in T : m <= x
  <2>1. \A x \in T : x \in Nat /\ m \in Nat /\ ~(x < m)
    BY <1>1, <1>2 DEF OpToRel
  <2>2. QED
    BY <2>1
<1>4. PICK r \in rows : r.seq = b.seq /\ r.txn = m
  BY <1>2 DEF T
<1>5. \A s \in rows : s.seq = b.seq => s.txn \in T
  BY DEF T
<1>6. QED
  BY <1>3, <1>4, <1>5

(* The rows decide: what a commit's sequence has on record tells whether it  *)
(* is reported.                                                              *)
LEMMA Reported ==
    ASSUME TypeOK, AuditTrail, RowsInv, NEW c \in commits
    PROVE  \/ \E k \in Terminal : Row(k, c) \in ctl
           \/ \E r \in Incomplete(ctl) : r.seq = c.seq
           \/ \E r \in ctl : r.kind \in Terminal /\ r.seq = c.seq /\ r.txn < c.txn
<1>a. {NoTxn} \cup TxnIds \subseteq Int
  BY StewardAssumption DEF TxnIds, NoTxn
<1>b. c.txn \in Int /\ \A r \in ctl : r \in Rows /\ r.txn \in Int
  BY <1>a DEF TypeOK, Rows
<1>c. Row("Begin", c) \in ctl /\ Row("Begin", c).seq = c.seq
  BY DEF AuditTrail, Row
<1>0. /\ c.txn \in Int /\ Row("Begin", c) \in ctl /\ Row("Begin", c).seq = c.seq
      /\ \A r \in ctl : r \in Rows /\ r.txn \in Int
  BY <1>b, <1>c
<1>1. CASE \E r \in ctl : r.kind \in Terminal /\ r.seq = c.seq
  <2>1. PICK r \in ctl : r.kind \in Terminal /\ r.seq = c.seq
    BY <1>1
  <2>2. r.txn <= c.txn
    BY <2>1 DEF RowsInv
  <2>3. CASE r.txn = c.txn
    <3>1. r = Row(r.kind, c)
      BY <1>0, <2>1, <2>3 DEF Row, Rows
    <3>2. QED
      BY <2>1, <3>1
  <2>4. CASE r.txn # c.txn
    <3>1. r.txn < c.txn
      BY <1>0, <2>2, <2>4
    <3>2. QED
      BY <2>1, <3>1
  <2>5. QED
    BY <2>3, <2>4
<1>2. CASE \A r \in ctl : r.seq = c.seq => r.kind \notin Terminal
  <2>1. PICK r \in ctl : r.seq = c.seq /\ \A s \in ctl : s.seq = c.seq => r.txn <= s.txn
    BY <1>0, FirstBegin DEF TypeOK
  <2>2. \A s \in ctl : s.seq = c.seq => s.kind = "Begin"
    BY <1>0, <1>2 DEF Rows, RecordKinds, Terminal
  <2>3. r \in Incomplete(ctl)
    BY <2>1, <2>2 DEF Incomplete
  <2>4. QED
    BY <2>1, <2>3
<1>3. QED
  BY <1>1, <1>2

(* In one session at a time and without factories, a data commit that lost   *)
(* its control rows to a crash stays reported as incomplete until it has a   *)
(* terminal row, or is hidden by an earlier attempt that ended; no later     *)
(* attempt at its sequence, and no recovery of another, hides it.            *)
THEOREM CrashDetectedHolds ==
    ASSUME OneSession, "factory" \notin Features
    PROVE  Spec => []CrashDetected
<1>1. Init => RowsInv
  <2> SUFFICES ASSUME Init PROVE RowsInv
    OBVIOUS
  <2>a. /\ commits = {Genesis} /\ nextTxn = 1
        /\ \A r \in ctl : \E kind : r = Row(kind, Genesis)
    BY Zenon DEF Init
  <2>b. \A kind : Row(kind, Genesis).txn = Genesis.txn
    BY DEF Row
  <2>1. commits = {Genesis} /\ nextTxn = 1 /\ \A r \in ctl : r.txn = Genesis.txn
    BY <2>a, <2>b, Zenon
  <2>2. Genesis.txn <= Genesis.txn /\ Genesis.txn < 1
    BY DEF Genesis, NoTxn
  <2>3. /\ \A c \in commits, r \in ctl : r.txn <= c.txn
        /\ \A r \in ctl : r.txn < nextTxn
    BY <2>1, <2>2, Zenon
  <2>4. \A p \in Procs : pc[p] = "closed"
    BY DEF Init
  <2>5. \A p \in Procs : pc[p] \notin UncommittedPcs /\ pc[p] \notin CommittedPcs
    BY <2>4 DEF UncommittedPcs, BegunPcs, CommittedPcs
  <2>6. QED
    BY <2>3, <2>5, Zenon DEF RowsInv
<1>2. Init => RecoverInv
  BY DEF Init, RecoverInv
<1>3. TypeInv /\ DataInv /\ RowsInv => CrashDetected
  BY Reported, Zenon DEF TypeInv, DataInv, CrashDetected
<1>4. QED
  BY <1>1, <1>2, <1>3, RowsStep, RecoverInvStep, ChainAlways, DataAlways, PTL DEF Spec

-----------------------------------------------------------------------------
(* Only a data commit adds a leaf to the commit log. *)
LEMMA LeafEffects ==
    ASSUME NEW p \in Procs, Step(p)
    PROVE  UNCHANGED leaves \/ CommitData(p) \/ FactoryCommit(p)
BY DEF store, Step, Working, OpenControl, OpenData, Exit, BeginWrite, CompactLock,
   FreezeLock, UnfreezeLock, TryAcquire, LockOnly, RecoverStart, RecoverStep,
   RecoverReturns, RejectFrozen, AdmitWrite, RecordBegin, RecordBeginFails,
   DataBegin, DataBeginFails, RollBack, CommitNoop, RecordDataCommitted,
   RecordDataCommittedFails, Finish, FactoryBegin, FactoryFails, FactoryNoop,
   RecordFactory, AdmitCompact, CompactBegin, CompactReturns, CompactNothing,
   Optimize, CompactCommitted, CompactAltered, FreezeReadTip, FreezeReturns,
   FreezeMark, Unfreeze

(* A data commit of the steward is a Commit of the abstract history. *)
LEMMA HistoryCommit ==
    ASSUME TypeInv, LockInv, FreezeInv, DataInv, ChainInv,
           NEW p \in Procs, CommitData(p)
    PROVE  \E x \in TxnIds : History!Commit(x)
<1>1. TypeOK /\ MaxInv /\ pc[p] = "open" /\ txn[p].txn \in TxnIds
  BY DEF TypeInv, CommitData, TxnPcs, WritePcs
<1>2. txn[p] \in [seq : Nat, txn : TxnIds] /\ DeltaCommit(txn[p], Len(leaves))
  BY <1>1 DEF TypeOK, CommitData, ChainInv, ShipCurrent
<1>3. freeze = NotFrozen /\ freeze' = freeze
  BY <1>1 DEF CommitData, FreezeInv, AdmittedPcs, TxnPcs, WritePcs
<1>4. Len(leaves) \in Nat /\ DOMAIN leaves = 1..Len(leaves)
  BY <1>1, LeafType
<1> DEFINE n == Len(leaves)
           leaf == [ver |-> n + 1, txn |-> txn[p].txn,
                    parent |-> IF n = 0 THEN NoTxn ELSE leaves[n].txn]
           h == [i \in DOMAIN leaves |->
                   [txn |-> leaves[i].txn, parent |-> leaves[i].parent]]
           h2 == [i \in DOMAIN leaves' |->
                   [txn |-> leaves'[i].txn, parent |-> leaves'[i].parent]]
           new == [txn |-> txn[p].txn,
                   parent |-> IF h = <<>> THEN NoTxn ELSE h[Len(h)].txn]
           Entry == [txn : TxnIds, parent : {NoTxn} \cup TxnIds]
<1>5. /\ DOMAIN leaves' = 1..(n + 1)
      /\ leaves'[n + 1] = leaf
      /\ \A i \in 1..n : leaves'[i] = leaves[i]
  BY <1>1, <1>2, ChainCommit DEF ChainInv
<1>6. Len(h) = n /\ h \in Seq(Entry)
  <2>1. \A i \in 1..n : [txn |-> leaves[i].txn, parent |-> leaves[i].parent] \in Entry
    BY <1>1, LeafType
  <2>2. h \in [1..n -> Entry]
    BY <1>4, <2>1
  <2> HIDE DEF h, Entry
  <2>3. QED
    BY <1>4, <2>2, SegmentIsSeq
<1>7. (h = <<>>) <=> (n = 0)
  <2> HIDE DEF h, Entry
  <2>1. QED
    BY <1>6
<1>8. n # 0 => h[n].txn = leaves[n].txn
  BY <1>4
<1>9. new = [txn |-> leaf.txn, parent |-> leaf.parent]
  <2>1. (IF h = <<>> THEN NoTxn ELSE h[Len(h)].txn) = leaf.parent
    <3> HIDE DEF h
    <3>1. QED
      BY <1>6, <1>7, <1>8
  <2>2. QED
    BY <2>1
<1>10. h2 = Append(h, new)
  <2>1. new \in Entry
    <3>1. n # 0 => leaves[n].txn \in TxnIds
      BY <1>1, <1>4, LeafType
    <3>2. leaf.txn \in TxnIds /\ leaf.parent \in {NoTxn} \cup TxnIds
      BY <1>1, <3>1
    <3> HIDE DEF leaf, new
    <3>3. QED
      BY <1>9, <3>2
  <2>2. DOMAIN h2 = 1..(n + 1)
    BY <1>5
  <2>3. ASSUME NEW i \in 1..n PROVE h2[i] = h[i]
    <3>1. i \in DOMAIN leaves /\ i \in DOMAIN leaves'
      BY <1>4, <1>5
    <3>2. leaves'[i] = leaves[i]
      BY <1>5
    <3>3. QED
      BY <3>1, <3>2, Zenon
  <2>4. h2[n + 1] = new
    <3>1. h2[n + 1] = [txn |-> leaves'[n + 1].txn, parent |-> leaves'[n + 1].parent]
      BY <1>4, <1>5, SMTT(20)
    <3> HIDE DEF h2, new, leaf
    <3>2. QED
      BY <1>5, <1>9, <3>1
  <2>5. h2 = [i \in 1..(n + 1) |-> h2[i]]
    BY <2>2
  <2> HIDE DEF h, h2, new, Entry
  <2>6. /\ DOMAIN Append(h, new) = 1..(n + 1)
        /\ Append(h, new)[n + 1] = new
        /\ \A i \in 1..n : Append(h, new)[i] = h[i]
        /\ Append(h, new) = [i \in 1..(n + 1) |-> Append(h, new)[i]]
    BY <1>6, <2>1, AppendFacts
  <2>7. \A i \in 1..(n + 1) : h2[i] = Append(h, new)[i]
    BY <1>4, <2>3, <2>4, <2>6
  <2>8. QED
    BY <2>5, <2>6, <2>7
<1>11. txn[p].txn \notin {h[i].txn : i \in DOMAIN h}
  <2>1. \A c \in commits : c.txn # txn[p].txn
    BY <1>1 DEF DataInv, UncommittedPcs, BegunPcs
  <2>2. \A i \in DOMAIN leaves : leaves[i].txn # txn[p].txn
    BY <2>1 DEF ChainInv
  <2>3. QED
    BY <2>2
<1> HIDE DEF new, leaf
<1>12. PICK x \in TxnIds : x = txn[p].txn
  BY <1>1
<1>13. History!Commit(x)
  BY <1>3, <1>10, <1>11, <1>12 DEF History!Commit, History!Committed, new
<1>14. QED
  BY <1>13

(* One session at a time, without factories, implements the linear history   *)
(* that push, pull and the transparency log rely on: each data commit        *)
(* appends one fresh commit on top of the latest and never to a frozen pond; *)
(* every other step, a crash included, leaves the history as it is.          *)
THEOREM Refinement ==
    ASSUME OneSession, "factory" \notin Features
    PROVE  Spec => RefinesHistory
<1> DEFINE hist == [i \in DOMAIN leaves |->
                      [txn |-> leaves[i].txn, parent |-> leaves[i].parent]]
           Inv == TypeInv /\ LockInv /\ FreezeInv /\ DataInv /\ SessionInv /\ ChainInv
<1>1. Init => History!Init
  BY DEF Init, History!Init
<1>2. Inv /\ [Next]_vars => [History!Next]_<<hist, freeze # NotFrozen>>
  <2> SUFFICES ASSUME Inv, [Next]_vars
               PROVE  [History!Next]_<<hist, freeze # NotFrozen>>
    OBVIOUS
  <2>1. UNCHANGED leaves => UNCHANGED hist
    OBVIOUS
  <2> HIDE DEF hist
  <2>2. UNCHANGED leaves => [History!Next]_<<hist, freeze # NotFrozen>>
    <3> SUFFICES ASSUME UNCHANGED leaves
                 PROVE  [History!Next]_<<hist, freeze # NotFrozen>>
      OBVIOUS
    <3>1. (freeze' # NotFrozen) \in BOOLEAN
      OBVIOUS
    <3>2. History!SetFrozen(freeze' # NotFrozen)
      BY <2>1 DEF History!SetFrozen, hist
    <3>3. History!Next
      BY <3>1, <3>2 DEF History!Next
    <3>4. QED
      BY <3>3
  <2>3. ASSUME NEW p \in Procs, Step(p)
        PROVE  UNCHANGED leaves \/ CommitData(p)
    BY <2>3, LeafEffects DEF FactoryCommit, ChainInv, ShipCurrent, UnreachedPcs
  <2>4. ASSUME NEW p \in Procs, CommitData(p)
        PROVE  [History!Next]_<<hist, freeze # NotFrozen>>
    <3>1. History!Next
      BY <2>4, HistoryCommit DEF History!Next
    <3>2. QED
      BY <3>1
  <2>5. CASE UNCHANGED vars
    BY <2>2, <2>5 DEF vars, store
  <2>6. QED
    BY <2>2, <2>3, <2>4, <2>5 DEF Next
<1>3. QED
  BY <1>1, <1>2, ChainAlways, FreezeAlways, DataAlways, PTL
     DEF Spec, RefinesHistory, History!Spec
=============================================================================
