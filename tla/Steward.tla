------------------------------- MODULE Steward -------------------------------
(***************************************************************************)
(* Write transactions of a pond (crates/steward): one or more processes     *)
(* open a Ship on the same pond and run write transactions, post-commit     *)
(* factories, compaction, write freezes and crash recovery over two stores  *)
(* that do not commit together:                                             *)
(*                                                                          *)
(*   - the data table, a Delta table.  Each Delta commit carries the        *)
(*     txn_seq of its transaction; a content-changing one appends, in the   *)
(*     same Delta commit, a leaf to the commit-log node;                    *)
(*   - the control table, an append-only set of lifecycle rows.             *)
(*                                                                          *)
(* A Delta commit is one atomic step (external: delta-rs).  A commit from   *)
(* a stale snapshot is rebased, never refused: the data is a blind append.  *)
(* A process may die between any two steps; the kernel then drops its lock. *)
(***************************************************************************)
EXTENDS Integers, Sequences, FiniteSets

CONSTANTS
    Procs,       \* processes that may have the pond open
    MaxTxns,     \* bound: transactions begun, failed ones included
    OneSession,  \* a Ship is opened only when no other process has one
    Features     \* the optional operations of this instance

AllFeatures == {"factory", "compact", "freeze", "recover"}

ASSUME StewardAssumption ==
    /\ MaxTxns \in Nat
    /\ OneSession \in BOOLEAN
    /\ Features \subseteq AllFeatures

NoTxn == 0
NotFrozen == -1

RecordKinds == {"Begin", "DataCommitted", "Failed", "Completed"}
Terminal == {"DataCommitted", "Failed", "Completed"}

WritePcs == {"w_locked", "begin", "begun", "open", "committed", "post",
             "f_begun", "f_committed"}
CompactPcs == {"c_locked", "c_begin", "c_begun", "c_committed", "c_altered"}
FreezePcs == {"z_locked", "z_tip", "u_locked"}
LockedPcs == WritePcs \cup CompactPcs \cup FreezePcs
Pcs == {"closed", "opening", "idle", "recover", "verify"} \cup LockedPcs

VARIABLES
    commits,       \* Delta commits of the data table: [seq, txn]
    leaves,        \* versions of the commit-log node: [ver, txn, parent]
    ctl,           \* lifecycle rows of the control table: [kind, seq, txn]
    freeze,        \* the tip in write.freeze, or NotFrozen
    lock,          \* the process that holds write.lock, if any
    nextTxn,       \* the next fresh txn_id
    pc,            \* what each process is about to do
    lastWriteSeq,  \* Ship::last_write_seq
    dataSeq,       \* OpLogPersistence::last_txn_seq
    snap,          \* leaves in the Ship's snapshot of the data table
    pending,       \* Begin rows the Ship's control snapshot has as incomplete
    txn,           \* the transaction a process runs: [seq, txn]
    todo,          \* Begin rows that recover() has still to complete
    tip            \* the tip freeze_writes has read

store == <<commits, leaves>>
ship == <<lastWriteSeq, dataSeq, snap>>
control == <<ctl, pending>>
local == <<txn, todo, tip>>
vars == <<store, control, freeze, lock, nextTxn, pc, ship, local>>

Genesis == [seq |-> 1, txn |-> NoTxn]
Row(kind, x) == [kind |-> kind, seq |-> x.seq, txn |-> x.txn]

Init ==
    /\ commits = {Genesis}
    /\ leaves = <<>>
    /\ ctl = {Row(kind, Genesis) : kind \in {"Begin", "DataCommitted", "Completed"}}
    /\ freeze = NotFrozen
    /\ lock = {}
    /\ nextTxn = 1
    /\ pc = [p \in Procs |-> "closed"]
    /\ lastWriteSeq = [p \in Procs |-> 0]
    /\ dataSeq = [p \in Procs |-> 0]
    /\ snap = [p \in Procs |-> 0]
    /\ pending = [p \in Procs |-> {}]
    /\ txn = [p \in Procs |-> Genesis]
    /\ todo = [p \in Procs |-> {}]
    /\ tip = [p \in Procs |-> NoTxn]

-----------------------------------------------------------------------------
(* Reading the data table. *)

MaxOf(S) == CHOOSE m \in S : \A x \in S : x <= m

(* The txn_seq an open recovers: the largest in the Delta history. *)
LastTxnSeq == MaxOf({c.seq : c \in commits})

(* The commit-log node in a snapshot of the first n leaves: the largest      *)
(* version, and the leaves that have it (more than one after a fork).        *)
TopVersion(n) == MaxOf({0} \cup {leaves[i].ver : i \in 1..n})
Tips(n) ==
    IF TopVersion(n) = 0
      THEN {NoTxn}
      ELSE {leaves[i].txn : i \in {j \in 1..n : leaves[j].ver = TopVersion(n)}}

(* One Delta commit: the txn_seq, and the leaf on top of the snapshot's tip. *)
DeltaCommit(x, n) ==
    /\ commits' = commits \cup {[seq |-> x.seq, txn |-> x.txn]}
    /\ \E parent \in Tips(n) :
         leaves' = Append(leaves, [ver |-> TopVersion(n) + 1, txn |-> x.txn,
                                   parent |-> parent])

(* incomplete_transactions: of each txn_seq with no terminal row, the first  *)
(* Begin.                                                                    *)
Incomplete(rows) ==
    {r \in rows :
        /\ r.kind = "Begin"
        /\ \A s \in rows : s.seq = r.seq => s.kind = "Begin" /\ r.txn <= s.txn}

(* Writing the control table: the writer's snapshot becomes the new table. *)
Record(p, rows) ==
    /\ ctl' = ctl \cup rows
    /\ pending' = IF rows = {} THEN pending
                  ELSE [pending EXCEPT ![p] = Incomplete(ctl')]

(* A row that is written, or whose write fails. *)
RecordOrNot(p, row) == \E rows \in {{}, {row}} : Record(p, rows)

Goto(p, to) == pc' = [pc EXCEPT ![p] = to]

(* The guard and its lock are dropped. *)
Leave(p) ==
    /\ Goto(p, "idle")
    /\ lock' = lock \ {p}
    /\ txn' = [txn EXCEPT ![p] = Genesis]
    /\ tip' = [tip EXCEPT ![p] = NoTxn]
    /\ UNCHANGED todo

-----------------------------------------------------------------------------
(* create_infrastructure opens the control table, then the data table. *)

OpenControl(p) ==
    /\ pc[p] = "closed"
    /\ OneSession => \A q \in Procs : pc[q] = "closed"
    /\ pending' = [pending EXCEPT ![p] = Incomplete(ctl)]
    /\ Goto(p, "opening")
    /\ UNCHANGED <<store, ctl, freeze, lock, nextTxn, ship, local>>

(* Mutant of OpenData: the sequence comes from the control table's rows. *)
OpenDataFromControl(p) ==
    /\ pc[p] = "opening"
    /\ LET last == MaxOf({r.seq : r \in {s \in ctl : s.kind = "DataCommitted"}})
       IN  /\ dataSeq' = [dataSeq EXCEPT ![p] = last]
           /\ lastWriteSeq' = [lastWriteSeq EXCEPT ![p] = last]
    /\ snap' = [snap EXCEPT ![p] = Len(leaves)]
    /\ Goto(p, "idle")
    /\ UNCHANGED <<store, control, freeze, lock, nextTxn, local>>

OpenData(p) ==
    /\ pc[p] = "opening"
    /\ dataSeq' = [dataSeq EXCEPT ![p] = LastTxnSeq]
    /\ lastWriteSeq' = [lastWriteSeq EXCEPT ![p] = LastTxnSeq]
    /\ snap' = [snap EXCEPT ![p] = Len(leaves)]
    /\ Goto(p, "idle")
    /\ UNCHANGED <<store, control, freeze, lock, nextTxn, local>>

(* The Ship is dropped, or the process dies. *)
Exit(p) ==
    /\ pc[p] # "closed"
    /\ lock' = lock \ {p}
    /\ Goto(p, "closed")
    /\ lastWriteSeq' = [lastWriteSeq EXCEPT ![p] = 0]
    /\ dataSeq' = [dataSeq EXCEPT ![p] = 0]
    /\ snap' = [snap EXCEPT ![p] = 0]
    /\ pending' = [pending EXCEPT ![p] = {}]
    /\ txn' = [txn EXCEPT ![p] = Genesis]
    /\ todo' = [todo EXCEPT ![p] = {}]
    /\ tip' = [tip EXCEPT ![p] = NoTxn]
    /\ UNCHANGED <<store, ctl, freeze, nextTxn>>

-----------------------------------------------------------------------------
(* begin_txn: allocate a sequence, take write.lock, look for a freeze,       *)
(* record Begin, begin the data transaction.                                 *)

TryAcquire(p, to) ==
    /\ pc[p] = "idle"
    /\ lock = {}
    /\ nextTxn <= MaxTxns
    /\ lock' = {p}
    /\ txn' = [txn EXCEPT ![p] = [seq |-> lastWriteSeq[p] + 1, txn |-> nextTxn]]
    /\ nextTxn' = nextTxn + 1
    /\ Goto(p, to)
    /\ UNCHANGED <<store, control, freeze, ship, todo, tip>>

BeginWrite(p) == TryAcquire(p, "w_locked")

(* try_acquire_for_write finds a freeze, or cannot read the marker: the lock *)
(* is released.                                                              *)
RejectFrozen(p) ==
    /\ pc[p] \in {"w_locked", "c_locked"}
    /\ Leave(p)
    /\ UNCHANGED <<store, control, freeze, nextTxn, ship>>

(* Mutant of AdmitWrite: the freeze marker is not looked for. *)
AdmitWriteFrozen(p) ==
    /\ pc[p] = "w_locked"
    /\ Goto(p, "begin")
    /\ UNCHANGED <<store, control, freeze, lock, nextTxn, ship, local>>

AdmitWrite(p) ==
    /\ pc[p] = "w_locked"
    /\ freeze = NotFrozen
    /\ Goto(p, "begin")
    /\ UNCHANGED <<store, control, freeze, lock, nextTxn, ship, local>>

(* Mutant of RecordBegin: the Begin row is best effort, like Failed. *)
RecordBeginBestEffort(p) ==
    /\ pc[p] = "begin"
    /\ RecordOrNot(p, Row("Begin", txn[p]))
    /\ Goto(p, "begun")
    /\ UNCHANGED <<store, freeze, lock, nextTxn, ship, local>>

RecordBegin(p) ==
    /\ pc[p] = "begin"
    /\ Record(p, {Row("Begin", txn[p])})
    /\ Goto(p, "begun")
    /\ UNCHANGED <<store, freeze, lock, nextTxn, ship, local>>

RecordBeginFails(p) ==
    /\ pc[p] = "begin"
    /\ Leave(p)
    /\ UNCHANGED <<store, control, freeze, nextTxn, ship>>

DataBegin(p) ==
    /\ pc[p] = "begun"
    /\ txn[p].seq = dataSeq[p] + 1
    /\ lastWriteSeq' = [lastWriteSeq EXCEPT ![p] = txn[p].seq]
    /\ Goto(p, "open")
    /\ UNCHANGED <<store, control, freeze, lock, nextTxn, dataSeq, snap, local>>

(* The strict +1 check fails, or the state cannot be set up. *)
DataBeginFails(p) ==
    /\ pc[p] = "begun"
    /\ RecordOrNot(p, Row("Failed", txn[p]))
    /\ Leave(p)
    /\ UNCHANGED <<store, freeze, nextTxn, ship>>

-----------------------------------------------------------------------------
(* StewardTransactionGuard: abort, drop and the outcomes of commit. *)

(* abort(), a drop without commit, and a data commit that fails: nothing is  *)
(* committed, the Failed row may be missing, the sequence is given back.      *)
RollBack(p) ==
    /\ pc[p] = "open"
    /\ RecordOrNot(p, Row("Failed", txn[p]))
    /\ lastWriteSeq' = [lastWriteSeq EXCEPT ![p] = txn[p].seq - 1]
    /\ Leave(p)
    /\ UNCHANGED <<store, freeze, nextTxn, dataSeq, snap>>

(* A write that produced no records: no Delta commit, yet the persistence    *)
(* counts its sequence as used.                                              *)
CommitNoop(p) ==
    /\ pc[p] = "open"
    /\ dataSeq' = [dataSeq EXCEPT ![p] = txn[p].seq]
    /\ RecordOrNot(p, Row("Completed", txn[p]))
    /\ Leave(p)
    /\ UNCHANGED <<store, freeze, nextTxn, lastWriteSeq, snap>>

(* write_reserved_nodes and the Delta commit; the snapshot it returns is     *)
(* installed in the persistence.                                             *)
CommitData(p) ==
    /\ pc[p] = "open"
    /\ DeltaCommit(txn[p], snap[p])
    /\ dataSeq' = [dataSeq EXCEPT ![p] = txn[p].seq]
    /\ snap' = [snap EXCEPT ![p] = Len(leaves')]
    /\ Goto(p, "committed")
    /\ UNCHANGED <<control, freeze, lock, nextTxn, lastWriteSeq, local>>

RecordDataCommitted(p) ==
    /\ pc[p] = "committed"
    /\ Record(p, {Row("DataCommitted", txn[p])})
    /\ Goto(p, "post")
    /\ UNCHANGED <<store, freeze, lock, nextTxn, ship, local>>

(* Mutant of RecordDataCommittedFails: the transaction is marked Failed. *)
RecordDataCommittedAsFailed(p) ==
    /\ pc[p] = "committed"
    /\ Record(p, {Row("Failed", txn[p])})
    /\ Leave(p)
    /\ UNCHANGED <<store, freeze, nextTxn, ship>>

RecordDataCommittedFails(p) ==
    /\ pc[p] = "committed"
    /\ Leave(p)
    /\ UNCHANGED <<store, control, freeze, nextTxn, ship>>

(* Mutant of Finish: the guard is consumed but its lock is kept. *)
FinishLocked(p) ==
    /\ pc[p] = "post"
    /\ Goto(p, "idle")
    /\ UNCHANGED <<store, control, freeze, lock, nextTxn, ship, local>>

(* The factories and remotes have run, or post-commit work is suppressed. *)
Finish(p) ==
    /\ pc[p] = "post"
    /\ Leave(p)
    /\ UNCHANGED <<store, control, freeze, nextTxn, ship>>

-----------------------------------------------------------------------------
(* execute_post_commit_factory: a transaction of its own, over a freshly     *)
(* opened persistence, inside the commit of its parent, whose lock keeps the *)
(* fresh snapshot current.  The parent's own row is written by then.         *)

FactoryBegin(p) ==
    /\ "factory" \in Features
    /\ pc[p] = "post"
    /\ nextTxn <= MaxTxns
    /\ txn' = [txn EXCEPT ![p] = [seq |-> LastTxnSeq + 1, txn |-> nextTxn]]
    /\ nextTxn' = nextTxn + 1
    /\ Record(p, {Row("Begin", txn'[p])})
    /\ Goto(p, "f_begun")
    /\ UNCHANGED <<store, freeze, lock, ship, todo, tip>>

(* An error before the commit leaves the Begin row as it is; a commit that   *)
(* fails records Failed.                                                     *)
FactoryFails(p) ==
    /\ pc[p] = "f_begun"
    /\ RecordOrNot(p, Row("Failed", txn[p]))
    /\ Goto(p, "post")
    /\ UNCHANGED <<store, freeze, lock, nextTxn, ship, local>>

FactoryNoop(p) ==
    /\ pc[p] = "f_begun"
    /\ RecordOrNot(p, Row("Completed", txn[p]))
    /\ Goto(p, "post")
    /\ UNCHANGED <<store, freeze, lock, nextTxn, ship, local>>

FactoryCommit(p) ==
    /\ pc[p] = "f_begun"
    /\ DeltaCommit(txn[p], Len(leaves))
    /\ Goto(p, "f_committed")
    /\ UNCHANGED <<control, freeze, lock, nextTxn, ship, local>>

(* record_factory_terminal_batch writes its rows in one control commit. *)
RecordFactory(p) ==
    /\ pc[p] = "f_committed"
    /\ \E rows \in {{}, {Row(k, txn[p]) : k \in {"DataCommitted", "Completed"}}} :
         Record(p, rows)
    /\ Goto(p, "post")
    /\ UNCHANGED <<store, freeze, lock, nextTxn, ship, local>>

-----------------------------------------------------------------------------
(* Ship::compact *)

CompactLock(p) == "compact" \in Features /\ TryAcquire(p, "c_locked")

AdmitCompact(p) ==
    /\ pc[p] = "c_locked"
    /\ freeze = NotFrozen
    /\ lastWriteSeq' = [lastWriteSeq EXCEPT ![p] = txn[p].seq]
    /\ Goto(p, "c_begin")
    /\ UNCHANGED <<store, control, freeze, lock, nextTxn, dataSeq, snap, local>>

CompactBegin(p) ==
    /\ pc[p] = "c_begin"
    /\ Record(p, {Row("Begin", txn[p])})
    /\ Goto(p, "c_begun")
    /\ UNCHANGED <<store, freeze, lock, nextTxn, ship, local>>

(* An early return: Begin cannot be recorded, the content root cannot be     *)
(* computed before or after the optimize, or Completed cannot be recorded    *)
(* for a no-op.                                                              *)
CompactReturns(p) ==
    /\ pc[p] \in {"c_begin", "c_begun", "c_committed", "c_altered"}
    /\ Leave(p)
    /\ UNCHANGED <<store, control, freeze, nextTxn, ship>>

(* Mutant of CompactNothing: the sequence is given back twice. *)
CompactNothingTwice(p) ==
    /\ pc[p] = "c_begun"
    /\ \/ RecordOrNot(p, Row("Failed", txn[p]))
       \/ Record(p, {Row("Completed", txn[p])})
    /\ lastWriteSeq' = [lastWriteSeq EXCEPT ![p] = txn[p].seq - 2]
    /\ Leave(p)
    /\ UNCHANGED <<store, freeze, nextTxn, dataSeq, snap>>

(* The optimize fails (Failed is best effort) or finds nothing to merge. *)
CompactNothing(p) ==
    /\ pc[p] = "c_begun"
    /\ \/ RecordOrNot(p, Row("Failed", txn[p]))
       \/ Record(p, {Row("Completed", txn[p])})
    /\ lastWriteSeq' = [lastWriteSeq EXCEPT ![p] = txn[p].seq - 1]
    /\ Leave(p)
    /\ UNCHANGED <<store, freeze, nextTxn, dataSeq, snap>>

(* The optimize's own Delta commit carries the txn_seq; it adds no leaf.  The *)
(* root before it is that of the Ship's snapshot, the root after it that of   *)
(* the table it leaves, which has what other processes committed meanwhile:   *)
(* the roots are then compared, and differ unless those commits undo one      *)
(* another.                                                                   *)
Optimize(p) ==
    /\ pc[p] = "c_begun"
    /\ commits' = commits \cup {txn[p]}
    /\ snap' = [snap EXCEPT ![p] = Len(leaves)]
    /\ \/ Goto(p, "c_committed")
       \/ snap[p] # Len(leaves) /\ Goto(p, "c_altered")
    /\ UNCHANGED <<leaves, control, freeze, lock, nextTxn, lastWriteSeq, dataSeq,
                   local>>

(* sync_last_txn_seq, then record_compact_committed, which may fail. *)
CompactCommitted(p) ==
    /\ pc[p] = "c_committed"
    /\ dataSeq' = [dataSeq EXCEPT ![p] = MaxOf({dataSeq[p], txn[p].seq})]
    /\ RecordOrNot(p, Row("DataCommitted", txn[p]))
    /\ Leave(p)
    /\ UNCHANGED <<store, freeze, nextTxn, lastWriteSeq, snap>>

(* assert_compaction_invariant finds two roots: Failed, best effort, for a    *)
(* Delta commit that is there; the sequence is kept, and dataSeq not synced.  *)
CompactAltered(p) ==
    /\ pc[p] = "c_altered"
    /\ RecordOrNot(p, Row("Failed", txn[p]))
    /\ Leave(p)
    /\ UNCHANGED <<store, freeze, nextTxn, ship>>

-----------------------------------------------------------------------------
(* freeze_writes and unfreeze_writes, under the lock every writer takes. *)

LockOnly(p, to) ==
    /\ "freeze" \in Features
    /\ pc[p] = "idle"
    /\ lock = {}
    /\ lock' = {p}
    /\ Goto(p, to)
    /\ UNCHANGED <<store, control, freeze, nextTxn, ship, local>>

FreezeLock(p) == LockOnly(p, "z_locked")

UnfreezeLock(p) == LockOnly(p, "u_locked")

(* Mutant of FreezeReadTip: the tip is the Ship's, read before the lock. *)
FreezeReadTipStale(p) ==
    /\ pc[p] = "z_locked"
    /\ freeze = NotFrozen
    /\ \E t \in Tips(snap[p]) : tip' = [tip EXCEPT ![p] = t]
    /\ Goto(p, "z_tip")
    /\ UNCHANGED <<store, control, freeze, lock, nextTxn, ship, txn, todo>>

(* The tip is read from tables opened after the lock was taken. *)
FreezeReadTip(p) ==
    /\ pc[p] = "z_locked"
    /\ freeze = NotFrozen
    /\ \E t \in Tips(Len(leaves)) : tip' = [tip EXCEPT ![p] = t]
    /\ Goto(p, "z_tip")
    /\ UNCHANGED <<store, control, freeze, lock, nextTxn, ship, txn, todo>>

(* A marker exists already, or an open, a read or a write fails. *)
FreezeReturns(p) ==
    /\ pc[p] \in FreezePcs
    /\ Leave(p)
    /\ UNCHANGED <<store, control, freeze, nextTxn, ship>>

FreezeMark(p) ==
    /\ pc[p] = "z_tip"
    /\ freeze' = tip[p]
    /\ Leave(p)
    /\ UNCHANGED <<store, control, nextTxn, ship>>

Unfreeze(p) ==
    /\ pc[p] = "u_locked"
    /\ freeze' = NotFrozen
    /\ Leave(p)
    /\ UNCHANGED <<store, control, nextTxn, ship>>

-----------------------------------------------------------------------------
(* recover(): without the lock, from the Ship's snapshot of the control      *)
(* table, then the check that recover_command makes.                         *)

RecoverStart(p) ==
    /\ "recover" \in Features
    /\ pc[p] = "idle"
    /\ todo' = [todo EXCEPT ![p] = pending[p]]
    /\ Goto(p, IF pending[p] = {} THEN "verify" ELSE "recover")
    /\ UNCHANGED <<store, control, freeze, lock, nextTxn, ship, txn, tip>>

(* Mutant of RecoverStep: recover() returns after the first transaction. *)
RecoverStepFirst(p) ==
    /\ pc[p] = "recover"
    /\ \E r \in todo[p] :
         /\ \A s \in todo[p] : r.seq <= s.seq
         /\ Record(p, {Row("Completed", r)})
         /\ todo' = [todo EXCEPT ![p] = {}]
         /\ Goto(p, "verify")
    /\ UNCHANGED <<store, freeze, lock, nextTxn, ship, txn, tip>>

(* One incomplete transaction, in the order of its sequence. *)
RecoverStep(p) ==
    /\ pc[p] = "recover"
    /\ \E r \in todo[p] :
         /\ \A s \in todo[p] : r.seq <= s.seq
         /\ Record(p, {Row("Completed", r)})
         /\ todo' = [todo EXCEPT ![p] = @ \ {r}]
         /\ Goto(p, IF todo[p] = {r} THEN "verify" ELSE "recover")
    /\ UNCHANGED <<store, freeze, lock, nextTxn, ship, txn, tip>>

(* The check has passed or failed, or a row could not be written. *)
RecoverReturns(p) ==
    /\ pc[p] \in {"recover", "verify"}
    /\ todo' = [todo EXCEPT ![p] = {}]
    /\ Goto(p, "idle")
    /\ UNCHANGED <<store, control, freeze, lock, nextTxn, ship, txn, tip>>

-----------------------------------------------------------------------------
(* The steps of a process that holds the lock. *)
Working(p) ==
    \/ RejectFrozen(p)
    \/ AdmitWrite(p)
    \/ RecordBegin(p)
    \/ RecordBeginFails(p)
    \/ DataBegin(p)
    \/ DataBeginFails(p)
    \/ RollBack(p)
    \/ CommitNoop(p)
    \/ CommitData(p)
    \/ RecordDataCommitted(p)
    \/ RecordDataCommittedFails(p)
    \/ Finish(p)
    \/ FactoryBegin(p)
    \/ FactoryFails(p)
    \/ FactoryNoop(p)
    \/ FactoryCommit(p)
    \/ RecordFactory(p)
    \/ AdmitCompact(p)
    \/ CompactBegin(p)
    \/ CompactReturns(p)
    \/ CompactNothing(p)
    \/ Optimize(p)
    \/ CompactCommitted(p)
    \/ CompactAltered(p)
    \/ FreezeReadTip(p)
    \/ FreezeReturns(p)
    \/ FreezeMark(p)
    \/ Unfreeze(p)

Step(p) ==
    \/ OpenControl(p)
    \/ OpenData(p)
    \/ Exit(p)
    \/ BeginWrite(p)
    \/ CompactLock(p)
    \/ FreezeLock(p)
    \/ UnfreezeLock(p)
    \/ RecoverStart(p)
    \/ RecoverStep(p)
    \/ RecoverReturns(p)
    \/ Working(p)

Next == \E p \in Procs : Step(p)

Spec == Init /\ [][Next]_vars

(* A process that holds the lock goes on, or dies: nothing it does under the *)
(* lock waits for another process of the pond.  What it does wait for, the   *)
(* disk and, in a push after the commit, the network, is assumed to answer   *)
(* or to fail.                                                               *)
FairSpec == Spec /\ \A p \in Procs : WF_vars(Working(p))

-----------------------------------------------------------------------------
TxnIds == 1..MaxTxns
Rows == [kind : RecordKinds, seq : Nat, txn : {NoTxn} \cup TxnIds]

(* The state variables stay within their types. *)
TypeOK ==
    /\ commits \subseteq [seq : Nat, txn : {NoTxn} \cup TxnIds]
    /\ leaves \in Seq([ver : Nat, txn : TxnIds, parent : {NoTxn} \cup TxnIds])
    /\ ctl \subseteq Rows
    /\ freeze \in {NotFrozen, NoTxn} \cup TxnIds
    /\ lock \in SUBSET Procs
    /\ nextTxn \in 1..(MaxTxns + 1)
    /\ pc \in [Procs -> Pcs]
    /\ lastWriteSeq \in [Procs -> Nat]
    /\ dataSeq \in [Procs -> Nat]
    /\ snap \in [Procs -> Nat]
    /\ \A p \in Procs : snap[p] <= Len(leaves)
    /\ pending \in [Procs -> SUBSET Rows]
    /\ txn \in [Procs -> [seq : Nat \ {0}, txn : {NoTxn} \cup TxnIds]]
    /\ todo \in [Procs -> SUBSET Rows]
    /\ tip \in [Procs -> {NoTxn} \cup TxnIds]

(* The source_tip of a freeze marker, "exact content tip protected by the   *)
(* freeze", is the tip of the commit log for as long as the marker exists,   *)
(* whatever writers were under way when freeze_writes was called.            *)
FrozenTip == freeze # NotFrozen => freeze \in Tips(Len(leaves))

(* No Delta commit of any kind, compactions included, is made while the pond *)
(* stays frozen: every path to a commit looks for the marker after it has    *)
(* the lock, and the marker is made under the lock.                          *)
NoCommitWhileFrozen ==
    [][freeze # NotFrozen /\ freeze' # NotFrozen => UNCHANGED store]_vars

(* Every Delta commit was announced: its Begin row, with its sequence and    *)
(* transaction, is in the control table, whichever path made it and wherever *)
(* a process died.                                                           *)
AuditTrail == \A c \in commits : Row("Begin", c) \in ctl

(* A transaction recorded as Failed has changed no content: it has no leaf   *)
(* in the commit log.  A Failed row can name a Delta commit that is there,    *)
(* but only an optimize, which changes no content.  And no transaction        *)
(* commits twice.                                                             *)
FailedMeansNoData ==
    /\ \A r \in ctl : r.kind = "Failed" =>
         \A i \in DOMAIN leaves : leaves[i].txn # r.txn
    /\ \A c, d \in commits : c.txn = d.txn => c = d

(* begin_write's "write transactions must be strictly increasing": a Delta   *)
(* commit has a larger txn_seq than every earlier one.                       *)
SeqStrictlyIncreasing ==
    [][\A c \in commits' \ commits : \A d \in commits : d.seq < c.seq]_vars

(* The commit-log node is a linear chain: leaf i is version i and its parent *)
(* is leaf i - 1.                                                            *)
LinearChain ==
    \A i \in DOMAIN leaves :
        /\ leaves[i].ver = i
        /\ leaves[i].parent = IF i = 1 THEN NoTxn ELSE leaves[i - 1].txn

(* Between transactions the Ship's allocator and the persistence's agree, so *)
(* that the next transaction passes the strict +1 check.                     *)
Lockstep == \A p \in Procs : pc[p] = "idle" => lastWriteSeq[p] = dataSeq[p]

(* With compaction, whose early returns keep the sequence they took, and     *)
(* whatever else two processes do, the Ship's allocator is never behind the  *)
(* persistence's: a Ship that has drifted is refused by the +1 check and     *)
(* does not offer a sequence that its own table already has.                 *)
NeverBehind == \A p \in Procs : pc[p] = "idle" => dataSeq[p] <= lastWriteSeq[p]

(* When recover() has come to the end of its list, the check that            *)
(* recover_command makes next finds nothing incomplete.                      *)
RecoveryVerified ==
    \A p \in Procs : pc[p] = "verify" => pending[p] = {}

(* A data commit that lost its control rows to a crash stays reported as     *)
(* incomplete, whatever is committed after it, until it has a terminal row   *)
(* of its own.  Only an earlier attempt at its sequence that ended can hide  *)
(* it, since incomplete_transactions groups the rows by txn_seq.             *)
CrashDetected ==
    \A p \in Procs :
        pc[p] = "idle" /\ lock = {} =>
            \A c \in commits :
                \/ \E k \in Terminal : Row(k, c) \in ctl
                \/ \E r \in Incomplete(ctl) : r.seq = c.seq
                \/ \E r \in ctl : r.kind \in Terminal /\ r.seq = c.seq /\ r.txn < c.txn

(* A process that takes the write lock gives it back. *)
LockReleased == \A p \in Procs : p \in lock ~> p \notin lock

(* The commit log is the linear history of PondHistory. *)
History == INSTANCE PondHistory WITH
    Txns <- TxnIds,
    Genesis <- NoTxn,
    hist <- [i \in DOMAIN leaves |->
               [txn |-> leaves[i].txn, parent |-> leaves[i].parent]],
    frozen <- freeze # NotFrozen
RefinesHistory == History!Spec
=============================================================================
