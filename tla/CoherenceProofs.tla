--------------------------- MODULE CoherenceProofs ---------------------------
(***************************************************************************)
(* Proofs about Coherence for every set of threads and files: the type      *)
(* invariant, the exclusion of guards from the drain, that no mutation is    *)
(* lost, the exclusion of writers and the freshness of admitted queries.     *)
(***************************************************************************)
EXTENDS Coherence, FiniteSetTheorems, TLAPS

(* The initial state is well typed. *)
LEMMA TypeInit == Init => TypeOK
  <1>1. NoProvider \in Providers
    BY DEF NoProvider, Providers
  <1>2. "idle" \in Pcs /\ "working" \in CommitPcs /\ "OPEN" \in Lifecycles
    BY DEF Pcs, CommitPcs, Lifecycles
  <1>3. Init => busy \in BOOLEAN
    BY DEF Init
  <1>4. QED
    BY <1>1, <1>2, <1>3 DEF Init, TypeOK

(* A step keeps the types. *)
LEMMA TypeStep == TypeOK /\ [Next]_vars => TypeOK'
  <1> SUFFICES ASSUME TypeOK, [Next]_vars
               PROVE  TypeOK'
    OBVIOUS
  <1> USE DEF TypeOK, Pcs, WriterPcs, MutationPcs, ProviderPcs, QueryPcs,
              CommitPcs, Lifecycles, Goto, counters, records, threads, owner
  <1>1. ASSUME NEW t \in Threads, ThreadStep(t)
        PROVE  TypeOK'
    <2>1. CASE BeginWriter(t) \/ RecheckWriter(t) \/ BeginMutation(t)
               \/ RecheckMutation(t) \/ Advance(t) \/ CachedOpen(t)
      BY <2>1 DEF BeginWriter, RecheckWriter, BeginMutation, RecheckMutation,
                  Advance, CachedOpen, EnsureOpen
    <2>2. CASE ListVersions(t) \/ CheckOpen(t) \/ SetCacheOpen(t)
               \/ Execute(t) \/ RecheckQuery(t)
      BY <2>2 DEF ListVersions, CheckOpen, SetCacheOpen, Execute,
                  RecheckQuery, EnsureOpen
    <2>3. CASE CheckGeneration(t) \/ SetCacheGeneration(t)
               \/ FirstGeneration(t) \/ RecheckGeneration(t)
      BY <2>3 DEF CheckGeneration, SetCacheGeneration, FirstGeneration,
                  RecheckGeneration, EnsureGeneration
    <2>4. CASE \E f \in Files : InsertWriter(t, f)
      BY <2>4 DEF InsertWriter
    <2>5. CASE RemoveWriter(t)
      BY <2>5 DEF RemoveWriter
    <2>6. CASE CountMutation(t) \/ DropMutation(t)
      BY <2>6 DEF CountMutation, DropMutation
    <2>7. CASE ApplyMutation(t) \/ BumpGeneration(t)
      BY <2>7 DEF ApplyMutation, BumpGeneration
    <2>8. CASE ReadGeneration(t) \/ ReadVersions(t)
      BY <2>8, SMTT(40) DEF ReadGeneration, ReadVersions, Providers
    <2>9. CASE CachedGeneration(t) \/ InsertProvider(t)
      BY <2>9 DEF CachedGeneration, InsertProvider
    <2>10. CASE CachedProvider(t)
      <3>1. NoProvider \in Providers
        BY DEF NoProvider, Providers
      <3>2. QED
        BY <2>10, <3>1 DEF CachedProvider
    <2>11. CASE CountQuery(t) \/ DropQuery(t)
      BY <2>11 DEF CountQuery, DropQuery
    <2>12. QED
      BY <1>1, <2>1, <2>2, <2>3, <2>4, <2>5, <2>6, <2>7, <2>8, <2>9, <2>10,
         <2>11 DEF ThreadStep
  <1>2. CASE OwnerStep
    <2>1. busy' \in BOOLEAN
      BY <1>2, Zenon DEF OwnerStep, EnsureQuiescent, ActiveCounts, ReadCount,
           Quiescent, NotQuiescent, BeginCommit, CommitAdmitted,
           CommitRejected, DrainRecords, CloseCommitted, Abandon, Close
    <2>2. QED
      BY <1>2, <2>1, SMTT(20) DEF OwnerStep, EnsureQuiescent, ActiveCounts, ReadCount,
           Quiescent, NotQuiescent, BeginCommit, CommitAdmitted,
           CommitRejected, DrainRecords, CloseCommitted, Abandon, Close
  <1>3. CASE UNCHANGED vars
    BY <1>3 DEF vars
  <1>4. QED
    BY <1>1, <1>2, <1>3 DEF Next

(* Every reachable state is well typed. *)
THEOREM TypeCorrect == Spec => []TypeOK
  BY TypeInit, TypeStep, PTL DEF Spec

-----------------------------------------------------------------------------
(* How far the owner has come determines the lifecycle, whether the records *)
(* have been taken, and what active_counts can have reported.                *)
LifecycleInv ==
    /\ commit \in {"working", "quiesce_writers", "quiesce_queries",
                   "quiesce_mutations", "prepared"} => lifecycle = "OPEN"
    /\ commit \in {"count_writers", "count_queries", "count_mutations",
                   "draining", "drained"} => lifecycle = "COMMITTING"
    /\ commit = "done" => lifecycle = "CLOSED"
    /\ commit \notin {"drained", "done"} => saved = -1
    /\ commit \in {"draining", "drained"} => ~busy

(* LifecycleInv is inductive: only the owner touches what it mentions. *)
LEMMA LifecycleStep ==
    TypeOK /\ LifecycleInv /\ [Next]_vars => LifecycleInv'
  <1> SUFFICES ASSUME TypeOK, LifecycleInv, [Next]_vars
               PROVE  LifecycleInv'
    OBVIOUS
  <1> USE DEF LifecycleInv, counters, records, threads, owner
  <1>1. ASSUME NEW t \in Threads, ThreadStep(t)
        PROVE  UNCHANGED <<lifecycle, saved, owner>>
    BY <1>1 DEF ThreadStep, BeginWriter, InsertWriter, RecheckWriter,
         RemoveWriter, BeginMutation, CountMutation, RecheckMutation,
         ApplyMutation, Advance, BumpGeneration, DropMutation, ReadGeneration,
         CachedOpen, CachedGeneration, CachedProvider, ListVersions,
         ReadVersions, CheckOpen, CheckGeneration, SetCacheOpen,
         SetCacheGeneration, InsertProvider, Execute, FirstGeneration,
         CountQuery, RecheckQuery, RecheckGeneration, DropQuery, EnsureOpen,
         EnsureGeneration
  <1>2. CASE OwnerStep
    <2>1. CASE EnsureQuiescent \/ ActiveCounts \/ Quiescent
      BY <2>1 DEF EnsureQuiescent, ActiveCounts, ReadCount, Quiescent
    <2>2. CASE BeginCommit \/ CommitAdmitted
      BY <2>2 DEF BeginCommit, CommitAdmitted, ReadCount
    <2>3. CASE DrainRecords
      BY <2>3 DEF DrainRecords
    <2>4. CASE NotQuiescent \/ CommitRejected \/ CloseCommitted \/ Abandon
      BY <2>4 DEF NotQuiescent, CommitRejected, CloseCommitted, Abandon, Close
    <2>5. QED
      BY <1>2, <2>1, <2>2, <2>3, <2>4 DEF OwnerStep
  <1>3. CASE UNCHANGED vars
    BY <1>3 DEF vars
  <1>4. QED
    BY <1>1, <1>2, <1>3 DEF Next

-----------------------------------------------------------------------------
(* Moving one thread from one label to another changes the size of a counted *)
(* set of threads by what the two labels say.                                 *)
LEMMA CountMove ==
    ASSUME TypeOK, NEW t \in Threads, NEW to, NEW S,
           pc' = [pc EXCEPT ![t] = to]
    PROVE  /\ Cardinality(Counted(S)) \in Nat
           /\ (pc[t] \in S <=> to \in S) =>
                 Cardinality(Counted(S))' = Cardinality(Counted(S))
           /\ pc[t] \notin S /\ to \in S =>
                 Cardinality(Counted(S))' = Cardinality(Counted(S)) + 1
           /\ pc[t] \in S /\ to \notin S =>
                 Cardinality(Counted(S))' = Cardinality(Counted(S)) - 1
  <1>1. IsFiniteSet(Counted(S))
    BY FS_Subset, CoherenceAssumption DEF Counted
  <1>2. CASE pc[t] \in S <=> to \in S
    <2>1. Counted(S)' = Counted(S)
      BY <1>2 DEF Counted, TypeOK
    <2>2. QED
      BY <1>1, <1>2, <2>1, FS_CardinalityType
  <1>3. CASE pc[t] \notin S /\ to \in S
    <2>1. Counted(S)' = Counted(S) \cup {t} /\ t \notin Counted(S)
      BY <1>3 DEF Counted, TypeOK
    <2>2. QED
      BY <1>1, <1>3, <2>1, FS_CardinalityType, FS_AddElement
  <1>4. CASE pc[t] \in S /\ to \notin S
    <2>1. Counted(S)' = Counted(S) \ {t} /\ t \in Counted(S)
      BY <1>4 DEF Counted, TypeOK
    <2>2. QED
      BY <1>1, <1>4, <2>1, FS_CardinalityType, FS_RemoveElement
  <1>5. QED
    BY <1>2, <1>3, <1>4

(* A set of threads that holds one of them is not counted as zero. *)
LEMMA CountPositive ==
    ASSUME TypeOK, NEW t \in Threads, NEW S, pc[t] \in S
    PROVE  Cardinality(Counted(S)) # 0
  <1>1. IsFiniteSet(Counted(S)) /\ t \in Counted(S)
    BY FS_Subset, CoherenceAssumption DEF Counted
  <1>2. QED
    BY <1>1, FS_EmptySet

(* The labels between the increment and the decrement of each counter. *)
MutationCounted == MutationPcs \ {"m_inc"}
QueryCounted == {"q_reopen", "q_regen", "q_undo", "querying"}

(* The counters stay exact: every path between an increment and the matching *)
(* decrement, the failed recheck included, is counted.                        *)
LEMMA CountsStep == TypeOK /\ CountsExact /\ [Next]_vars => CountsExact'
  <1> SUFFICES ASSUME TypeOK, CountsExact, [Next]_vars
               PROVE  CountsExact'
    OBVIOUS
  <1> DEFINE M == Cardinality(Counted(MutationCounted))
             Q == Cardinality(Counted(QueryCounted))
  <1>0. active_mutations = M /\ active_queries = Q
    BY DEF CountsExact, MutationCounted, QueryCounted
  <1> SUFFICES active_mutations' = M' /\ active_queries' = Q'
    BY DEF CountsExact, MutationCounted, QueryCounted
  <1>1. ASSUME NEW t \in Threads, ThreadStep(t)
        PROVE  active_mutations' = M' /\ active_queries' = Q'
    <2> USE DEF Goto, counters
    <2>1. CASE CountMutation(t)
      <3>1. pc[t] = "m_inc" /\ pc' = [pc EXCEPT ![t] = "m_recheck"]
        BY <2>1 DEF CountMutation
      <3>2. "m_inc" \notin MutationCounted /\ "m_recheck" \in MutationCounted
            /\ "m_inc" \notin QueryCounted /\ "m_recheck" \notin QueryCounted
        BY DEF MutationCounted, QueryCounted, MutationPcs
      <3>3. M' = M + 1 /\ Q' = Q
        BY <3>1, <3>2, CountMove
      <3>4. QED
        BY <1>0, <2>1, <3>3 DEF CountMutation
    <2>2. CASE DropMutation(t)
      <3>1. pc[t] \in {"mutating", "m_drop", "m_undo"}
            /\ pc' = [pc EXCEPT ![t] = "idle"]
        BY <2>2 DEF DropMutation
      <3>2. pc[t] \in MutationCounted /\ "idle" \notin MutationCounted
            /\ pc[t] \notin QueryCounted /\ "idle" \notin QueryCounted
        BY <3>1 DEF MutationCounted, QueryCounted, MutationPcs
      <3>3. M' = M - 1 /\ Q' = Q
        BY <3>1, <3>2, CountMove
      <3>4. QED
        BY <1>0, <2>2, <3>3 DEF DropMutation
    <2>3. CASE CountQuery(t)
      <3>1. pc[t] = "q_inc" /\ pc' = [pc EXCEPT ![t] = "q_reopen"]
        BY <2>3 DEF CountQuery
      <3>2. "q_inc" \notin MutationCounted /\ "q_reopen" \notin MutationCounted
            /\ "q_inc" \notin QueryCounted /\ "q_reopen" \in QueryCounted
        BY DEF MutationCounted, QueryCounted, MutationPcs
      <3>3. M' = M /\ Q' = Q + 1
        BY <3>1, <3>2, CountMove
      <3>4. QED
        BY <1>0, <2>3, <3>3 DEF CountQuery
    <2>4. CASE DropQuery(t)
      <3>1. pc[t] \in {"querying", "q_undo"} /\ pc' = [pc EXCEPT ![t] = "idle"]
        BY <2>4 DEF DropQuery
      <3>2. pc[t] \notin MutationCounted /\ "idle" \notin MutationCounted
            /\ pc[t] \in QueryCounted /\ "idle" \notin QueryCounted
        BY <3>1 DEF MutationCounted, QueryCounted, MutationPcs
      <3>3. M' = M /\ Q' = Q - 1
        BY <3>1, <3>2, CountMove
      <3>4. QED
        BY <1>0, <2>4, <3>3 DEF DropQuery
    <2>5. ASSUME NEW to, pc' = [pc EXCEPT ![t] = to],
                 pc[t] \in MutationCounted <=> to \in MutationCounted,
                 pc[t] \in QueryCounted <=> to \in QueryCounted,
                 UNCHANGED <<active_mutations, active_queries>>
          PROVE  active_mutations' = M' /\ active_queries' = Q'
      BY <1>0, <2>5, CountMove
    <2> HIDE DEF M, Q
    <2>6. CASE \/ BeginWriter(t) \/ RecheckWriter(t) \/ RemoveWriter(t)
               \/ \E f \in Files : InsertWriter(t, f)
      BY <2>5, <2>6 DEF BeginWriter, RecheckWriter, RemoveWriter, InsertWriter,
           EnsureOpen, MutationCounted, QueryCounted, MutationPcs
    <2>7. CASE \/ BeginMutation(t) \/ RecheckMutation(t) \/ ApplyMutation(t)
               \/ Advance(t) \/ BumpGeneration(t)
      BY <2>5, <2>7 DEF BeginMutation, RecheckMutation, ApplyMutation, Advance,
           BumpGeneration, EnsureOpen, MutationCounted, QueryCounted,
           MutationPcs
    <2>8. CASE \/ ReadGeneration(t) \/ CachedOpen(t) \/ CachedGeneration(t)
               \/ CachedProvider(t) \/ ListVersions(t) \/ ReadVersions(t)
      BY <2>5, <2>8 DEF ReadGeneration, CachedOpen, CachedGeneration,
           CachedProvider, ListVersions, ReadVersions, EnsureOpen,
           MutationCounted, QueryCounted, MutationPcs
    <2>9. CASE \/ CheckOpen(t) \/ CheckGeneration(t) \/ SetCacheOpen(t)
               \/ SetCacheGeneration(t) \/ InsertProvider(t)
      BY <2>5, <2>9 DEF CheckOpen, CheckGeneration, SetCacheOpen,
           SetCacheGeneration, InsertProvider, EnsureOpen, EnsureGeneration,
           MutationCounted, QueryCounted, MutationPcs
    <2>10. CASE \/ Execute(t) \/ FirstGeneration(t) \/ RecheckQuery(t)
                \/ RecheckGeneration(t)
      BY <2>5, <2>10 DEF Execute, FirstGeneration, RecheckQuery,
           RecheckGeneration, EnsureOpen, EnsureGeneration, MutationCounted,
           QueryCounted, MutationPcs
    <2>11. QED
      BY <1>1, <2>1, <2>2, <2>3, <2>4, <2>6, <2>7, <2>8, <2>9, <2>10
         DEF ThreadStep
  <1>2. CASE OwnerStep \/ UNCHANGED vars
    <2>1. UNCHANGED <<active_mutations, active_queries, pc>>
      BY <1>2 DEF OwnerStep, EnsureQuiescent, ActiveCounts, ReadCount,
           Quiescent, NotQuiescent, BeginCommit, CommitAdmitted,
           CommitRejected, DrainRecords, CloseCommitted, Abandon, Close, vars,
           counters, threads
    <2>2. M' = M /\ Q' = Q
      BY <2>1 DEF Counted
    <2>3. QED
      BY <1>0, <2>1, <2>2
  <1>3. QED
    BY <1>1, <1>2 DEF Next

-----------------------------------------------------------------------------
(* A thread between its insert and its removal holds a file of its own. *)
WriterLabels == {"w_recheck", "w_undo", "writing"}
WriterInv ==
    /\ \A t \in Threads :
          pc[t] \in WriterLabels => held[t] # {} /\ held[t] \subseteq active_writers
    /\ \A t, u \in Threads :
          t # u /\ pc[t] \in WriterLabels /\ pc[u] \in WriterLabels =>
              held[t] \cap held[u] = {}

(* WriterInv is inductive: an insert takes a free file, and a removal takes *)
(* away only the file the thread inserted itself.                            *)
LEMMA WriterStep == TypeOK /\ WriterInv /\ [Next]_vars => WriterInv'
  <1> SUFFICES ASSUME TypeOK, WriterInv, [Next]_vars
               PROVE  WriterInv'
    OBVIOUS
  <1> USE DEF Goto, counters, threads
  <1>1. ASSUME NEW t \in Threads, ThreadStep(t)
        PROVE  WriterInv'
    <2>1. CASE \E f \in Files : InsertWriter(t, f)
      <3>1. PICK f \in Files : InsertWriter(t, f)
        BY <2>1
      <3>2. CASE f \in active_writers
        BY <3>1, <3>2 DEF InsertWriter, WriterInv, WriterLabels, TypeOK
      <3>3. CASE f \notin active_writers
        <4>1. /\ pc' = [pc EXCEPT ![t] = "w_recheck"]
              /\ held' = [held EXCEPT ![t] = {f}]
              /\ active_writers' = active_writers \cup {f}
          BY <3>1, <3>3 DEF InsertWriter
        <4>2. \A u \in Threads : u # t => pc'[u] = pc[u] /\ held'[u] = held[u]
          BY <4>1 DEF TypeOK
        <4>3. held'[t] = {f}
          BY <4>1 DEF TypeOK
        <4>4. \A u \in Threads :
                 u # t /\ pc[u] \in WriterLabels => f \notin held[u]
          BY <3>3 DEF WriterInv
        <4>5. QED
          BY <4>1, <4>2, <4>3, <4>4 DEF WriterInv
      <3>4. QED
        BY <3>2, <3>3
    <2>2. CASE RemoveWriter(t)
      <3>1. /\ pc' = [pc EXCEPT ![t] = "idle"]
            /\ held' = [held EXCEPT ![t] = {}]
            /\ active_writers' = active_writers \ held[t]
            /\ pc[t] \in WriterLabels
        BY <2>2 DEF RemoveWriter, WriterLabels
      <3>2. \A u \in Threads : u # t => pc'[u] = pc[u] /\ held'[u] = held[u]
        BY <3>1 DEF TypeOK
      <3>3. pc'[t] \notin WriterLabels
        BY <3>1 DEF TypeOK, WriterLabels
      <3>4. QED
        BY <3>1, <3>2, <3>3 DEF WriterInv
    <2>3. ASSUME NEW to, pc' = [pc EXCEPT ![t] = to],
                 to \in WriterLabels => pc[t] \in WriterLabels,
                 UNCHANGED <<active_writers, held>>
          PROVE  WriterInv'
      BY <2>3 DEF WriterInv, TypeOK
    <2>4. CASE BeginWriter(t) \/ RecheckWriter(t)
      BY <2>3, <2>4 DEF BeginWriter, RecheckWriter, EnsureOpen, WriterLabels
    <2>5. CASE \/ BeginMutation(t) \/ CountMutation(t) \/ RecheckMutation(t)
               \/ ApplyMutation(t) \/ Advance(t) \/ BumpGeneration(t)
               \/ DropMutation(t)
      BY <2>3, <2>5 DEF BeginMutation, CountMutation, RecheckMutation,
           ApplyMutation, Advance, BumpGeneration, DropMutation, EnsureOpen,
           WriterLabels
    <2>6. CASE \/ ReadGeneration(t) \/ CachedOpen(t) \/ CachedGeneration(t)
               \/ CachedProvider(t) \/ ListVersions(t) \/ ReadVersions(t)
      BY <2>3, <2>6 DEF ReadGeneration, CachedOpen, CachedGeneration,
           CachedProvider, ListVersions, ReadVersions, EnsureOpen, WriterLabels
    <2>7. CASE \/ CheckOpen(t) \/ CheckGeneration(t) \/ SetCacheOpen(t)
               \/ SetCacheGeneration(t) \/ InsertProvider(t)
      BY <2>3, <2>7 DEF CheckOpen, CheckGeneration, SetCacheOpen,
           SetCacheGeneration, InsertProvider, EnsureOpen, EnsureGeneration,
           WriterLabels
    <2>8. CASE \/ Execute(t) \/ FirstGeneration(t) \/ CountQuery(t)
               \/ RecheckQuery(t) \/ RecheckGeneration(t) \/ DropQuery(t)
      BY <2>3, <2>8 DEF Execute, FirstGeneration, CountQuery, RecheckQuery,
           RecheckGeneration, DropQuery, EnsureOpen, EnsureGeneration,
           WriterLabels
    <2>9. QED
      BY <1>1, <2>1, <2>2, <2>4, <2>5, <2>6, <2>7, <2>8 DEF ThreadStep
  <1>2. CASE OwnerStep \/ UNCHANGED vars
    <2>1. UNCHANGED <<active_writers, pc, held>>
      BY <1>2 DEF OwnerStep, EnsureQuiescent, ActiveCounts, ReadCount,
           Quiescent, NotQuiescent, BeginCommit, CommitAdmitted,
           CommitRejected, DrainRecords, CloseCommitted, Abandon, Close, vars
    <2>2. QED
      BY <2>1 DEF WriterInv
  <1>3. QED
    BY <1>1, <1>2 DEF Next

-----------------------------------------------------------------------------
(* The labels a thread can reach only by seeing the lifecycle open after it  *)
(* has made itself visible to active_counts.                                  *)
WriterGranted == {"writing"}
QueryGranted == {"q_regen", "querying"}
MutationGranted == {"mutating", "m_advance", "m_bump", "m_drop"}
None(S) == \A t \in Threads : pc[t] \notin S

(* What active_counts has established so far, as long as it has seen nobody. *)
HoldersInv ==
    /\ commit \in {"count_queries", "count_mutations"} /\ ~busy =>
          None(WriterGranted)
    /\ commit = "count_mutations" /\ ~busy => None(QueryGranted)
    /\ commit \in {"draining", "drained"} \/ saved # -1 =>
          None(WriterGranted) /\ None(QueryGranted) /\ None(MutationGranted)

(* HoldersInv is inductive: once the lifecycle has left OPEN no thread       *)
(* enters a granted label, and a thread that entered one before is counted.  *)
LEMMA HoldersStep ==
    /\ TypeOK /\ LifecycleInv /\ CountsExact /\ WriterInv /\ HoldersInv
    /\ [Next]_vars
    => HoldersInv'
  <1> SUFFICES ASSUME TypeOK, LifecycleInv, CountsExact, WriterInv, HoldersInv,
                      [Next]_vars
               PROVE  HoldersInv'
    OBVIOUS
  <1>1. ASSUME NEW t \in Threads, ThreadStep(t)
        PROVE  HoldersInv'
    <2> DEFINE Enters(S) == pc'[t] \in S /\ pc[t] \notin S
    <2>1. /\ UNCHANGED <<commit, busy, saved, lifecycle>>
          /\ \A u \in Threads : u # t => pc'[u] = pc[u]
          /\ lifecycle # "OPEN" => ~ Enters(WriterGranted)
          /\ lifecycle # "OPEN" => ~ Enters(QueryGranted)
          /\ lifecycle # "OPEN" => ~ Enters(MutationGranted)
      <3> USE DEF Goto, counters, records, owner, TypeOK, WriterGranted,
                  QueryGranted, MutationGranted
      <3>1. CASE \/ BeginWriter(t) \/ RecheckWriter(t) \/ RemoveWriter(t)
                 \/ \E f \in Files : InsertWriter(t, f)
        BY <3>1 DEF BeginWriter, RecheckWriter, RemoveWriter, InsertWriter,
             EnsureOpen
      <3>2. CASE \/ BeginMutation(t) \/ CountMutation(t) \/ RecheckMutation(t)
                 \/ ApplyMutation(t) \/ Advance(t) \/ BumpGeneration(t)
                 \/ DropMutation(t)
        BY <3>2 DEF BeginMutation, CountMutation, RecheckMutation,
             ApplyMutation, Advance, BumpGeneration, DropMutation, EnsureOpen
      <3>3. CASE \/ ReadGeneration(t) \/ CachedOpen(t) \/ CachedGeneration(t)
                 \/ CachedProvider(t) \/ ListVersions(t) \/ ReadVersions(t)
        BY <3>3 DEF ReadGeneration, CachedOpen, CachedGeneration,
             CachedProvider, ListVersions, ReadVersions, EnsureOpen
      <3>4. CASE \/ CheckOpen(t) \/ CheckGeneration(t) \/ SetCacheOpen(t)
                 \/ SetCacheGeneration(t) \/ InsertProvider(t)
        BY <3>4 DEF CheckOpen, CheckGeneration, SetCacheOpen,
             SetCacheGeneration, InsertProvider, EnsureOpen, EnsureGeneration
      <3>5. CASE \/ Execute(t) \/ FirstGeneration(t) \/ CountQuery(t)
                 \/ RecheckQuery(t) \/ RecheckGeneration(t) \/ DropQuery(t)
        BY <3>5 DEF Execute, FirstGeneration, CountQuery, RecheckQuery,
             RecheckGeneration, DropQuery, EnsureOpen, EnsureGeneration
      <3>6. QED
        BY <1>1, <3>1, <3>2, <3>3, <3>4, <3>5 DEF ThreadStep
    <2>2. /\ commit \in {"count_queries", "count_mutations", "draining",
                         "drained"} => lifecycle # "OPEN"
          /\ saved # -1 => lifecycle # "OPEN"
      BY DEF LifecycleInv, TypeOK, CommitPcs
    <2>3. QED
      BY <2>1, <2>2 DEF HoldersInv, None
  <1>2. CASE OwnerStep
    <2> USE DEF counters, records, threads, owner
    <2>1. CASE EnsureQuiescent \/ Quiescent \/ BeginCommit
      BY <2>1 DEF EnsureQuiescent, Quiescent, ReadCount, BeginCommit,
           HoldersInv, None, LifecycleInv
    <2>2. CASE ActiveCounts
      <3>1. active_writers = {} => None(WriterGranted)
        BY DEF None, WriterInv, WriterGranted, WriterLabels
      <3>2. active_queries = 0 => None(QueryGranted)
        BY CountPositive DEF None, CountsExact, QueryGranted
      <3>3. UNCHANGED <<pc, saved>>
        BY <2>2 DEF ActiveCounts, ReadCount
      <3>4. QED
        BY <2>2, <3>1, <3>2, <3>3
           DEF ActiveCounts, ReadCount, HoldersInv, None, LifecycleInv
    <2>3. CASE CommitAdmitted
      <3>1. active_mutations = 0 => None(MutationGranted)
        BY CountPositive
           DEF None, CountsExact, MutationGranted, MutationPcs
      <3>2. QED
        BY <2>3, <3>1 DEF CommitAdmitted, ReadCount, HoldersInv, None
    <2>4. CASE DrainRecords \/ CloseCommitted
      BY <2>4 DEF DrainRecords, CloseCommitted, Close, HoldersInv, None
    <2>5. CASE NotQuiescent \/ CommitRejected \/ Abandon
      BY <2>5 DEF NotQuiescent, CommitRejected, Abandon, Close, HoldersInv,
           None, LifecycleInv
    <2>6. QED
      BY <1>2, <2>1, <2>2, <2>3, <2>4, <2>5 DEF OwnerStep
  <1>3. CASE UNCHANGED vars
    BY <1>3 DEF vars, threads, owner, records, HoldersInv, None
  <1>4. QED
    BY <1>1, <1>2, <1>3 DEF Next

-----------------------------------------------------------------------------
(* The pending records hold every mutation applied until they are taken. *)
RecordsInv ==
    /\ saved = -1 => pending = applied
    /\ NoMutationLost
    /\ completed <= applied
    /\ \A t \in Threads : mine[t] <= applied

(* RecordsInv is inductive: a mutation is applied only under a guard, and no *)
(* guard is held once the records are taken.                                  *)
LEMMA RecordsStep ==
    /\ TypeOK /\ LifecycleInv /\ HoldersInv /\ RecordsInv /\ [Next]_vars
    => RecordsInv'
  <1> SUFFICES ASSUME TypeOK, LifecycleInv, HoldersInv, RecordsInv, [Next]_vars
               PROVE  RecordsInv'
    OBVIOUS
  <1> USE DEF counters, records, threads, owner
  <1>1. ASSUME NEW t \in Threads, ThreadStep(t)
        PROVE  RecordsInv'
    <2>1. CASE ApplyMutation(t)
      <3>1. saved = -1
        BY <2>1 DEF ApplyMutation, HoldersInv, None, MutationGranted
      <3>2. QED
        BY <2>1, <3>1 DEF ApplyMutation, RecordsInv, NoMutationLost, TypeOK
    <2>2. CASE BumpGeneration(t)
      BY <2>2 DEF BumpGeneration, RecordsInv, NoMutationLost, TypeOK
    <2>3. CASE UNCHANGED <<records, mine>>
      BY <2>3 DEF RecordsInv, NoMutationLost
    <2>4. ThreadStep(t) => ApplyMutation(t) \/ BumpGeneration(t)
                           \/ UNCHANGED <<records, mine>>
      BY DEF ThreadStep, BeginWriter, InsertWriter, RecheckWriter,
         RemoveWriter, BeginMutation, CountMutation, RecheckMutation,
         Advance, DropMutation, ReadGeneration,
         CachedOpen, CachedGeneration, CachedProvider, ListVersions,
         ReadVersions, CheckOpen, CheckGeneration, SetCacheOpen,
         SetCacheGeneration, InsertProvider, Execute, FirstGeneration,
         CountQuery, RecheckQuery, RecheckGeneration, DropQuery, EnsureOpen,
         EnsureGeneration
    <2>5. QED
      BY <1>1, <2>1, <2>2, <2>3, <2>4
  <1>2. CASE OwnerStep
    <2>1. CASE DrainRecords
      BY <2>1 DEF DrainRecords, RecordsInv, NoMutationLost, LifecycleInv, TypeOK
    <2>2. CASE UNCHANGED <<records, mine>>
      BY <2>2 DEF RecordsInv, NoMutationLost
    <2>3. OwnerStep => DrainRecords \/ UNCHANGED <<records, mine>>
      BY DEF OwnerStep, EnsureQuiescent, ActiveCounts, ReadCount,
           Quiescent, NotQuiescent, BeginCommit, CommitAdmitted,
           CommitRejected, CloseCommitted, Abandon, Close
    <2>4. QED
      BY <1>2, <2>1, <2>2, <2>3
  <1>3. CASE UNCHANGED vars
    BY <1>3 DEF vars, RecordsInv, NoMutationLost
  <1>4. QED
    BY <1>1, <1>2, <1>3 DEF Next

-----------------------------------------------------------------------------
(* A provider labelled with the current generation lists every completed     *)
(* mutation.                                                                  *)
Fresh(p) == p.gen <= generation /\ (p.gen = generation => p.data >= completed)

(* The labels of a thread whose provider has passed a check of the lifecycle *)
(* after it read the pending records.                                         *)
CheckedLabels == {"p_gen", "p_set_open", "p_set_gen", "p_insert", "ready",
                  "q_gen", "q_inc", "q_reopen", "q_regen", "q_undo",
                  "querying"}

FreshInv ==
    /\ Fresh(cache)
    /\ \A t \in Threads :
          /\ prov[t].gen <= generation
          /\ pc[t] = "p_open" /\ lifecycle = "OPEN" => Fresh(prov[t])
          /\ pc[t] \in CheckedLabels => Fresh(prov[t])

(* FreshInv is inductive.  The generation is read before the records and the *)
(* records are changed before the generation, so an unchanged generation      *)
(* means that every completed change was there to be read; records taken by   *)
(* the commit are noticed by the check of the lifecycle that follows.         *)
LEMMA FreshStep ==
    /\ TypeOK /\ LifecycleInv /\ RecordsInv /\ FreshInv /\ [Next]_vars
    => FreshInv'
  <1> SUFFICES ASSUME TypeOK, LifecycleInv, RecordsInv, FreshInv, [Next]_vars
               PROVE  FreshInv'
    OBVIOUS
  <1> USE DEF Goto, counters, records, threads, owner
  <1>1. ASSUME NEW t \in Threads, ThreadStep(t)
        PROVE  FreshInv'
    <2>1. ASSUME NEW to, pc' = [pc EXCEPT ![t] = to],
                 to \in CheckedLabels =>
                    pc[t] \in CheckedLabels
                    \/ (pc[t] = "p_open" /\ lifecycle = "OPEN"),
                 to # "p_open",
                 UNCHANGED <<generation, lifecycle, completed, cache, prov>>
          PROVE  FreshInv'
      BY <2>1 DEF FreshInv, Fresh, TypeOK
    <2>2. CASE \/ BeginWriter(t) \/ RecheckWriter(t) \/ RemoveWriter(t)
               \/ \E f \in Files : InsertWriter(t, f)
      BY <2>1, <2>2 DEF BeginWriter, RecheckWriter, RemoveWriter,
           InsertWriter, EnsureOpen, CheckedLabels
    <2>3. CASE \/ BeginMutation(t) \/ CountMutation(t) \/ RecheckMutation(t)
               \/ ApplyMutation(t) \/ Advance(t) \/ DropMutation(t)
      BY <2>1, <2>3 DEF BeginMutation, CountMutation, RecheckMutation,
           ApplyMutation, Advance, DropMutation, EnsureOpen, CheckedLabels
    <2>4. CASE CachedOpen(t) \/ CachedGeneration(t) \/ ListVersions(t)
      BY <2>1, <2>4 DEF CachedOpen, CachedGeneration, ListVersions,
           EnsureOpen, CheckedLabels
    <2>5. CASE \/ CheckOpen(t) \/ CheckGeneration(t) \/ SetCacheOpen(t)
               \/ SetCacheGeneration(t)
      BY <2>1, <2>5 DEF CheckOpen, CheckGeneration, SetCacheOpen,
           SetCacheGeneration, EnsureOpen, EnsureGeneration, CheckedLabels
    <2>6. CASE \/ Execute(t) \/ FirstGeneration(t) \/ CountQuery(t)
               \/ RecheckQuery(t) \/ RecheckGeneration(t) \/ DropQuery(t)
      BY <2>1, <2>6 DEF Execute, FirstGeneration, CountQuery, RecheckQuery,
           RecheckGeneration, DropQuery, EnsureOpen, EnsureGeneration,
           CheckedLabels
    <2>7. CASE BumpGeneration(t)
      <3>1. /\ generation' = generation + 1
            /\ UNCHANGED <<cache, prov>>
        BY <2>7 DEF BumpGeneration
      <3>2. \A p \in Providers : p.gen <= generation => Fresh(p)'
        BY <3>1 DEF Fresh, Providers, TypeOK
      <3>3. QED
        BY <3>1, <3>2 DEF FreshInv, Fresh, TypeOK, Providers
    <2>8. CASE ReadGeneration(t)
      <3>1. /\ pc' = [pc EXCEPT ![t] = "p_cached_open"]
            /\ prov' = [prov EXCEPT ![t] = [gen |-> generation, data |-> -1]]
            /\ UNCHANGED <<generation, lifecycle, completed, cache>>
        BY <2>8 DEF ReadGeneration
      <3>2. /\ pc'[t] = "p_cached_open" /\ prov'[t].gen = generation
            /\ \A u \in Threads : u # t => pc'[u] = pc[u] /\ prov'[u] = prov[u]
        BY <3>1 DEF TypeOK
      <3>3. QED
        BY <3>1, <3>2 DEF FreshInv, Fresh, CheckedLabels, TypeOK
    <2>9. CASE ReadVersions(t)
      <3>1. /\ \E to \in {"p_open", "idle"} : pc' = [pc EXCEPT ![t] = to]
            /\ prov' = [prov EXCEPT ![t].data = pending]
            /\ UNCHANGED <<generation, lifecycle, completed, cache>>
        BY <2>9 DEF ReadVersions, Goto
      <3>2. /\ pc'[t] \in {"p_open", "idle"}
            /\ prov'[t].gen = prov[t].gen /\ prov'[t].data = pending
            /\ \A u \in Threads : u # t => pc'[u] = pc[u] /\ prov'[u] = prov[u]
        BY <3>1 DEF TypeOK, Providers
      <3>3. lifecycle = "OPEN" => completed <= pending
        BY DEF LifecycleInv, RecordsInv, TypeOK, CommitPcs
      <3>4. QED
        BY <3>1, <3>2, <3>3 DEF FreshInv, Fresh, CheckedLabels, TypeOK
    <2>10. CASE CachedProvider(t)
      <3>1. CASE cache # NoProvider /\ cache.gen = seen[t]
        <4>1. /\ pc' = [pc EXCEPT ![t] = "ready"]
              /\ prov' = [prov EXCEPT ![t] = cache]
              /\ UNCHANGED <<generation, lifecycle, completed, cache>>
          BY <2>10, <3>1 DEF CachedProvider
        <4>2. /\ pc'[t] = "ready" /\ prov'[t] = cache
              /\ \A u \in Threads :
                    u # t => pc'[u] = pc[u] /\ prov'[u] = prov[u]
          BY <4>1 DEF TypeOK
        <4>3. QED
          BY <4>1, <4>2 DEF FreshInv, Fresh
      <3>2. CASE ~ (cache # NoProvider /\ cache.gen = seen[t])
        <4>1. /\ pc' = [pc EXCEPT ![t] = "p_versions"]
              /\ cache' = NoProvider
              /\ UNCHANGED <<generation, lifecycle, completed, prov>>
          BY <2>10, <3>2 DEF CachedProvider
        <4>2. Fresh(cache)'
          BY <4>1 DEF Fresh, NoProvider, TypeOK
        <4>3. QED
          BY <4>1, <4>2 DEF FreshInv, Fresh, CheckedLabels, TypeOK
      <3>3. QED
        BY <3>1, <3>2
    <2>11. CASE InsertProvider(t)
      BY <2>11 DEF InsertProvider, FreshInv, Fresh, CheckedLabels, TypeOK
    <2>12. QED
      BY <1>1, <2>2, <2>3, <2>4, <2>5, <2>6, <2>7, <2>8, <2>9, <2>10, <2>11
         DEF ThreadStep
  <1>2. CASE OwnerStep \/ UNCHANGED vars
    <2>1. /\ UNCHANGED <<generation, completed, cache, pc, prov>>
          /\ lifecycle' = "OPEN" => lifecycle = "OPEN"
      BY <1>2 DEF OwnerStep, EnsureQuiescent, ActiveCounts, ReadCount,
           Quiescent, NotQuiescent, BeginCommit, CommitAdmitted,
           CommitRejected, DrainRecords, CloseCommitted, Abandon, Close, vars
    <2>2. QED
      BY <2>1 DEF FreshInv, Fresh
  <1>3. QED
    BY <1>1, <1>2 DEF Next

-----------------------------------------------------------------------------
(* The inductive invariant of the transaction state. *)
CoherenceInv ==
    /\ TypeOK /\ LifecycleInv /\ CountsExact /\ WriterInv /\ HoldersInv
    /\ RecordsInv /\ FreshInv

(* The initial state satisfies it. *)
LEMMA CoherenceInit == Init => CoherenceInv
  <1> SUFFICES ASSUME Init
               PROVE  CoherenceInv
    OBVIOUS
  <1>1. TypeOK
    BY TypeInit
  <1>2. LifecycleInv /\ WriterInv /\ HoldersInv /\ RecordsInv
    BY DEF Init, LifecycleInv, WriterInv, WriterLabels, HoldersInv, RecordsInv,
           NoMutationLost
  <1>3. CountsExact
    <2>1. Counted(MutationPcs \ {"m_inc"}) = {}
      BY DEF Init, Counted, MutationPcs
    <2>2. Counted({"q_reopen", "q_regen", "q_undo", "querying"}) = {}
      BY DEF Init, Counted
    <2>3. QED
      BY <2>1, <2>2, FS_EmptySet DEF CountsExact, Init
  <1>4. FreshInv
    BY DEF Init, FreshInv, Fresh, NoProvider, CheckedLabels
  <1>5. QED
    BY <1>1, <1>2, <1>3, <1>4 DEF CoherenceInv

(* Every reachable state satisfies it. *)
THEOREM CoherenceInvariant == Spec => []CoherenceInv
  <1>1. CoherenceInv /\ [Next]_vars => CoherenceInv'
    BY TypeStep, LifecycleStep, CountsStep, WriterStep, HoldersStep,
       RecordsStep, FreshStep DEF CoherenceInv
  <1>2. QED
    BY <1>1, CoherenceInit, PTL DEF Spec

(* Once begin_commit has succeeded no thread ever holds a guard again. *)
THEOREM DrainExclusion == Spec => []DrainIsExclusive
  <1>1. CoherenceInv => DrainIsExclusive
    BY DEF CoherenceInv, HoldersInv, None, WriterGranted, QueryGranted,
           MutationGranted, DrainIsExclusive, HoldsWriter, HoldsMutation,
           HoldsQuery
  <1>2. QED
    BY <1>1, CoherenceInvariant, PTL

(* The records a commit takes hold every mutation applied in the transaction. *)
THEOREM CommitSavesAll == Spec => []NoMutationLost
  <1>1. CoherenceInv => NoMutationLost
    BY DEF CoherenceInv, RecordsInv
  <1>2. QED
    BY <1>1, CoherenceInvariant, PTL

(* A file has one writer at a time. *)
THEOREM WriterExclusion == Spec => []OneWriterPerFile
  <1>1. CoherenceInv => OneWriterPerFile
    BY DEF CoherenceInv, WriterInv, WriterLabels, OneWriterPerFile, HoldsWriter
  <1>2. QED
    BY <1>1, CoherenceInvariant, PTL

(* The counters are exact at every moment. *)
THEOREM CountersExact == Spec => []CountsExact
  <1>1. CoherenceInv => CountsExact
    BY DEF CoherenceInv
  <1>2. QED
    BY <1>1, CoherenceInvariant, PTL

(* A query is admitted only over every completed mutation. *)
THEOREM QueryFreshness == Spec => QueryIsFresh
  <1> DEFINE A == \A t \in Threads :
                     pc[t] = "q_regen" /\ pc'[t] = "querying" =>
                         prov[t].data >= completed
  <1>1. CoherenceInv /\ [Next]_vars => [A]_vars
    <2> SUFFICES ASSUME CoherenceInv, Next, NEW u \in Threads,
                        pc[u] = "q_regen", pc'[u] = "querying"
                 PROVE  prov[u].data >= completed
      OBVIOUS
    <2> USE DEF CoherenceInv, TypeOK, Goto, threads
    <2>1. ~ OwnerStep
      BY DEF OwnerStep, EnsureQuiescent, ActiveCounts, ReadCount,
           Quiescent, NotQuiescent, BeginCommit, CommitAdmitted,
           CommitRejected, DrainRecords, CloseCommitted, Abandon, Close
    <2>2. PICK t \in Threads : ThreadStep(t)
      BY <2>1 DEF Next
    <2>3. RecheckGeneration(t) /\ t = u
      BY <2>2 DEF ThreadStep, BeginWriter, InsertWriter, RecheckWriter,
         RemoveWriter, BeginMutation, CountMutation, RecheckMutation,
         ApplyMutation, Advance, BumpGeneration, DropMutation, ReadGeneration,
         CachedOpen, CachedGeneration, CachedProvider, ListVersions,
         ReadVersions, CheckOpen, CheckGeneration, SetCacheOpen,
         SetCacheGeneration, InsertProvider, Execute, FirstGeneration,
         CountQuery, RecheckQuery, RecheckGeneration, DropQuery, EnsureOpen,
         EnsureGeneration
    <2>4. generation = prov[u].gen
      BY <2>3 DEF RecheckGeneration, EnsureGeneration
    <2>5. QED
      BY <2>4 DEF FreshInv, Fresh, CheckedLabels
  <1>2. QED
    BY <1>1, CoherenceInvariant, PTL DEF Spec, QueryIsFresh
=============================================================================
