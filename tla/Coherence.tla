------------------------------ MODULE Coherence ------------------------------
(***************************************************************************)
(* The lifecycle and cache-coherence state of one open transaction          *)
(* (CoherenceState in crates/tinyfs/src/coherence.rs), with the operations  *)
(* that go through it: writer, mutation and query guards, provider          *)
(* construction with its cache, and the commit that drains the pending      *)
(* records.                                                                 *)
(*                                                                          *)
(* Every load, fetch_add, compare_exchange and mutex section of the code is *)
(* a step of its own, so that every interleaving of the operations is a     *)
(* behaviour.  The orderings of the atomics are Acquire and AcqRel; the     *)
(* module gives them the sequentially consistent reading.                   *)
(*                                                                          *)
(* Data is abstracted to counts.  "applied" numbers the mutations of the    *)
(* pending records; a provider is the generation it was labelled with and   *)
(* the number of mutations its list of versions includes.                   *)
(***************************************************************************)
EXTENDS Integers, FiniteSets

CONSTANTS
    Threads,    \* tasks that share the transaction state
    Files,      \* FileIDs that may be opened for writing
    MaxApplied  \* bound: mutations applied in one transaction

ASSUME CoherenceAssumption ==
    /\ IsFiniteSet(Threads)
    /\ MaxApplied \in Nat

Lifecycles == {"OPEN", "COMMITTING", "CLOSED"}

WriterPcs == {"w_insert", "w_recheck", "w_undo", "writing"}
MutationPcs == {"m_inc", "m_recheck", "m_undo", "mutating", "m_advance",
                "m_bump", "m_drop"}
ProviderPcs == {"p_cached_open", "p_cached_gen", "p_cached", "p_versions",
                "p_read", "p_open", "p_gen", "p_set_open", "p_set_gen",
                "p_insert", "ready"}
QueryPcs == {"q_gen", "q_inc", "q_reopen", "q_regen", "q_undo", "querying"}
Pcs == {"idle"} \cup WriterPcs \cup MutationPcs \cup ProviderPcs \cup QueryPcs

CommitPcs == {"working", "quiesce_writers", "quiesce_queries",
              "quiesce_mutations", "prepared", "count_writers",
              "count_queries", "count_mutations", "draining", "drained",
              "done"}

NoProvider == [gen |-> -1, data |-> -1]
Providers == [gen : Nat \cup {-1}, data : Nat \cup {-1}]

VARIABLES
    generation,        \* AtomicU64
    lifecycle,         \* AtomicU8
    active_queries,    \* AtomicUsize
    active_mutations,  \* AtomicUsize
    active_writers,    \* Mutex<HashSet<FileID>>
    cache,             \* the table_provider_cache entry of one key
    pending,           \* mutations held in the records still to be committed
    applied,           \* mutations applied since the transaction began
    completed,         \* the last applied mutation whose advance() returned
    saved,             \* mutations in the records taken by the commit, or -1
    pc,                \* what each thread is about to do
    held,              \* the file a thread holds as writer, if any
    mine,              \* the number of the mutation a thread applied
    seen,              \* the generation a cache lookup loaded
    prov,              \* the provider a thread builds or holds
    commit,            \* what the owner of the transaction is about to do
    busy               \* whether active_counts() has seen a guard

counters == <<generation, lifecycle, active_queries, active_mutations,
              active_writers>>
records == <<pending, applied, completed, saved>>
threads == <<pc, held, mine, seen, prov>>
owner == <<commit, busy>>
vars == <<counters, cache, records, threads, owner>>

Init ==
    /\ generation = 0
    /\ lifecycle = "OPEN"
    /\ active_queries = 0
    /\ active_mutations = 0
    /\ active_writers = {}
    /\ cache = NoProvider
    /\ pending = 0
    /\ applied = 0
    /\ completed = 0
    /\ saved = -1
    /\ pc = [t \in Threads |-> "idle"]
    /\ held = [t \in Threads |-> {}]
    /\ mine = [t \in Threads |-> 0]
    /\ seen = [t \in Threads |-> 0]
    /\ prov = [t \in Threads |-> NoProvider]
    /\ commit = "working"
    /\ busy = FALSE

Goto(t, to) == pc' = [pc EXCEPT ![t] = to]

(* ensure_open: one load of the lifecycle. *)
EnsureOpen(t, at, ok, err) ==
    /\ pc[t] = at
    /\ Goto(t, IF lifecycle = "OPEN" THEN ok ELSE err)
    /\ UNCHANGED <<counters, cache, records, held, mine, seen, prov, owner>>

(* The second half of ensure_generation: one load of the generation. *)
EnsureGeneration(t, at, ok, err) ==
    /\ pc[t] = at
    /\ Goto(t, IF generation = prov[t].gen THEN ok ELSE err)
    /\ UNCHANGED <<counters, cache, records, held, mine, seen, prov, owner>>

-----------------------------------------------------------------------------
(* begin_writer and the drop of its guard. *)

BeginWriter(t) == EnsureOpen(t, "idle", "w_insert", "idle")

InsertWriter(t, f) ==
    /\ pc[t] = "w_insert"
    /\ IF f \in active_writers
         THEN /\ Goto(t, "idle")
              /\ UNCHANGED <<active_writers, held>>
         ELSE /\ Goto(t, "w_recheck")
              /\ active_writers' = active_writers \cup {f}
              /\ held' = [held EXCEPT ![t] = {f}]
    /\ UNCHANGED <<generation, lifecycle, active_queries, active_mutations,
                   cache, records, mine, seen, prov, owner>>

RecheckWriter(t) == EnsureOpen(t, "w_recheck", "writing", "w_undo")

(* The drop of a WriterGuard, and the removal after a failed recheck. *)
RemoveWriter(t) ==
    /\ pc[t] \in {"writing", "w_undo"}
    /\ active_writers' = active_writers \ held[t]
    /\ held' = [held EXCEPT ![t] = {}]
    /\ Goto(t, "idle")
    /\ UNCHANGED <<generation, lifecycle, active_queries, active_mutations,
                   cache, records, mine, seen, prov, owner>>

-----------------------------------------------------------------------------
(* begin_mutation, the change of the pending records, advance, and the drop *)
(* of the guard.                                                             *)

BeginMutation(t) == EnsureOpen(t, "idle", "m_inc", "idle")

CountMutation(t) ==
    /\ pc[t] = "m_inc"
    /\ active_mutations' = active_mutations + 1
    /\ Goto(t, "m_recheck")
    /\ UNCHANGED <<generation, lifecycle, active_queries, active_writers,
                   cache, records, held, mine, seen, prov, owner>>

(* Mutant: the lifecycle is not loaded again after the count. *)
RecheckMutationSkipped(t) == EnsureOpen(t, "m_recheck", "mutating", "mutating")

RecheckMutation(t) == EnsureOpen(t, "m_recheck", "mutating", "m_undo")

(* The change itself, under the persistence's own lock. *)
ApplyMutation(t) ==
    /\ pc[t] = "mutating"
    /\ applied < MaxApplied
    /\ applied' = applied + 1
    /\ pending' = pending + 1
    /\ mine' = [mine EXCEPT ![t] = applied']
    /\ Goto(t, "m_advance")
    /\ UNCHANGED <<counters, cache, completed, saved, held, seen, prov, owner>>

Advance(t) == EnsureOpen(t, "m_advance", "m_bump", "m_drop")

BumpGeneration(t) ==
    /\ pc[t] = "m_bump"
    /\ generation' = generation + 1
    /\ completed' = IF mine[t] > completed THEN mine[t] ELSE completed
    /\ Goto(t, "m_drop")
    /\ UNCHANGED <<lifecycle, active_queries, active_mutations,
                   active_writers, cache, pending, applied, saved, held, mine,
                   seen, prov, owner>>

(* The drop of a MutationGuard, whether the change failed before it touched *)
(* the records or was made, and the decrement after a failed recheck.        *)
DropMutation(t) ==
    /\ pc[t] \in {"mutating", "m_drop", "m_undo"}
    /\ active_mutations' = active_mutations - 1
    /\ Goto(t, "idle")
    /\ UNCHANGED <<generation, lifecycle, active_queries, active_writers,
                   cache, records, held, mine, seen, prov, owner>>

-----------------------------------------------------------------------------
(* create_table_provider: read the generation, look in the cache, list the *)
(* versions, check the generation, store in the cache.                      *)

ReadGeneration(t) ==
    /\ pc[t] = "idle"
    /\ prov' = [prov EXCEPT ![t] = [gen |-> generation, data |-> -1]]
    /\ Goto(t, "p_cached_open")
    /\ UNCHANGED <<counters, cache, records, held, mine, seen, owner>>

(* get_table_provider_cache, which is a miss when the state is not open. *)
CachedOpen(t) == EnsureOpen(t, "p_cached_open", "p_cached_gen", "p_versions")

(* The generation is loaded before the cache mutex is taken. *)
CachedGeneration(t) ==
    /\ pc[t] = "p_cached_gen"
    /\ seen' = [seen EXCEPT ![t] = generation]
    /\ Goto(t, "p_cached")
    /\ UNCHANGED <<counters, cache, records, held, mine, prov, owner>>

CachedProvider(t) ==
    /\ pc[t] = "p_cached"
    /\ IF cache # NoProvider /\ cache.gen = seen[t]
         THEN /\ prov' = [prov EXCEPT ![t] = cache]
              /\ Goto(t, "ready")
              /\ UNCHANGED cache
         ELSE /\ cache' = NoProvider
              /\ Goto(t, "p_versions")
              /\ UNCHANGED prov
    /\ UNCHANGED <<counters, records, held, mine, seen, owner>>

(* list_file_versions checks the state, then reads the pending records.     *)
(* Construction fails when no version is readable or no schema merges.       *)
ListVersions(t) == EnsureOpen(t, "p_versions", "p_read", "idle")

ReadVersions(t) ==
    /\ pc[t] = "p_read"
    /\ prov' = [prov EXCEPT ![t].data = pending]
    /\ \E to \in {"p_open", "idle"} : Goto(t, to)
    /\ UNCHANGED <<counters, cache, records, held, mine, seen, owner>>

CheckOpen(t) == EnsureOpen(t, "p_open", "p_gen", "idle")

CheckGeneration(t) == EnsureGeneration(t, "p_gen", "p_set_open", "idle")

(* set_table_provider_cache_at *)
SetCacheOpen(t) == EnsureOpen(t, "p_set_open", "p_set_gen", "idle")

SetCacheGeneration(t) == EnsureGeneration(t, "p_set_gen", "p_insert", "idle")

(* Mutant: the entry is labelled with the generation at the time of the     *)
(* insert, as set_table_provider_cache does for its own callers.             *)
InsertProviderRelabelled(t) ==
    /\ pc[t] = "p_insert"
    /\ cache' = [prov[t] EXCEPT !.gen = generation]
    /\ Goto(t, "ready")
    /\ UNCHANGED <<counters, records, held, mine, seen, prov, owner>>

InsertProvider(t) ==
    /\ pc[t] = "p_insert"
    /\ cache' = prov[t]
    /\ Goto(t, "ready")
    /\ UNCHANGED <<counters, records, held, mine, seen, prov, owner>>

-----------------------------------------------------------------------------
(* CoherentExec::execute holds a query guard for the life of its stream. *)

Execute(t) == EnsureOpen(t, "ready", "q_gen", "idle")

FirstGeneration(t) == EnsureGeneration(t, "q_gen", "q_inc", "idle")

CountQuery(t) ==
    /\ pc[t] = "q_inc"
    /\ active_queries' = active_queries + 1
    /\ Goto(t, "q_reopen")
    /\ UNCHANGED <<generation, lifecycle, active_mutations, active_writers,
                   cache, records, held, mine, seen, prov, owner>>

RecheckQuery(t) == EnsureOpen(t, "q_reopen", "q_regen", "q_undo")

RecheckGeneration(t) == EnsureGeneration(t, "q_regen", "querying", "q_undo")

(* The drop of a QueryGuard, and the decrement after a failed recheck. *)
DropQuery(t) ==
    /\ pc[t] \in {"querying", "q_undo"}
    /\ active_queries' = active_queries - 1
    /\ Goto(t, "idle")
    /\ UNCHANGED <<generation, lifecycle, active_mutations, active_writers,
                   cache, records, held, mine, seen, prov, owner>>

-----------------------------------------------------------------------------
(* The owner of the transaction: ensure_quiescent, begin_commit, the commit  *)
(* that takes the pending records, and close.                                 *)

Close ==
    /\ lifecycle' = "CLOSED"
    /\ commit' = "done"
    /\ UNCHANGED <<generation, active_queries, active_mutations,
                   active_writers, cache, records, threads, busy>>

(* ensure_quiescent, called by the steward before it prepares the commit. *)
EnsureQuiescent ==
    /\ commit = "working"
    /\ lifecycle = "OPEN"
    /\ commit' = "quiesce_writers"
    /\ UNCHANGED <<counters, cache, records, threads, busy>>

(* active_counts reads the three counts in turn, and tests them at the end. *)
ReadCount(from, to, nonzero) ==
    /\ commit = from
    /\ commit' = to
    /\ busy' = (busy \/ nonzero)
    /\ UNCHANGED <<counters, cache, records, threads>>

ActiveCounts ==
    \/ ReadCount("quiesce_writers", "quiesce_queries", active_writers # {})
    \/ ReadCount("quiesce_queries", "quiesce_mutations", active_queries # 0)
    \/ ReadCount("count_writers", "count_queries", active_writers # {})
    \/ ReadCount("count_queries", "count_mutations", active_queries # 0)

Quiescent ==
    /\ ~ (busy \/ active_mutations # 0)
    /\ ReadCount("quiesce_mutations", "prepared", FALSE)

NotQuiescent ==
    /\ commit = "quiesce_mutations"
    /\ busy \/ active_mutations # 0
    /\ Close

BeginCommit ==
    /\ commit = "prepared"
    /\ lifecycle = "OPEN"
    /\ lifecycle' = "COMMITTING"
    /\ commit' = "count_writers"
    /\ UNCHANGED <<generation, active_queries, active_mutations,
                   active_writers, cache, records, threads, busy>>

(* Mutant: begin_commit looks at writers and queries only. *)
CommitAdmittedEarly == ReadCount("count_mutations", "draining", FALSE) /\ ~ busy

CommitAdmitted ==
    /\ ~ (busy \/ active_mutations # 0)
    /\ ReadCount("count_mutations", "draining", FALSE)

CommitRejected ==
    /\ commit = "count_mutations"
    /\ busy \/ active_mutations # 0
    /\ Close

(* commit_impl takes the records out of the transaction state. *)
DrainRecords ==
    /\ commit = "draining"
    /\ saved' = pending
    /\ pending' = 0
    /\ commit' = "drained"
    /\ UNCHANGED <<counters, cache, applied, completed, threads, busy>>

CloseCommitted ==
    /\ commit = "drained"
    /\ Close

(* The guard is dropped without a commit, or commit_impl fails before it    *)
(* takes the records (a poisoned transaction).                               *)
Abandon ==
    /\ commit \in {"working", "prepared", "draining"}
    /\ Close

-----------------------------------------------------------------------------
ThreadStep(t) ==
    \/ BeginWriter(t)
    \/ \E f \in Files : InsertWriter(t, f)
    \/ RecheckWriter(t)
    \/ RemoveWriter(t)
    \/ BeginMutation(t)
    \/ CountMutation(t)
    \/ RecheckMutation(t)
    \/ ApplyMutation(t)
    \/ Advance(t)
    \/ BumpGeneration(t)
    \/ DropMutation(t)
    \/ ReadGeneration(t)
    \/ CachedOpen(t)
    \/ CachedGeneration(t)
    \/ CachedProvider(t)
    \/ ListVersions(t)
    \/ ReadVersions(t)
    \/ CheckOpen(t)
    \/ CheckGeneration(t)
    \/ SetCacheOpen(t)
    \/ SetCacheGeneration(t)
    \/ InsertProvider(t)
    \/ Execute(t)
    \/ FirstGeneration(t)
    \/ CountQuery(t)
    \/ RecheckQuery(t)
    \/ RecheckGeneration(t)
    \/ DropQuery(t)

OwnerStep ==
    \/ EnsureQuiescent
    \/ ActiveCounts
    \/ Quiescent
    \/ NotQuiescent
    \/ BeginCommit
    \/ CommitAdmitted
    \/ CommitRejected
    \/ DrainRecords
    \/ CloseCommitted
    \/ Abandon

Next == OwnerStep \/ \E t \in Threads : ThreadStep(t)

Spec == Init /\ [][Next]_vars

-----------------------------------------------------------------------------
(* The state variables stay within their types. *)
TypeOK ==
    /\ generation \in Nat
    /\ lifecycle \in Lifecycles
    /\ active_queries \in Int
    /\ active_mutations \in Int
    /\ active_writers \in SUBSET Files
    /\ cache \in Providers
    /\ pending \in Nat
    /\ applied \in Nat
    /\ completed \in Nat
    /\ saved \in Nat \cup {-1}
    /\ pc \in [Threads -> Pcs]
    /\ held \in [Threads -> SUBSET Files]
    /\ mine \in [Threads -> Nat]
    /\ seen \in [Threads -> Nat]
    /\ prov \in [Threads -> Providers]
    /\ commit \in CommitPcs
    /\ busy \in BOOLEAN

(* Threads that hold a guard they were granted. *)
HoldsWriter(t) == pc[t] = "writing"
HoldsMutation(t) == pc[t] \in {"mutating", "m_advance", "m_bump", "m_drop"}
HoldsQuery(t) == pc[t] = "querying"

(* "Writer, query, and mutation guards prevent commit from draining pending *)
(* state while an operation is still using it": from the moment begin_commit *)
(* has succeeded, and for good, no thread holds a guard.                      *)
DrainIsExclusive ==
    commit \in {"draining", "drained"} \/ saved # -1 =>
        \A t \in Threads : ~ (HoldsWriter(t) \/ HoldsMutation(t) \/ HoldsQuery(t))

(* The commit saves every mutation ever applied in the transaction: none is *)
(* applied between the moment the records are taken and the close, nor after. *)
NoMutationLost == saved # -1 => saved = applied

(* The query that begin_query admits sees every mutation whose advance() had *)
(* returned: no provider, cached or not, outlives a completed mutation.       *)
QueryIsFresh ==
    [][\A t \in Threads :
          pc[t] = "q_regen" /\ pc'[t] = "querying" =>
              prov[t].data >= completed]_vars

(* Two threads never hold the writer guard of one file, and the file of a    *)
(* granted guard is in active_writers, whatever failed attempts came between. *)
OneWriterPerFile ==
    \A t \in Threads :
        HoldsWriter(t) =>
            /\ held[t] # {} /\ held[t] \subseteq active_writers
            /\ \A u \in Threads \ {t} : HoldsWriter(u) => held[u] # held[t]

(* Failed attempts give back what they counted: each count is the number of  *)
(* threads between their increment and their decrement, so a transaction with *)
(* no operation under way can always commit.                                  *)
Counted(S) == {t \in Threads : pc[t] \in S}
CountsExact ==
    /\ active_mutations =
         Cardinality(Counted(MutationPcs \ {"m_inc"}))
    /\ active_queries =
         Cardinality(Counted({"q_reopen", "q_regen", "q_undo", "querying"}))
=============================================================================
