----------------------------- MODULE PackStore -----------------------------
(***************************************************************************)
(* The consolidated packs of one series: what pack maintenance             *)
(* (`pond maintain --collapse-versions`) writes, marks stale and sweeps    *)
(* below `_packs/`, while pulls from the local pond and the publication of *)
(* consolidated packs read the same files without the write lock.          *)
(*                                                                         *)
(* A state of the series is its number of leaves: its hash is the fold of  *)
(* its leaves, so an append gives it a new hash and a revert an old one    *)
(* back.  A physical object is a run of leaves <<first, last>>, addressed  *)
(* by content, so two states of the series share the objects they agree    *)
(* on.  A pack is an index file naming the objects that cover one state.   *)
(***************************************************************************)
EXTENDS Integers, Sequences, FiniteSets, FiniteSetsExt

CONSTANTS
    Threshold,   \* the N of --collapse-versions
    States,      \* bound: the states the series takes, 0 when it does not exist
    Scenarios    \* see the variable scenario

VARIABLES
    scenario,  \* table: a table series, not a file series; layouts: those of the builds
               \* installed one after the other; readers: the kinds of reader;
               \* commits, crashes: the bounds of the two counters
    layout,    \* which of scenario.layouts the installed build uses
    live,      \* leaves of the series at the tip
    objects,   \* _packs/objects/
    packs,     \* the pack indexes, advertisements: [series, objects]
    markers,   \* [pack, layout]: the .layout sidecars of table packs
    dirs,      \* the series= directories
    stale,     \* packs with a .stale sidecar
    staleDirs, \* series with a .stale sidecar beside their directory
    ships,     \* the snapshots of Ships opened and not yet maintaining
    run,       \* the maintenance run that holds the write lock
    reader,    \* a pull from this pond, or a publication of its packs
    commits, crashes

disk == <<objects, packs, markers, dirs, stale, staleDirs>>
bounds == <<scenario, commits, crashes>>
env == <<layout, live, ships, bounds>>
vars == <<disk, env, run, reader>>

None == [series |-> 0, objects |-> {}]

ASSUME PackAssumption ==
    /\ Threshold \in Nat
    /\ States \subseteq Nat /\ \E m \in States : \A n \in States : n <= m

(* A build closes an object after one leaf at the earliest.                *)
ASSUME ScenarioAssumption == \A sc \in Scenarios :
    /\ sc.layouts \in Seq([rows : Nat \ {0}, fits : Nat \ {0}]) /\ sc.layouts # <<>>
    /\ sc.readers \subseteq {"pull", "publish"}

-----------------------------------------------------------------------------
(* What a repack of n leaves writes, and what the survey estimates.  A     *)
(* table object is closed by its row cap or, earlier, by its byte cap; the *)
(* estimate knows the rows only.  A file object is closed by its size.     *)

Layout == scenario.layouts[layout]

CutInto(n, size) ==
    {<<i, Min({i + size - 1, n})>> : i \in {j \in 1..n : (j - 1) % size = 0}}

RepackedPack(n) == [series |-> n, objects |-> CutInto(n, Min({Layout.rows, Layout.fits}))]

ProposedObjects(n) ==
    (n + Layout.rows - 1) \div Layout.rows

Advertised(n) == {p \in packs : p.series = n}

Fanout(p) == Cardinality(p.objects)

Fewest(ps) == {p \in ps : \A q \in ps : Fanout(p) <= Fanout(q)}

(* The existing pack with the fewest objects, the first listed of several. *)
CurrentPack(n) ==
    IF Advertised(n) = {} THEN None ELSE CHOOSE p \in Fewest(Advertised(n)) : TRUE

CurrentObjects(n) ==
    IF Advertised(n) = {} THEN n ELSE Fanout(CurrentPack(n))

\* Mutant: the layout sidecar is not consulted.
AlreadyDeterministicNever(n) == FALSE

AlreadyDeterministic(n) ==
    scenario.table /\ [pack |-> CurrentPack(n), layout |-> Layout] \in markers

NeedsRepack(n) ==
    /\ n > Threshold
    /\ ~AlreadyDeterministic(n)
    /\ CurrentObjects(n) > Threshold
    /\ CurrentObjects(n) > ProposedObjects(n)

-----------------------------------------------------------------------------
(* The maintenance run.                                                    *)

Idle == [pc |-> "idle", live |-> 0, keep |-> None, todo |-> {}, at |-> None]

(* A command opens its Ship, and with it a snapshot of the data table,     *)
(* before it takes the write lock, and never reloads it.                   *)
OpenShip ==
    /\ ships' = ships \cup {live}
    /\ UNCHANGED <<disk, layout, live, bounds, run, reader>>

Overlap(r) == IF r.pc = "idle" THEN r ELSE [r EXCEPT !.runs = Min({2, @ + 1})]

(* try_acquire, then survey_all_v2_series and classify_discovery.          *)
Survey(n) ==
    /\ run.pc = "idle"
    /\ ships' = ships \ {n}
    /\ run' = IF NeedsRepack(n)
              THEN [Idle EXCEPT !.pc = "objects", !.live = n, !.keep = RepackedPack(n),
                                !.todo = RepackedPack(n).objects]
              ELSE [Idle EXCEPT !.pc = "prune", !.live = n, !.todo = dirs,
                                !.keep = IF n > Threshold THEN CurrentPack(n) ELSE None]
    /\ reader' = Overlap(reader)
    /\ UNCHANGED <<disk, layout, live, bounds>>

FirstOf(os) == CHOOSE o \in os : \A x \in os : o[1] <= x[1]

(* The objects are written in the order of their leaves.                   *)
WritePackObject ==
    /\ run.pc = "objects" /\ run.todo # {}
    /\ objects' = objects \cup {FirstOf(run.todo)}
    /\ run' = [run EXCEPT !.todo = @ \ {FirstOf(run.todo)}]
    /\ UNCHANGED <<packs, markers, dirs, stale, staleDirs, env, reader>>

PublishPackIndex ==
    /\ run.pc = "objects" /\ run.todo = {}
    /\ packs' = packs \cup {run.keep}
    /\ dirs' = dirs \cup {run.keep.series}
    /\ run' = IF scenario.table
              THEN [run EXCEPT !.pc = "layout"]
              ELSE [run EXCEPT !.pc = "prune", !.todo = dirs']
    /\ UNCHANGED <<objects, markers, stale, staleDirs, env, reader>>

WriteTableLayoutMarker ==
    /\ run.pc = "layout"
    /\ markers' = {m \in markers : m.pack # run.keep}
                    \cup {[pack |-> run.keep, layout |-> Layout]}
    /\ run' = [run EXCEPT !.pc = "prune", !.todo = dirs]
    /\ UNCHANGED <<objects, packs, dirs, stale, staleDirs, env, reader>>

(* prune_obsolete_series_dirs: a directory of a state that is no longer    *)
(* live is marked by the first run that finds it so and removed by the     *)
(* next.                                                                   *)
\* Mutant: only the series the run would repack count as live.
LiveSeriesOfCandidates(n) == IF NeedsRepack(n) THEN {n} ELSE {}

LiveSeries(n) == {n} \ {0}

Visited(d) == [run EXCEPT !.todo = @ \ {d}]

PruneLive(d) ==
    /\ run.pc = "prune" /\ d \in run.todo \cap LiveSeries(run.live)
    /\ staleDirs' = staleDirs \ {d}
    /\ run' = Visited(d)
    /\ UNCHANGED <<objects, packs, markers, dirs, stale, env, reader>>

MarkDir(d) ==
    /\ run.pc = "prune" /\ d \in run.todo \cap dirs
    /\ d \notin LiveSeries(run.live) /\ d \notin staleDirs
    /\ staleDirs' = staleDirs \cup {d}
    /\ run' = Visited(d)
    /\ UNCHANGED <<objects, packs, markers, dirs, stale, env, reader>>

(* remove_dir_all takes the files one at a time, then the directory; the   *)
(* marker beside it goes last.                                             *)
RemoveDirEntry(d) ==
    /\ run.pc = "prune" /\ d \in run.todo \cap dirs
    /\ d \notin LiveSeries(run.live) /\ d \in staleDirs
    /\ \/ \E p \in Advertised(d) :
            packs' = packs \ {p} /\ UNCHANGED <<markers, stale>>
       \/ \E m \in markers :
            m.pack.series = d /\ markers' = markers \ {m} /\ UNCHANGED <<packs, stale>>
       \/ \E p \in stale :
            p.series = d /\ stale' = stale \ {p} /\ UNCHANGED <<packs, markers>>
    /\ UNCHANGED <<objects, dirs, staleDirs, run, env, reader>>

RemoveDir(d) ==
    /\ run.pc = "prune" /\ d \in run.todo \cap dirs
    /\ d \notin LiveSeries(run.live) /\ d \in staleDirs
    /\ Advertised(d) = {}
    /\ \A p \in stale : p.series # d
    /\ \A m \in markers : m.pack.series # d
    /\ dirs' = dirs \ {d}
    /\ UNCHANGED <<objects, packs, markers, stale, staleDirs, run, env, reader>>

RemoveDirMarker(d) ==
    /\ run.pc = "prune" /\ d \in run.todo \ dirs
    /\ staleDirs' = staleDirs \ {d}
    /\ run' = Visited(d)
    /\ UNCHANGED <<objects, packs, markers, dirs, stale, env, reader>>

\* Mutant: the selected pack is the only root of the sweep.
SweepListOfSelected(ps) == objects \ run.keep.objects

SweepList(ps) == objects \ UNION {p.objects : p \in ps}

(* The selected packs go to retain_selected_pack_only; a series under the  *)
(* threshold, or without a pack, has none.                                 *)
EndPrune ==
    /\ run.pc = "prune" /\ run.todo = {}
    /\ run' = IF run.keep = None
              THEN [run EXCEPT !.pc = "sweep", !.todo = SweepList(packs)]
              ELSE [run EXCEPT !.pc = "retain", !.todo = Advertised(run.live)]
    /\ UNCHANGED <<disk, env, reader>>

RetainSelected(p) ==
    /\ run.pc = "retain" /\ run.at = None
    /\ p \in run.todo /\ p = run.keep
    /\ stale' = stale \ {p}
    /\ run' = Visited(p)
    /\ UNCHANGED <<objects, packs, markers, dirs, staleDirs, env, reader>>

\* Mutant: a superseded pack is removed by the run that supersedes it.
MarkPackRemoved(p) ==
    /\ run.pc = "retain" /\ run.at = None
    /\ p \in run.todo /\ p # run.keep /\ p \notin stale
    /\ packs' = packs \ {p}
    /\ run' = Visited(p)
    /\ UNCHANGED <<objects, markers, dirs, stale, staleDirs, env, reader>>

MarkPack(p) ==
    /\ run.pc = "retain" /\ run.at = None
    /\ p \in run.todo /\ p # run.keep /\ p \notin stale
    /\ stale' = stale \cup {p}
    /\ run' = Visited(p)
    /\ UNCHANGED <<objects, packs, markers, dirs, staleDirs, env, reader>>

(* A pack marked by an earlier run goes: its layout sidecar, its stale     *)
(* sidecar, its index.                                                     *)
RemoveLayoutMarker(p) ==
    /\ run.pc = "retain" /\ run.at = None
    /\ p \in run.todo \cap stale /\ p # run.keep
    /\ markers' = {m \in markers : m.pack # p}
    /\ markers' # markers
    /\ UNCHANGED <<objects, packs, dirs, stale, staleDirs, run, env, reader>>

RemovePackMarker(p) ==
    /\ run.pc = "retain" /\ run.at = None
    /\ p \in run.todo \cap stale /\ p # run.keep
    /\ \A m \in markers : m.pack # p
    /\ stale' = stale \ {p}
    /\ run' = [run EXCEPT !.at = p]
    /\ UNCHANGED <<objects, packs, markers, dirs, staleDirs, env, reader>>

RemovePackIndex ==
    /\ run.pc = "retain" /\ run.at # None
    /\ packs' = packs \ {run.at}
    /\ run' = [run EXCEPT !.at = None, !.todo = @ \ {run.at}]
    /\ UNCHANGED <<objects, markers, dirs, stale, staleDirs, env, reader>>

(* sweep_orphan_layout_markers, then the roots of the sweep are read from  *)
(* every index that is left.                                               *)
EndRetain ==
    /\ run.pc = "retain" /\ run.todo = {}
    /\ markers' = {m \in markers : m.pack.series = run.live => m.pack \in packs}
    /\ run' = [run EXCEPT !.pc = "sweep", !.todo = SweepList(packs)]
    /\ UNCHANGED <<objects, packs, dirs, stale, staleDirs, env, reader>>

SweepObject ==
    /\ run.pc = "sweep" /\ run.todo # {}
    /\ objects' = objects \ {FirstOf(run.todo)}
    /\ run' = Visited(FirstOf(run.todo))
    /\ UNCHANGED <<packs, markers, dirs, stale, staleDirs, env, reader>>

Finish ==
    /\ run.pc = "sweep" /\ run.todo = {}
    /\ run' = Idle
    /\ UNCHANGED <<disk, env, reader>>

Crash ==
    /\ run.pc # "idle" /\ crashes < scenario.crashes
    /\ crashes' = crashes + 1
    /\ run' = Idle
    /\ UNCHANGED <<disk, layout, live, ships, scenario, commits, reader>>

-----------------------------------------------------------------------------
(* The rest of the pond: a commit appends to the series, reverts it or     *)
(* removes it, under the write lock; a new build brings a new layout.      *)

Commit(n) ==
    /\ run.pc = "idle" /\ commits < scenario.commits /\ n # live
    /\ live' = n
    /\ commits' = commits + 1
    /\ UNCHANGED <<disk, layout, ships, scenario, crashes, run, reader>>

Upgrade ==
    /\ run.pc = "idle" /\ ships = {} /\ layout < Len(scenario.layouts)
    /\ layout' = layout + 1
    /\ UNCHANGED <<disk, live, ships, bounds, run, reader>>

-----------------------------------------------------------------------------
(* The readers, which take no lock.  A pull opens the pond, lists the      *)
(* packs of the series at its tip, reads each index and fetches the        *)
(* objects of the one with the fewest; a publication reads every index of  *)
(* the pond, refuses unless exactly one pack of the current state is left, *)
(* verifies its objects and uploads them.                                  *)

NoReader == [pc |-> "idle", kind |-> "pull", series |-> 0, names |-> {},
             found |-> {}, want |-> {}, runs |-> 0, old |-> FALSE]

Resolve(kind) ==
    /\ reader.pc = "idle" /\ live # 0
    /\ reader' = [NoReader EXCEPT !.pc = "resolved", !.kind = kind, !.series = live,
                                  !.runs = IF run.pc = "idle" THEN 0 ELSE 1]
    /\ UNCHANGED <<disk, env, run>>

ListPacks ==
    /\ reader.pc = "resolved"
    /\ LET listed == IF reader.kind = "pull" THEN Advertised(reader.series) ELSE packs
       IN  reader' = [reader EXCEPT !.pc = "reading", !.names = listed,
                                    !.old = \E p \in listed :
                                        p \in stale \cup {run.at} \/ p.series \in staleDirs]
    /\ UNCHANGED <<disk, env, run>>

Failed == [NoReader EXCEPT !.pc = "failed", !.runs = reader.runs, !.old = reader.old]

(* An index that vanished since the listing fails the pull and is skipped  *)
(* by the publication.                                                     *)
ReadPackIndex(p) ==
    /\ reader.pc = "reading" /\ p \in reader.names
    /\ reader' = IF p \in packs
                 THEN [reader EXCEPT !.names = @ \ {p}, !.found = @ \cup {p}]
                 ELSE IF reader.kind = "publish"
                 THEN [reader EXCEPT !.names = @ \ {p}]
                 ELSE Failed
    /\ UNCHANGED <<disk, env, run>>

(* Without a pack the pull fetches the segments its commits introduced.    *)
SelectPack ==
    /\ reader.pc = "reading" /\ reader.names = {} /\ reader.kind = "pull"
    /\ IF reader.found = {}
       THEN reader' = NoReader
       ELSE \E p \in Fewest(reader.found) :
              reader' = [reader EXCEPT !.pc = "fetch", !.found = {}, !.want = p.objects]
    /\ UNCHANGED <<disk, env, run>>

BuildPlan ==
    /\ reader.pc = "reading" /\ reader.names = {} /\ reader.kind = "publish"
    /\ reader' = IF Cardinality(reader.found) = 1 /\ \A p \in reader.found : p.series = reader.series
                 THEN [reader EXCEPT !.pc = "verify",
                                     !.want = UNION {p.objects : p \in reader.found}]
                 ELSE NoReader
    /\ UNCHANGED <<disk, env, run>>

FetchObject ==
    /\ reader.pc \in {"verify", "fetch"} /\ reader.want # {}
    /\ reader' = IF FirstOf(reader.want) \in objects
                 THEN [reader EXCEPT !.want = @ \ {FirstOf(reader.want)}]
                 ELSE Failed
    /\ UNCHANGED <<disk, env, run>>

EndFetch ==
    /\ reader.pc \in {"verify", "fetch"} /\ reader.want = {}
    /\ reader' = IF reader.pc = "verify"
                 THEN [reader EXCEPT !.pc = "fetch",
                                     !.want = UNION {p.objects : p \in reader.found}]
                 ELSE NoReader
    /\ UNCHANGED <<disk, env, run>>

Retry ==
    /\ reader.pc = "failed"
    /\ reader' = NoReader
    /\ UNCHANGED <<disk, env, run>>

-----------------------------------------------------------------------------
Init ==
    /\ scenario \in Scenarios /\ layout = 1
    /\ live \in States
    /\ objects = {} /\ packs = {} /\ markers = {}
    /\ dirs = {} /\ stale = {} /\ staleDirs = {}
    /\ ships = {} /\ run = Idle /\ reader = NoReader
    /\ commits = 0 /\ crashes = 0

Maintain ==
    \/ WritePackObject \/ PublishPackIndex \/ WriteTableLayoutMarker
    \/ \E d \in States :
         PruneLive(d) \/ MarkDir(d) \/ RemoveDirEntry(d) \/ RemoveDir(d) \/ RemoveDirMarker(d)
    \/ EndPrune
    \/ \E p \in packs :
         RetainSelected(p) \/ MarkPack(p) \/ RemoveLayoutMarker(p) \/ RemovePackMarker(p)
    \/ RemovePackIndex \/ EndRetain \/ SweepObject \/ Finish

Read ==
    \/ \E kind \in scenario.readers : Resolve(kind)
    \/ ListPacks
    \/ \E p \in reader.names : ReadPackIndex(p)
    \/ SelectPack \/ BuildPlan \/ FetchObject \/ EndFetch \/ Retry

Next ==
    \/ OpenShip
    \/ \E n \in ships : Survey(n)
    \/ Maintain \/ Crash
    \/ \E n \in States : Commit(n)
    \/ Upgrade
    \/ Read

(* Maintenance is run again and again, as the refusals of the publication  *)
(* ask, and a run that is not killed goes on to its end.                   *)
Fairness ==
    /\ WF_vars(OpenShip)
    /\ WF_vars(\E n \in ships : Survey(n))
    /\ WF_vars(Maintain)

Spec == Init /\ [][Next]_vars
FairSpec == Spec /\ Fairness

-----------------------------------------------------------------------------
Leaves == 1..Max(States)
Objects == Leaves \X Leaves

(* A pack covers the leaves of its series exactly once.                    *)
Covers(p) ==
    /\ p.series \in States /\ p.objects \subseteq Objects
    /\ \A i \in Leaves :
         Cardinality({o \in p.objects : o[1] <= i /\ i <= o[2]}) = IF i <= p.series THEN 1 ELSE 0

(* Wherever a run stands or died, an advertised pack covers its series     *)
(* exactly once and every object it names is on disk: objects are written  *)
(* before the index that names them, indexes are removed before the        *)
(* objects, and the sweep spares what any remaining index names, also the  *)
(* packs only marked stale.                                                *)
NoDangling == \A p \in packs : Covers(p) /\ p.objects \subseteq objects

(* While the series stays at a state that has a pack, it is left with none *)
(* only by a run whose Ship was opened at another state and that finds the *)
(* directory already marked: the replacement is published before anything  *)
(* is pruned.                                                              *)
NeverUnpacked ==
    [][ live' = live /\ Advertised(live) # {} /\ Advertised(live)' = {}
          => run.live # live /\ live \in staleDirs ]_vars

(* A reader loses an index or an object it listed only if two runs         *)
(* overlapped it, or if what it listed was already marked stale, or was    *)
(* being removed, when it listed it.                                       *)
Grace == reader.pc = "failed" => reader.runs = 2 \/ reader.old

(* Once commits, upgrades and crashes stop, repeated runs leave at most    *)
(* the one pack of the current state, no object that it does not name, and *)
(* nothing to repack: what the publication insists on.                     *)
Settled ==
    /\ \A p \in packs : p.series = live
    /\ Cardinality(packs) <= 1
    /\ objects = UNION {p.objects : p \in packs}
    /\ ~NeedsRepack(live)

Settles == <>[]Settled

=============================================================================
