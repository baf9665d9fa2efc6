------------------------------- MODULE Mirror -------------------------------
(* A pond and a replica that pulls from it (steward/src/content_pull.rs).     *)
(* The source edits its tree in write transactions; every commit folds the    *)
(* transaction and publishes what changed in its manifest.  A pull compares   *)
(* the source's manifest with the replica's by node identity, plans a list of *)
(* filesystem operations, and applies them one by one in one transaction,     *)
(* which commits only when the replica's own fold gives the source's roots.   *)
(* How publications travel is in Replication; this module is about what is    *)
(* planned and applied.                                                       *)
EXTENDS ContentTree, SequencesExt

CONSTANTS InitialTrees,   \* the trees the source may start from
          MaxEdits,       \* bound on the edits of the source
          MaxVersions     \* bound on the versions of a series

VARIABLES source,      \* the source pond
          replica,     \* the replica pond
          follows,     \* has the replica acknowledged a publication
          published,   \* changes of the publications after that one, oldest first
          edits,       \* edits made so far
          pull         \* the pull that runs: mode, plan, open directories, outcome

vars == <<source, replica, follows, published, edits, pull>>

NoPull == [mode |-> "none", plan |-> <<>>, wd |-> <<>>, outcome |-> "none"]
Modes == {"incremental", "complete", "replace"}
EmptyTree == [id \in {Root} |-> Dir(<<>>)]

Init ==
    /\ \E t \in InitialTrees : source = Pond(t, FullFold(t))
    /\ \/ replica = source /\ follows = TRUE
       \/ replica = Pond(EmptyTree, FullFold(EmptyTree)) /\ follows = FALSE
    /\ published = <<>>
    /\ edits = 0
    /\ pull = NoPull

(* ---- the source -------------------------------------------------------- *)
Directories == {d \in SubtreeOf(source.tree, Root) : source.tree[d].type = "dir"}
Linked(type) == {id \in SubtreeOf(source.tree, Root) : source.tree[id].type = type}
NewId == Min(Ids \ DOMAIN source.tree)

Edit(p) ==
    /\ pull.mode = "none" /\ edits < MaxEdits
    /\ source' = p /\ edits' = edits + 1
    /\ UNCHANGED <<replica, follows, published, pull>>

CreateDirectory(d, name) ==
    /\ Ids \ DOMAIN source.tree # {}
    /\ ~Has(source, d, name)
    /\ Edit(Insert(MakeDirectory(source, NewId), d, name, NewId))

CreateLeaf(d, name, type, v) ==
    /\ Ids \ DOMAIN source.tree # {}
    /\ ~Has(source, d, name)
    /\ Edit(Insert(WriteVersions(source, NewId, type, <<v>>), d, name, NewId))

Overwrite(id, v) ==
    /\ v.val # Empty
    /\ Edit(WriteVersions(source, id, source.tree[id].type, <<v>>))

(* stamp_and_validate_series_entry: only its first version may be empty.      *)
AppendSeries(id, v) ==
    /\ Len(source.tree[id].versions) < MaxVersions
    /\ v.val # Empty
    /\ Edit(WriteVersions(source, id, "series", <<v>>))

Rename(d, old, new) ==
    /\ ~Has(source, d, new)
    /\ Edit(RenameEntry(source, d, old, new))

RemoveEntry(d, name) ==
    /\ ~Transient => source.tree[d].map[name] \in DOMAIN source.base
    /\ Edit(Unlink(source, d, name))

Commit ==
    /\ pull.mode = "none"
    /\ source.touched \cup source.modified # {}
    /\ LET manifest == IncrementalFold(source)
       IN  /\ source' = Committed(source, manifest)
           /\ published' = IF follows
                           THEN Append(published, ChangesBetween(source.manifest, manifest))
                           ELSE published
    /\ UNCHANGED <<replica, follows, edits, pull>>

(* ---- what a pull knows of the two ponds -------------------------------- *)
(* squash_publication_changes: the changes of several publications as one.    *)
Squash(log) ==
    LET merge(acc, changes) ==
            [id \in DOMAIN acc \cup DOMAIN changes |->
                [before |-> IF id \in DOMAIN acc THEN acc[id].before ELSE changes[id].before,
                 after |-> IF id \in DOMAIN changes THEN changes[id].after ELSE acc[id].after]]
        all == FoldLeft(merge, <<>>, log)
    IN  [id \in {i \in DOMAIN all : all[i].before # all[i].after} |-> all[id]]

(* sparse_target_planning_state: of the replica's manifest, the records that  *)
(* change and those on the way from them to the root.                         *)
RECURSIVE Climb(_, _, _)
Climb(manifest, changes, id) ==
    IF id = NoNode THEN {}
    ELSE IF id \in DOMAIN manifest THEN {id} \cup Climb(manifest, changes, manifest[id].parent)
    ELSE IF id \in DOMAIN changes /\ changes[id].after # Absent
         THEN Climb(manifest, changes, changes[id].after.parent)
    ELSE {}

SparseNodes(manifest, changes) ==
    LET parents == {changes[id].after.parent : id \in {i \in DOMAIN changes : changes[i].after # Absent}}
                   \cup {changes[id].before.parent : id \in {i \in DOMAIN changes : changes[i].before # Absent}}
        loaded == (DOMAIN changes \cap DOMAIN manifest)
                  \cup UNION {Climb(manifest, changes, id) : id \in parents \cup {Root}}
    IN  [id \in loaded |-> manifest[id]]

BaselineHolds(manifest, changes) ==
    \A id \in DOMAIN changes :
        changes[id].before = IF id \in DOMAIN manifest THEN manifest[id] ELSE Absent

Effective(nodes, changes) ==
    LET kept == {id \in DOMAIN nodes : id \notin DOMAIN changes}
        made == {id \in DOMAIN changes : changes[id].after # Absent}
    IN  [id \in kept \cup made |-> IF id \in made THEN changes[id].after ELSE nodes[id]]

(* ---- the plan ----------------------------------------------------------- *)
Depth(nodes, id) == Cardinality(Upward(nodes, id))

RECURSIVE PathOf(_, _)
PathOf(nodes, id) ==
    IF id = Root THEN <<>> ELSE Append(PathOf(nodes, nodes[id].parent), nodes[id].name)

DeeperFirst(nodes, a, b) == Depth(nodes, a) > Depth(nodes, b)

DeleteOps(nodes, ids) ==
    LET before(a, b) == DeeperFirst(nodes, a, b)
        order == SetToSortSeq(ids, before)
    IN  [i \in 1..Len(order) |->
            [op |-> "delete", path |-> PathOf(nodes, nodes[order[i]].parent),
             name |-> nodes[order[i]].name]]

(* The name a node waits under while a cycle of renames is broken; the names  *)
(* of trees are larger.                                                       *)
TempName(id, suffix) == 10 * (id + 1) + suffix

\* Mutant: the suffix is never counted up.
FirstTemp(id, taken) == TempName(id, 0)

FreeTemp(id, taken) == TempName(id, Min({k \in 0..Cardinality(taken) : TempName(id, k) \notin taken}))

RenameOp(dir, r) == [op |-> "rename", dir |-> dir, old |-> r.old, new |-> r.new]

(* emit_collision_safe_renames: every rename whose new name no pending one    *)
(* holds; when only cycles are left, one node of them steps aside.            *)
RECURSIVE RenameOps(_, _, _)
RenameOps(dir, pending, reserved) ==
    LET held == {r.old : r \in pending}
        free == {r \in pending : r.new \notin held}
        byName(a, b) == a.old < b.old
        order == SetToSortSeq(free, byName)
    IN  IF pending = {} THEN <<>>
        ELSE IF free # {}
        THEN [i \in 1..Len(order) |-> RenameOp(dir, order[i])]
             \o RenameOps(dir, pending \ free, reserved)
        ELSE LET victim == CHOOSE r \in pending : \A q \in pending : r.old <= q.old
                 temp == FreeTemp(victim.id, reserved \cup (held \ {victim.old}))
             IN  <<RenameOp(dir, [victim EXCEPT !.new = temp])>>
                 \o RenameOps(dir, (pending \ {victim}) \cup {[victim EXCEPT !.old = temp]},
                              reserved \cup {temp})

\* Mutant: a change of metadata alone is not seen.
NeedsWriteByHash(entry, nodes, id) == id \in DOMAIN nodes => nodes[id].hash # entry.hash

NeedsWrite(entry, nodes, id) ==
    id \in DOMAIN nodes => nodes[id].hash # entry.hash \/ nodes[id].time # entry.time

(* plan_one: what one node of the source asks of the replica.  A series asks  *)
(* for the leaves the replica does not hold.                                  *)
NodeOps(src, nodes, id) ==
    LET entry == src[id]
        create == id \notin DOMAIN nodes
        write == NeedsWrite(entry, nodes, id)
        held == IF create THEN 0 ELSE Len(nodes[id].hash.series)
        count == Len(entry.hash.series)
        version(val) == [val |-> val, time |-> entry.time]
        op(vs) == <<[op |-> entry.type, dir |-> entry.parent, name |-> entry.name, id |-> id,
                     create |-> create, versions |-> vs]>>
    IN  CASE entry.type = "dir" -> op(<<>>)
          [] entry.type = "file" -> op(IF write THEN <<version(entry.hash.blob)>> ELSE <<>>)
          [] entry.type = "link" -> IF write THEN op(<<version(entry.hash.blob)>>) ELSE <<>>
          [] entry.type = "series" ->
               IF create /\ count = 0 THEN op(<<version(Empty)>>)
               ELSE IF write /\ held < count
               THEN op([i \in 1..(count - held) |-> version(entry.hash.series[held + i])])
               ELSE <<>>

(* plan_node_diff: deletions, then directory by directory from the root the   *)
(* renames and after them the nodes in the order of their names.              *)
RECURSIVE PlanFrom(_, _, _)
PlanFrom(src, nodes, queue) ==
    IF queue = <<>> THEN <<>>
    ELSE LET d == Head(queue)
             kids == {id \in DOMAIN src : src[id].parent = d}
             byName(a, b) == src[a].name < src[b].name
             order == SetToSortSeq(kids, byName)
             renames == {[old |-> nodes[id].name, new |-> src[id].name, id |-> id] :
                           id \in {k \in kids \cap DOMAIN nodes :
                                     nodes[k].parent = d /\ nodes[k].name # src[k].name}}
             reserved == {src[id].name : id \in kids}
                         \cup (IF d \in DOMAIN nodes THEN {c.name : c \in nodes[d].children} ELSE {})
             isDir(id) == src[id].type = "dir"
         IN  RenameOps(d, renames, reserved)
             \o FlattenSeq([i \in 1..Len(order) |-> NodeOps(src, nodes, order[i])])
             \o PlanFrom(src, nodes, Tail(queue) \o SelectSeq(order, isDir))

\* Mutant: a renamed node is deleted and created again.
PlanByName(src, nodes) ==
    DeleteOps(nodes, {id \in DOMAIN nodes \ {Root} : id \in DOMAIN src => src[id].name # nodes[id].name})
    \o PlanFrom(src, nodes, <<Root>>)

Plan(src, nodes) ==
    DeleteOps(nodes, DOMAIN nodes \ (DOMAIN src \cup {Root})) \o PlanFrom(src, nodes, <<Root>>)

PlanReplacement(src, nodes) ==
    DeleteOps(nodes, DOMAIN nodes \ {Root}) \o PlanFrom(src, <<>>, <<Root>>)

(* What a plan refuses: a node under another parent or of another type, and a *)
(* series the replica's leaves are no prefix of.                              *)
Supported(src, nodes) ==
    \A id \in DOMAIN src \cap DOMAIN nodes :
        /\ src[id].parent = nodes[id].parent /\ src[id].type = nodes[id].type
        /\ src[id].type = "series" => IsPrefix(nodes[id].hash.series, src[id].hash.series)

(* ---- the pull ----------------------------------------------------------- *)
(* A pull works on the publication it fetched: what the source does meanwhile *)
(* is for the next one, so the source waits.                                  *)
StartPull(mode, supported, plan) ==
    /\ pull' = IF supported
               THEN [mode |-> mode, plan |-> plan, wd |-> [d \in {Root} |-> Root], outcome |-> "none"]
               ELSE [NoPull EXCEPT !.outcome = "failed"]
    /\ UNCHANGED <<source, replica, follows, published, edits>>

MayPull == pull = NoPull /\ source.touched \cup source.modified = {}

PullIncremental ==
    /\ MayPull /\ follows /\ published # <<>>
    /\ LET changes == Squash(published)
           nodes == SparseNodes(replica.manifest, changes)
           src == Effective(nodes, changes)
       IN  StartPull("incremental", BaselineHolds(replica.manifest, changes) /\ Supported(src, nodes),
                     IF changes = <<>> THEN <<>> ELSE Plan(src, nodes))

PullComplete ==
    /\ MayPull /\ (follows => published # <<>>)
    /\ LET nodes == FullFold(replica.tree)
       IN  StartPull("complete", Supported(source.manifest, nodes), Plan(source.manifest, nodes))

ReplaceGraft ==
    /\ MayPull /\ follows
    /\ \A id \in DOMAIN replica.tree : Len(replica.tree[id].versions) < MaxVersions
    /\ StartPull("replace", TRUE, PlanReplacement(source.manifest, FullFold(replica.tree)))

RECURSIVE Walk(_, _, _)
Walk(tree, d, path) ==
    IF path = <<>> THEN d
    ELSE IF Head(path) \in DOMAIN tree[d].map
    THEN Walk(tree, tree[d].map[Head(path)], Tail(path))
    ELSE NoNode

(* The replica after one operation of the plan, or NoPond when it fails.  The *)
(* rows of a node outlive its entry, so the empty version that creates a      *)
(* series without leaves is refused where the node has a version already.     *)
NoPond == [failed |-> TRUE]

EmptyAfterFirst(p, op) ==
    op.op = "series" /\ op.id \in DOMAIN p.tree /\ Leaves(op.versions) = <<>>

ApplyOp(p, wd, op) ==
    LET d == IF op.op = "delete" THEN Walk(p.tree, Root, op.path)
             ELSE IF op.dir \in DOMAIN wd THEN wd[op.dir] ELSE NoNode
    IN  IF d = NoNode THEN NoPond
        ELSE IF op.op = "delete"
        THEN IF Has(p, d, op.name) THEN Unlink(p, d, op.name) ELSE NoPond
        ELSE IF op.op = "rename"
        THEN IF Has(p, d, op.old) /\ ~Has(p, d, op.new) THEN RenameEntry(p, d, op.old, op.new)
             ELSE NoPond
        ELSE IF op.create
        THEN IF Has(p, d, op.name) \/ EmptyAfterFirst(p, op) THEN NoPond
             ELSE Insert(IF op.op = "dir" THEN MakeDirectory(p, op.id)
                         ELSE WriteVersions(p, op.id, op.op, op.versions), d, op.name, op.id)
        ELSE IF op.op = "file" /\ op.versions = <<>> THEN p
        ELSE IF ~Has(p, d, op.name) THEN NoPond
        ELSE IF op.op = "dir" THEN p
        ELSE IF op.op = "link"
        THEN Insert(WriteVersions(Unlink(p, d, op.name), op.id, op.op, op.versions), d, op.name, op.id)
        ELSE WriteVersions(p, p.tree[d].map[op.name], op.op, op.versions)

Opened(p, wd, op) ==
    IF op.op = "dir"
    THEN [n \in DOMAIN wd \cup {op.id} |->
            IF n = op.id THEN p.tree[wd[op.dir]].map[op.name] ELSE wd[n]]
    ELSE wd

Abandon(outcome) ==
    /\ replica' = Pond(replica.base, replica.manifest)
    /\ pull' = [NoPull EXCEPT !.outcome = outcome]
    /\ UNCHANGED <<source, follows, published, edits>>

Apply ==
    /\ pull.plan # <<>>
    /\ LET op == Head(pull.plan)
           next == ApplyOp(replica, pull.wd, op)
       IN  IF next = NoPond THEN Abandon("failed")
           ELSE /\ replica' = next
                /\ pull' = [pull EXCEPT !.plan = Tail(@), !.wd = Opened(next, @, op)]
                /\ UNCHANGED <<source, follows, published, edits>>

(* The transaction commits when its fold gives the roots of the publication.  *)
(* A replacement has no prior manifest and folds all rows.                    *)
FinishPull ==
    /\ pull.mode # "none" /\ pull.plan = <<>>
    /\ LET manifest == IF pull.mode = "replace" THEN FullFold(replica.tree)
                       ELSE IncrementalFold(replica)
       IN  IF manifest # source.manifest THEN Abandon("refused")
           ELSE /\ replica' = Committed(replica, manifest)
                /\ follows' = TRUE /\ published' = <<>>
                /\ pull' = NoPull
                /\ UNCHANGED <<source, edits>>

Return ==
    /\ pull.mode = "none" /\ pull.outcome # "none"
    /\ pull' = NoPull
    /\ UNCHANGED <<source, replica, follows, published, edits>>

Next ==
    \/ \E d \in Directories, name \in Names :
         \/ CreateDirectory(d, name)
         \/ \E leaf \in Created : CreateLeaf(d, name, leaf.type, leaf.version)
         \/ \E old \in DOMAIN source.tree[d].map : Rename(d, old, name)
    \/ \E d \in Directories : \E name \in DOMAIN source.tree[d].map : RemoveEntry(d, name)
    \/ \E id \in Linked("file") \cup Linked("link"), v \in Versions : Overwrite(id, v)
    \/ \E id \in Linked("series"), v \in Versions : AppendSeries(id, v)
    \/ Commit
    \/ PullIncremental \/ PullComplete \/ ReplaceGraft
    \/ Apply \/ FinishPull \/ Return

Spec == Init /\ [][Next]_vars

(* ---- properties --------------------------------------------------------- *)
(* "the incremental roots must match a full fold of the same live state"      *)
(* (write_reserved_nodes): once a transaction is committed the manifest it    *)
(* folded from its own rows is the manifest of the whole tree, in the source  *)
(* and in the replica.                                                        *)
FoldExact ==
    \A p \in {source, replica} :
        p.touched \cup p.modified = {} => p.manifest = FullFold(p.tree)

(* Whatever the source did, the pull of a replica that followed it can be     *)
(* planned and every operation of the plan finds the names it needs there or  *)
(* free (plan_node_diff and apply_ops agree on the order).  The one pull that *)
(* fails replaces a graft that holds a series without leaves:                 *)
(* materialize_empty_series writes a second empty version, which              *)
(* stamp_and_validate_series_entry refuses.                                   *)
NoOpFails ==
    [][pull'.outcome = "failed" /\ pull.outcome # "failed"
       => /\ pull.mode = "replace"
          /\ \E id \in DOMAIN source.manifest \cap DOMAIN replica.base :
                source.manifest[id].type = "series" /\ source.manifest[id].hash.series = <<>>]_vars

(* The fold after the apply refuses a pull only when a graft is replaced that *)
(* held a series with content: its old versions stay under the kept identity  *)
(* (plan_full_replacement creates it again).  No other plan misses a change.  *)
RefusedOnly ==
    [][pull'.outcome = "refused" /\ pull.outcome # "refused"
       => /\ pull.mode = "replace"
          /\ \E id \in DOMAIN source.manifest \cap DOMAIN replica.base :
                LET node == replica.base[id]
                IN  node.type = "series" /\ Leaves(node.versions) # <<>>]_vars

(* A node both ponds have is never out of the replica's tree while a pull     *)
(* renames and rewrites it, except when a graft is replaced as a whole.       *)
IdentityKept ==
    pull.mode \in {"incremental", "complete"}
    => DOMAIN source.manifest \cap DOMAIN replica.manifest \subseteq SubtreeOf(replica.tree, Root)
=============================================================================
