---------------------------- MODULE ContentTree ----------------------------
(* The content tree of a pond and the fold a write transaction makes of it    *)
(* (steward/src/content_tree.rs).  A pond is a tree of nodes: a directory     *)
(* maps names to node identities, a leaf is the versions written to it.  Its  *)
(* manifest has one record per node: where it hangs, and a hash of what it    *)
(* holds.  A commit does not fold the whole tree.  It starts from the prior   *)
(* manifest and looks only at the rows of the transaction                     *)
(* (incremental_spine_inputs_v2); the fold of the whole tree is what          *)
(* POND_VERIFY_FOLD compares it with.                                         *)
(*                                                                            *)
(* A hash is what it is a hash of: equal contents have equal hashes and       *)
(* different contents different ones.                                         *)
EXTENDS Integers, Sequences, FiniteSets, FiniteSetsExt, Functions

CONSTANTS Ids,         \* identities of nodes other than the root
          Names,       \* names an edit can give an entry, ordered as strings are
          Versions,    \* versions a leaf can be given: val and modification time
          Created,     \* leaves that can be created: type and first version
          Transient    \* may a transaction remove an entry it has created

Root == 0
NoNode == -1           \* the empty parent_node_id
NoName == 0            \* the empty name
Empty == 0             \* a version of no bytes: a series keeps no leaf for it
Absent == [absent |-> TRUE]

Dir(map) == [type |-> "dir", map |-> map, versions |-> <<>>]
Leaf(type, versions) == [type |-> type, map |-> <<>>, versions |-> versions]

(* ---- the filesystem a transaction edits -------------------------------- *)
(* tree: the live rows, those of unlinked nodes included (rows are never      *)
(* taken back); base: the rows committed before the transaction; touched and  *)
(* modified: the leaves and the directories the transaction has rows for;     *)
(* manifest: the records of the last commit.                                  *)
Pond(tree, manifest) == [tree |-> tree, base |-> tree, touched |-> {}, modified |-> {},
                         manifest |-> manifest]

Has(p, d, name) == name \in DOMAIN p.tree[d].map

Insert(p, d, name, id) ==
    [p EXCEPT !.tree[d].map = [n \in DOMAIN @ \cup {name} |-> IF n = name THEN id ELSE @[n]],
              !.modified = @ \cup {d}]

Unlink(p, d, name) ==
    [p EXCEPT !.tree[d].map = [n \in DOMAIN @ \ {name} |-> @[n]],
              !.modified = @ \cup {d}]

RenameEntry(p, d, old, new) ==
    LET id == p.tree[d].map[old] IN Insert(Unlink(p, d, old), d, new, id)

(* A series keeps every version it was ever given; of any other leaf the      *)
(* latest version is the node.                                                *)
WriteVersions(p, id, type, vs) ==
    LET held == IF id \in DOMAIN p.tree /\ type = "series" THEN p.tree[id].versions ELSE <<>>
    IN  [p EXCEPT !.tree = [n \in DOMAIN @ \cup {id} |->
                                IF n = id THEN Leaf(type, held \o vs) ELSE @[n]],
                  !.touched = @ \cup {id}]

MakeDirectory(p, id) ==
    [p EXCEPT !.tree = [n \in DOMAIN @ \cup {id} |-> IF n = id THEN Dir(<<>>) ELSE @[n]],
              !.modified = @ \cup {id}]

(* ---- hashes and metadata of leaves ------------------------------------- *)
HasBytes(v) == v.val # Empty
Leaves(vs) == SelectSeq(vs, HasBytes)

LeafHash(type, vs) ==
    IF type = "series"
    THEN [series |-> [i \in 1..Len(Leaves(vs)) |-> Leaves(vs)[i].val]]
    ELSE [blob |-> vs[Len(vs)].val]

(* The time of a series is that of its last version with bytes, and only      *)
(* while it has none that of its last version.                                *)
LeafTime(type, vs) ==
    IF type = "series" /\ Leaves(vs) # <<>> THEN Leaves(vs)[Len(Leaves(vs))].time
    ELSE vs[Len(vs)].time

Record(parent, name, type, hash, time, children) ==
    [parent |-> parent, name |-> name, type |-> type, hash |-> hash, time |-> time,
     children |-> children]

ChildrenOf(tree, d) ==
    {[id |-> tree[d].map[n], name |-> n, type |-> tree[tree[d].map[n]].type] :
        n \in DOMAIN tree[d].map}

(* Where the entries of these directories put each of their children.         *)
Places(tree, dirs) ==
    LET entries == UNION {{[dir |-> d, name |-> n, id |-> tree[d].map[n]] : n \in DOMAIN tree[d].map}
                          : d \in dirs}
    IN  [id \in {e.id : e \in entries} |-> CHOOSE e \in entries : e.id = id]

(* ---- the fold of the whole tree ---------------------------------------- *)
RECURSIVE HashOf(_, _)
HashOf(tree, id) ==
    IF tree[id].type # "dir" THEN LeafHash(tree[id].type, tree[id].versions)
    ELSE [tree |-> {<<c.name, c.type, HashOf(tree, c.id),
                      IF c.type = "dir" THEN 0 ELSE LeafTime(c.type, tree[c.id].versions)>> :
                        c \in ChildrenOf(tree, id)}]

RECURSIVE SubtreeOf(_, _)
SubtreeOf(tree, id) ==
    {id} \cup UNION {SubtreeOf(tree, tree[id].map[n]) : n \in DOMAIN tree[id].map}

FullFold(tree) ==
    LET ids == SubtreeOf(tree, Root)
        places == Places(tree, ids)
    IN  [id \in ids |->
           Record(IF id = Root THEN NoNode ELSE places[id].dir,
                  IF id = Root THEN NoName ELSE places[id].name,
                  tree[id].type, HashOf(tree, id),
                  IF tree[id].type = "dir" THEN 0 ELSE LeafTime(tree[id].type, tree[id].versions),
                  ChildrenOf(tree, id))]

(* ---- the fold of one transaction (incremental_spine_inputs_v2) ---------- *)
(* The record of a written leaf: what was known of the node, or a record      *)
(* without a place, with the hash and the time of the new rows.  A series is  *)
(* extended from its prior manifest by the versions of this transaction.      *)
LeafRecord(p, id) ==
    LET known == id \in DOMAIN p.manifest
        node == p.tree[id]
        before == IF id \in DOMAIN p.base THEN Len(p.base[id].versions) ELSE 0
        added == Leaves(SubSeq(node.versions, before + 1, Len(node.versions)))
        prior == IF known THEN p.manifest[id].hash.series ELSE <<>>
        series == [series |-> prior \o [i \in 1..Len(added) |-> added[i].val]]
        time == IF node.type # "series" THEN LeafTime(node.type, node.versions)
                ELSE IF added # <<>> THEN added[Len(added)].time
                ELSE IF known THEN p.manifest[id].time
                ELSE node.versions[Len(node.versions)].time
        hash == IF node.type = "series" THEN series ELSE LeafHash(node.type, node.versions)
    IN  IF known THEN [p.manifest[id] EXCEPT !.hash = hash, !.time = time]
        ELSE Record(NoNode, NoName, node.type, hash, time, {})

(* The entries of the modified directories give every child its place.        *)
Mutations(p) ==
    LET places == Places(p.tree, p.modified)
        current(id) == IF id \in p.touched THEN LeafRecord(p, id)
                       ELSE IF id \in DOMAIN p.manifest THEN p.manifest[id]
                       ELSE Record(NoNode, NoName, "dir", [tree |-> {}], 0, {})
    IN  [id \in p.touched \cup p.modified \cup DOMAIN places |->
           [current(id) EXCEPT
              !.parent = IF id \in DOMAIN places THEN places[id].dir ELSE @,
              !.name = IF id \in DOMAIN places THEN places[id].name ELSE @,
              !.children = IF id \in p.modified THEN ChildrenOf(p.tree, id) ELSE @]]

Overlay(manifest, mutated) ==
    [id \in DOMAIN manifest \cup DOMAIN mutated |->
        IF id \in DOMAIN mutated THEN mutated[id] ELSE manifest[id]]

(* mark_deleted_subtree: a child the directory had and no modified directory  *)
(* has now goes, with everything its current records hang below it.           *)
RECURSIVE Below(_, _)
Below(records, id) ==
    IF id \in DOMAIN records THEN {id} \cup UNION {Below(records, c.id) : c \in records[id].children}
    ELSE {}

Dropped(p) ==
    UNION {{c.id : c \in p.manifest[d].children} : d \in p.modified \cap DOMAIN p.manifest}
    \ DOMAIN Places(p.tree, p.modified)

\* Mutant: only the dropped child goes, what hangs below it keeps its records.
DeletedAlone(p, records) == Dropped(p)

Deleted(p, records) == UNION {Below(records, id) : id \in Dropped(p)}

RECURSIVE Upward(_, _)
Upward(records, id) ==
    IF id \in DOMAIN records THEN {id} \cup Upward(records, records[id].parent) ELSE {}

(* The directories whose hash a mutation can change: the mutated ones and all *)
(* above a mutated node, where it was and where it is.                        *)
Dirty(p, mutated, records) ==
    {Root} \cup mutated
    \cup UNION {Upward(records, p.manifest[id].parent) : id \in mutated \cap DOMAIN p.manifest}
    \cup UNION {Upward(records, records[id].parent) : id \in mutated}

RECURSIVE Rehash(_, _, _)
Rehash(records, dirty, id) ==
    IF id \notin dirty \/ records[id].type # "dir" THEN records[id].hash
    ELSE [tree |-> {<<c.name, c.type, Rehash(records, dirty, c.id), records[c.id].time>> :
                        c \in records[id].children}]

IncrementalFold(p) ==
    LET mutated == Mutations(p)
        records == Overlay(p.manifest, mutated)
        gone == Deleted(p, records)
        after == [id \in DOMAIN records \ gone |-> records[id]]
        dirty == Dirty(p, DOMAIN mutated \cup gone, records)
    IN  [id \in DOMAIN after |-> [after[id] EXCEPT !.hash = Rehash(after, dirty, id)]]

(* What the commit publishes: for every node that differs, both sides.        *)
ChangesBetween(before, after) ==
    LET side(m, id) == IF id \in DOMAIN m THEN m[id] ELSE Absent
    IN  [id \in {i \in DOMAIN before \cup DOMAIN after : side(before, i) # side(after, i)} |->
            [before |-> side(before, id), after |-> side(after, id)]]

Committed(p, manifest) == [Pond(p.tree, p.manifest) EXCEPT !.manifest = manifest]
=============================================================================
