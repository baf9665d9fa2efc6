------------------------------- MODULE TileLog -------------------------------
(***************************************************************************)
(* The transparency log of a pond on disk (sync-store/src/tlog): tiles,     *)
(* checkpoint and checkpoint history, exported after each commit from the   *)
(* commit-log node by materialize_tlog, read without a lock by              *)
(* `pond tlog verify`.                                                      *)
(*                                                                          *)
(* The writer holds write.lock and may die, or fail and give up, between    *)
(* any two file operations.  Committed leaves are only ever added, so what  *)
(* a hash is follows from its place: a tile is its level, index and width.  *)
(* The hashes themselves are the subject of TileMerkle.                     *)
(***************************************************************************)
EXTENDS Integers, Sequences

CONSTANTS
    Width,      \* TILE_WIDTH
    TopLevel,   \* the highest tile level
    Span,       \* leaves below one hash of each level: Width to that power
    MaxLeaves   \* bound: commits

Levels == 0..TopLevel

ASSUME TileAssumption ==
    /\ Width \in Nat \ {0, 1}
    /\ TopLevel \in Nat
    /\ MaxLeaves \in Nat
    /\ Span \in [Levels -> Nat \ {0}]
    /\ Span[0] = 1
    /\ \A l \in Levels \ {0} : Span[l] = Width * Span[l - 1]

VARIABLES
    leaves,      \* leaves of the commit-log node
    spine,       \* DataCommitted rows with a commit object in the control table
    tiles,       \* tile files: [level, n, width]
    checkpoint,  \* size in the checkpoint file, 0 if there is none
    history,     \* sizes of the lines of the history file that parse
    tail,        \* what a torn append has left at the end of the history file
    pc,          \* what the writer is about to do
    new,         \* size the export is to reach
    todo,        \* dirty tiles that flush has still to write
    doomed,      \* partial variants that flush has listed and is deleting
    rpc,         \* what the verifier is about to do
    rcp,         \* size of the checkpoint it verifies
    rsize,       \* size that load_leaves has read
    rn,          \* level-0 tile that load_leaves is at
    rbest        \* variant of it that has been listed

disk == <<tiles, checkpoint, history, tail>>
session == <<new, todo, doomed>>
reader == <<rpc, rcp, rsize, rn, rbest>>
vars == <<leaves, spine, disk, pc, session, reader>>

Init ==
    /\ leaves = 0
    /\ spine = 0
    /\ tiles = {}
    /\ checkpoint = 0
    /\ history = <<>>
    /\ tail = "none"
    /\ pc = "idle"
    /\ new = 0
    /\ todo = {}
    /\ doomed = {}
    /\ rpc = "idle"
    /\ rcp = 0
    /\ rsize = 0
    /\ rn = 0
    /\ rbest = 0

-----------------------------------------------------------------------------
(* The layout. *)

(* Stored hashes of a level for s leaves, and how many of them tile k holds. *)
Count(l, s) == s \div Span[l]
Held(k, s) ==
    LET rest == Count(k.level, s) - k.n * Width
    IN  IF rest <= 0 THEN 0 ELSE IF rest <= Width THEN rest ELSE Width

Files == [level : Levels, n : 0..MaxLeaves, width : 1..Width]
Keys == [level : Levels, n : 0..MaxLeaves]
Key(l, n) == [level |-> l, n |-> n]
Tile(k, w) == [level |-> k.level, n |-> k.n, width |-> w]
KeyOf(f) == Key(f.level, f.n)
Variants(k) == {f \in tiles : KeyOf(f) = k /\ f.width # Width}

(* What read_tile_at_least finds if nothing happens while it looks. *)
Readable(k, count) == \E f \in tiles : KeyOf(f) = k /\ f.width >= count

(* Tiles in which a session puts a hash: push_leaf sets the leaf's, cascade  *)
(* the one above whenever a tile has become full.                            *)
Dirty(from, to) ==
    {k \in Keys :
        \E i \in Count(k.level, from)..(Count(k.level, to) - 1) :
            k.n * Width <= i /\ i < (k.n + 1) * Width}

(* Tiles it has in memory: also those with the frontier that tree_head folds. *)
Touched(from, to) ==
    Dirty(from, to) \cup {k \in Keys : Held(k, to) \in 1..(Width - 1)}

(* flush goes through the tiles by level, then by index. *)
Before(k, j) == k.level < j.level \/ (k.level = j.level /\ k.n <= j.n)

-----------------------------------------------------------------------------
(* A content-changing commit: the Delta commit, the control row, the export. *)

CommitData ==
    /\ pc = "idle"
    /\ leaves < MaxLeaves
    /\ leaves' = leaves + 1
    /\ pc' = "record"
    /\ UNCHANGED <<spine, disk, session, reader>>

RecordDataCommitted ==
    /\ pc = "record"
    /\ spine' = spine + 1
    /\ pc' = "export"
    /\ UNCHANGED <<leaves, disk, session, reader>>

(* materialize_tlog, after a commit or a compaction: the leaves that the     *)
(* export is missing are pushed into a session, which reads the tiles it     *)
(* needs, and the tree head is computed.                                     *)
Open ==
    /\ pc \in {"idle", "export"}
    /\ checkpoint < leaves
    /\ \A k \in Touched(checkpoint, leaves) :
         Held(k, checkpoint) > 0 => Readable(k, Held(k, checkpoint))
    /\ new' = leaves
    /\ todo' = Dirty(checkpoint, leaves)
    /\ doomed' = {}
    /\ pc' = "flush"
    /\ UNCHANGED <<leaves, spine, disk, reader>>

(* Mutant of WriteTile: the superseded variants are deleted first. *)
WriteTilePruneFirst ==
    /\ pc = "flush"
    /\ doomed = {}
    /\ \E k \in todo :
         /\ \A j \in todo : Before(k, j)
         /\ IF Variants(k) \ {Tile(k, Held(k, new))} # {}
              THEN /\ doomed' = Variants(k) \ {Tile(k, Held(k, new))}
                   /\ UNCHANGED <<tiles, todo>>
              ELSE /\ tiles' = tiles \cup {Tile(k, Held(k, new))}
                   /\ todo' = todo \ {k}
                   /\ UNCHANGED doomed
    /\ UNCHANGED <<leaves, spine, checkpoint, history, tail, pc, new, reader>>

(* Mutant of WriteTile: a full tile leaves its partial variants. *)
WriteTileNoPrune ==
    /\ pc = "flush"
    /\ doomed = {}
    /\ \E k \in todo :
         /\ \A j \in todo : Before(k, j)
         /\ tiles' = tiles \cup {Tile(k, Held(k, new))}
         /\ todo' = todo \ {k}
         /\ doomed' = IF Held(k, new) = Width THEN {}
                       ELSE Variants(k) \ {Tile(k, Held(k, new))}
    /\ UNCHANGED <<leaves, spine, checkpoint, history, tail, pc, new, reader>>

(* flush: the next dirty tile is renamed into place at its new width, then   *)
(* the other partial variants of it are listed.                              *)
WriteTile ==
    /\ pc = "flush"
    /\ doomed = {}
    /\ \E k \in todo :
         /\ \A j \in todo : Before(k, j)
         /\ tiles' = tiles \cup {Tile(k, Held(k, new))}
         /\ todo' = todo \ {k}
         /\ doomed' = Variants(k) \ {Tile(k, Held(k, new))}
    /\ UNCHANGED <<leaves, spine, checkpoint, history, tail, pc, new, reader>>

(* prune_partial_variants deletes one of them. *)
PruneVariant ==
    /\ pc = "flush"
    /\ \E f \in doomed :
         /\ tiles' = tiles \ {f}
         /\ doomed' = doomed \ {f}
    /\ UNCHANGED <<leaves, spine, checkpoint, history, tail, pc, new, todo, reader>>

(* The end of the history file after a line for size s has been appended: a  *)
(* line that follows a torn one without a newline is read with it.           *)
Lines(s) ==
    CASE tail \in {"none", "origin"} -> Append(history, s)
      [] tail = "line" -> SubSeq(history, 1, Len(history) - 1)
      [] tail = "rest" -> history

(* Size of the last line that parses. *)
LastSize == IF history = <<>> THEN 0 ELSE history[Len(history)]

(* The TileSession is dropped. *)
EndSession == new' = 0 /\ todo' = {} /\ doomed' = {}

(* Mutant of WriteCheckpoint: the history line goes first, and the writer    *)
(* may die before the checkpoint.                                            *)
WriteCheckpointLast ==
    /\ pc = "flush"
    /\ doomed = {}
    /\ todo = {}
    /\ history' = Lines(new)
    /\ tail' = "none"
    /\ checkpoint' \in {checkpoint, new}
    /\ pc' = "idle"
    /\ EndSession
    /\ UNCHANGED <<leaves, spine, tiles, reader>>

(* The rename of the checkpoint publishes the new size. *)
WriteCheckpoint ==
    /\ pc = "flush"
    /\ doomed = {}
    /\ todo = {}
    /\ checkpoint' = new
    /\ pc' = "history"
    /\ UNCHANGED <<leaves, spine, tiles, history, tail, session, reader>>

(* append_to_history: a line is appended if the size is larger than the last *)
(* one that parses.                                                          *)
AppendHistory ==
    /\ pc = "history"
    /\ new > LastSize
    /\ history' = Lines(new)
    /\ tail' = "none"
    /\ pc' = "idle"
    /\ EndSession
    /\ UNCHANGED <<leaves, spine, tiles, checkpoint, reader>>

(* The append is torn, inside the origin, after it, or before the newline,   *)
(* and the writer fails or dies.                                             *)
TearHistory ==
    /\ pc = "history"
    /\ new > LastSize
    /\ \/ /\ tail \in {"none", "origin"}
          /\ tail' \in {"origin", "rest"}
          /\ UNCHANGED history
       \/ /\ tail \in {"none", "origin"}
          /\ tail' = "line"
          /\ history' = Lines(new)
       \/ /\ tail \in {"line", "rest"}
          /\ tail' = "rest"
          /\ history' = Lines(new)
    /\ pc' = "idle"
    /\ EndSession
    /\ UNCHANGED <<leaves, spine, tiles, checkpoint, reader>>

(* The writer dies, or a file operation fails and the export is given up. *)
GiveUp ==
    /\ pc # "idle"
    /\ pc' = "idle"
    /\ EndSession
    /\ UNCHANGED <<leaves, spine, disk, reader>>

-----------------------------------------------------------------------------
(* `pond tlog verify`, which takes no lock: the checkpoint, then load_leaves  *)
(* (the size again, and the level-0 tiles one after another, each looked for  *)
(* under up to three names), then the history.                                *)

RKey == Key(0, rn)
RCount == Held(RKey, rsize)

ReadCheckpoint ==
    /\ rpc = "idle"
    /\ checkpoint # 0
    /\ rcp' = checkpoint
    /\ rpc' = "size"
    /\ UNCHANGED <<leaves, spine, disk, pc, session, rsize, rn, rbest>>

ReadSize ==
    /\ rpc = "size"
    /\ rsize' = checkpoint
    /\ rn' = 0
    /\ rpc' = "full"
    /\ UNCHANGED <<leaves, spine, disk, pc, session, rcp, rbest>>

(* The hashes of the tile have been read. *)
NextTile ==
    IF (rn + 1) * Width < rsize
      THEN rn' = rn + 1 /\ rpc' = "full"
      ELSE rpc' = "history" /\ UNCHANGED rn

ReadFull ==
    /\ rpc = "full"
    /\ IF Tile(RKey, Width) \in tiles
         THEN NextTile
         ELSE rpc' = (IF RCount < Width THEN "exact" ELSE "scan") /\ UNCHANGED rn
    /\ UNCHANGED <<leaves, spine, disk, pc, session, rcp, rsize, rbest>>

ReadExact ==
    /\ rpc = "exact"
    /\ IF Tile(RKey, RCount) \in tiles
         THEN NextTile
         ELSE rpc' = "scan" /\ UNCHANGED rn
    /\ UNCHANGED <<leaves, spine, disk, pc, session, rcp, rsize, rbest>>

(* Mutant of Scan: a variant is taken only if it has the exact width. *)
ScanExact ==
    /\ rpc = "scan"
    /\ LET enough == {f \in Variants(RKey) : f.width = RCount}
       IN  \/ /\ enough = {}
              /\ rpc' = "failed"
              /\ rbest' = 0
           \/ \E f \in enough :
                /\ rbest' = f.width
                /\ rpc' = "best"
    /\ UNCHANGED <<leaves, spine, disk, pc, session, rcp, rsize, rn>>

(* The directory of the variants is searched for the narrowest wide enough. *)
Scan ==
    /\ rpc = "scan"
    /\ LET enough == {f \in Variants(RKey) : f.width >= RCount}
       IN  \/ /\ enough = {}
              /\ rpc' = "failed"
              /\ rbest' = 0
           \/ \E f \in enough :
                /\ \A g \in enough : f.width <= g.width
                /\ rbest' = f.width
                /\ rpc' = "best"
    /\ UNCHANGED <<leaves, spine, disk, pc, session, rcp, rsize, rn>>

ReadBest ==
    /\ rpc = "best"
    /\ IF Tile(RKey, rbest) \in tiles
         THEN NextTile
         ELSE rpc' = "failed" /\ UNCHANGED rn
    /\ UNCHANGED <<leaves, spine, disk, pc, session, rcp, rsize, rbest>>

(* The command returns. *)
VerifyEnds == rpc' = "idle" /\ rcp' = 0 /\ rsize' = 0 /\ rn' = 0 /\ rbest' = 0

(* The tree must have the size of the checkpoint, and every size in the      *)
(* history must be one of its prefixes.                                      *)
ReadHistory ==
    /\ rpc = "history"
    /\ IF rsize = rcp /\ \A i \in 1..Len(history) : history[i] <= rsize
         THEN VerifyEnds
         ELSE rpc' = "failed" /\ UNCHANGED <<rcp, rsize, rn, rbest>>
    /\ UNCHANGED <<leaves, spine, disk, pc, session>>

(* The command has reported the failure. *)
VerifyReturns ==
    /\ rpc = "failed"
    /\ VerifyEnds
    /\ UNCHANGED <<leaves, spine, disk, pc, session>>

-----------------------------------------------------------------------------
Writer ==
    \/ CommitData
    \/ RecordDataCommitted
    \/ Open
    \/ WriteTile
    \/ PruneVariant
    \/ WriteCheckpoint
    \/ AppendHistory
    \/ TearHistory
    \/ GiveUp

Verifier ==
    \/ ReadCheckpoint
    \/ ReadSize
    \/ ReadFull
    \/ ReadExact
    \/ Scan
    \/ ReadBest
    \/ ReadHistory
    \/ VerifyReturns

Next == Writer \/ Verifier

Spec == Init /\ [][Next]_vars

-----------------------------------------------------------------------------
(* The types of the variables. *)
TypeOK ==
    /\ leaves \in 0..MaxLeaves
    /\ spine \in 0..MaxLeaves
    /\ tiles \subseteq Files
    /\ checkpoint \in 0..MaxLeaves
    /\ history \in Seq(1..MaxLeaves)
    /\ tail \in {"none", "origin", "rest", "line"}
    /\ pc \in {"idle", "record", "export", "flush", "history"}
    /\ new \in 0..MaxLeaves
    /\ todo \subseteq Keys
    /\ doomed \subseteq Files
    /\ rpc \in {"idle", "size", "full", "exact", "scan", "best", "history", "failed"}
    /\ rcp \in 0..MaxLeaves
    /\ rsize \in 0..MaxLeaves
    /\ rn \in 0..MaxLeaves
    /\ rbest \in 0..Width

(* At every instant, also after a crash between any two file operations, each *)
(* tile that the published checkpoint needs has a representation that is wide *)
(* enough (flush writes before it prunes and prunes before the checkpoint).   *)
CommittedReadable ==
    \A k \in Keys : Held(k, checkpoint) > 0 => Readable(k, Held(k, checkpoint))

(* Once a session has published its checkpoint the directory holds the tiles  *)
(* that materialize() would write for that size and no others, whatever       *)
(* earlier sessions left behind when they were cut short.                     *)
CanonicalTiles ==
    pc = "history" =>
        tiles = {Tile(k, Held(k, checkpoint)) :
                    k \in {j \in Keys : Held(j, checkpoint) > 0}}

(* The sizes in the history increase strictly and none is ahead of the        *)
(* checkpoint, although append_to_history may be torn and its remains are     *)
(* read together with the next line.                                          *)
HistorySound ==
    /\ \A i, j \in 1..Len(history) : i < j => history[i] < history[j]
    /\ \A i \in 1..Len(history) : history[i] <= checkpoint

(* `pond tlog verify` reports a failure of the first three checks only if an  *)
(* export overtook it: the checkpoint has moved, or the tile it looked for    *)
(* was completed or replaced by a wider one between two of its looks.         *)
VerifyFailsOnlyOvertaken ==
    rpc = "failed" =>
        \/ checkpoint > rcp
        \/ Tile(RKey, Width) \in tiles
        \/ /\ rbest >= RCount
           /\ \E f \in tiles : KeyOf(f) = RKey /\ f.width > rbest
=============================================================================
