# Verification of the watertown pond

TLA+ specifications of the pond's stores and of the protocols between them, TLC
configurations that check them on small instances, and TLAPS proofs of their
main properties for every value of the constants.  `PROJECT.json` maps each
definition to the lines of code it models.

## The system and its parts

A pond is a filesystem kept in a Delta Lake table and queried with DataFusion.

| Part | State it owns | Operations |
|---|---|---|
| `tinyfs` | directories, nodes, working directories, per-transaction coherence state | path operations, writers, readers, guards |
| `tlogfs` (`OpLogPersistence`) | the data table, pending records of the open transaction, `last_txn_seq` | open, begin, commit, read versions |
| `steward` (`Ship`, transaction guard) | `last_write_seq`, control table handle | begin, commit, abort, compact, freeze, recover, post-commit factories |
| `steward` control table | lifecycle rows, settings | record rows, find incomplete transactions, prune, rebuild |
| `steward` write lock, freeze | `write.lock`, `write.freeze` | take, release, mark, unmark |
| commit log, content tree | the reserved index and commit-log nodes | fold, append a leaf |
| transparency log | tiles, checkpoint, history under `tlog/` | append, prune partial tiles, verify |
| content push and pull | remote objects, publication table, acknowledgements | push, compare-and-swap, pull, graft |
| packs | pack objects, indexes, stale markers under `_packs/` | publish, retain, prune, sweep |
| limiter, storage meter | bucketed window, usage queue, bound meters, arrears | check, charge, commit, emit |
| `provider` | factories, table-provider and aggregate caches | build providers, ingest log files, reduce |
| `query-foundation` | none | frontiers, overlaps, partial aggregates |
| `cmd`, `sitegen`, `hydrovu`, `gitpond`, `exec-factory`, `utilities` | none of their own, or I/O | commands, rendering, sources |

How they interact.  A `Ship` opens the control table, then the data table.  A
write takes a sequence from the Ship, then the lock, looks for a freeze, writes
a Begin row, opens a data transaction, fills it through `tinyfs`, and commits:
the incremental fold of what it touched into the content manifest, one Delta
commit, a control row, the tile export, then the factories, each a transaction
of its own, and an automatic push to each remote.  The data table and the
control table do not commit together.  Inside the open transaction tasks write,
mutate and query concurrently, and the commit must find them all finished.  A
push puts objects, packs and a record into the remote, advances one row by
compare-and-swap and acknowledges it in the control table; a pull reads that
row, fetches, plans the operations that turn its tree into the published one,
applies them in a write transaction and acknowledges too.  Every request to a
remote is charged to the meter of the activity that has bound it.  Maintenance
rewrites series into packs, which pulls and publications read without a lock.

What makes it hard: tasks that race a commit; a process that dies between two
stores, or between two files; several processes with a Ship on one pond, each
with its own snapshot and its own idea of the next sequence; error paths that
must give something back; answers that are lost; readers without a lock while
files are replaced; an incremental computation that must equal the full one.

## Modules

| Module | Models |
|---|---|
| `Coherence` | the coherence state of one open transaction |
| `Steward`, `PondHistory` | write transactions over the two stores; the linear history they implement |
| `TileLog`, `TileMerkle` | the transparency log on disk; its hashes and proofs |
| `Publication`, `PublishedHistory` | push; what a remote promises its consumers |
| `Replication` | `Publication` composed with the consumers that pull |
| `ContentTree`, `Mirror` | the manifest of a tree and its incremental fold; the plan a pull makes of two manifests |
| `Limiter`, `Metering` | the sliding window; meters, arrears and usage samples |
| `PackStore` | pack maintenance against its readers |
| `LogfileIngest` | the logfile-ingest factory against a logger |
| `CoherenceProofs`, `StewardProofs`, `StewardDataProofs`, `StewardChainProofs`, `TileLogProofs`, `PublicationProofs`, `PackStoreProofs`, `LogfileIngestProofs` | the theorems |

The `MC` modules only add symmetry sets and values of constants.

### Transactions

`Coherence` models `CoherenceState` of one open transaction.  The tasks of the
transaction each take or release a writer guard, a mutation guard or a query
guard, or build a table provider and put it in the cache; the owner commits or
abandons the transaction.  Every atomic load, exchange or counter update of the
code is a step of its own, so the check-count-check of an admission interleaves
with the exchange-then-count of a commit in every way.  The records of the
transaction are the set of mutations applied so far; the cached provider is the
set of mutations it was built from and its generation label.

`Steward` models the write transactions of a pond over its two stores.
`commits` are the Delta commits (`txn_seq` and transaction), `leaves` the
versions of the commit-log node, `ctl` the lifecycle rows.  A process has the
fields of its Ship: `lastWriteSeq`, `dataSeq` (the persistence's
`last_txn_seq`), `snap` (how many leaves its snapshot has), `pending` (what its
control snapshot shows as incomplete).  Each step is one operation on one store;
a process may die between any two of them (`Exit`), which frees its lock.
Control writes may fail wherever the code handles the failure.

- open: `OpenControl`, `OpenData`;
- write: `BeginWrite`, `RejectFrozen`/`AdmitWrite`, `RecordBegin`, `DataBegin`,
  then `RollBack`, `CommitNoop` or `CommitData`, `RecordDataCommitted`,
  `Finish`, with their failures;
- factories, inside the commit of their parent: `FactoryBegin`,
  `FactoryCommit`, `FactoryNoop`, `FactoryFails`, `RecordFactory`;
- `compact`: `CompactLock` to `CompactCommitted`, or `CompactAltered` when the
  content roots before and after differ, as they do for a Ship that another
  process has overtaken;
- freeze: `FreezeLock`, `FreezeReadTip`, `FreezeMark`, `Unfreeze`;
- `recover`: `RecoverStart`, `RecoverStep`, `RecoverReturns`.

`Features` selects the optional operations and `OneSession` says whether a Ship
is opened only when no other process has one.  Both choose an environment, not
the code: with every feature and `OneSession = FALSE` the module is the whole
system.  `PondHistory` is the abstract specification: one linear history of
commits that does not grow while the pond is frozen.

### Transparency log

`TileLog`: after a commit, or a compaction, the writer exports the leaves the
checkpoint is missing: it reads the tiles it needs (`Open`), writes each dirty
tile in order (`WriteTile`) and deletes the partial variants it supersedes one
by one (`PruneVariant`), renames the checkpoint (`WriteCheckpoint`) and appends
a line to the history (`AppendHistory`, `TearHistory`).  It may die or give up
between any two of these (`GiveUp`).  `pond tlog verify` reads the same files
without a lock: the checkpoint, the size again, each tile under up to three
names, the history.  Leaves are only added, so a tile is its level, index and
width, and its hashes follow from its place.  A torn history line is one of
three kinds, by what happens to the line appended after it: the tear is inside
the origin and the next line still parses (`origin`), it is later and the next
line is swallowed (`rest`), or only the newline is missing and both lines are
lost (`line`).  `write_atomic` is a rename; a directory is listed in one step.

`TileMerkle` models the hashes: `mth`, the inclusion and consistency proofs and
their verifiers from `merkle.rs`, and the incremental session of `tiles.rs`
(`push_leaf`, `cascade`, `tree_head`).  A hash is the term it hashes, which is
to assume that SHA-256 has no collisions.

### Push and pull

`Publication` takes a push request by request.  A commit is the sequence of
snapshots that leads to it, so that a parent is a prefix, and a publication
record is in the same way the sequence of publications up to it.  The pond's
content is one file and one series.  `OpenControl` and `OpenData` read the
acknowledgement and the tip; `Prepare` authenticates the row against them and
computes what is missing (`Initial` or `Incremental`); `PutObject`, `PutPack`,
`PutRecord` put it, each also half done (`PutPayloadOnly`, `PutPackOnly`);
`CompareAndSwap` advances the row, or is refused, or its answer is lost
(`SwapUnanswered`); `WriteAck` acknowledges.  Any number of processes push, die
anywhere, and an operator may detach the remote or put an older copy of the
pond's directory back, after which its commits diverge from the published ones.
`PublishedHistory` is what consumers may rely on: one line of publications,
each tip a proper descendant of the last, none withdrawn, and a producer that
acknowledges only what was published.

`Replication` composes it with consumers.  A mirror holds the tree as its own,
a graft under a mount with a pin of the imported tip.  What is in the remote is
only ever added to, so a pull reads the row (`PullMirror`, `PullImport`) and
evaluates what it fetches at that instant; it repairs an acknowledgement it
finds behind its content (`RepairAck`), applies (`Apply`) and acknowledges
(`WritePullAck`), and is disturbed between these.  `--rebuild-graft` replaces a
graft at any time (`RebuildGraft`, `Replace`), and fails where it holds a series.
`Detach` removes the remote and attaches it again: both are commits of the
consumer, which in a mirror change the tree it holds (`Altered`), and the
acknowledgement may fail to be cleared.

`ContentTree` has the tree a transaction edits and the two folds of it: of the
whole tree (`FullFold`) and of the rows of the transaction into the manifest of
the last commit (`IncrementalFold`).  `Mirror` edits a
source, commits, and pulls into a replica in the three ways the code has:
incrementally from the changes of the publications, completely, and as the
replacement of a graft.  `Plan` is the list of operations of `plan_node_diff`,
applied one at a time by `Apply`; `FinishPull` folds and compares the roots.

### Limits

`Limiter` is the window in buckets with `check_at` and `used_at`.  `Metering`
adds who is charged: an activity opens its limits from the Ship's copy of the
settings (`OpenLimits`), binds a meter and then takes over the arrears (`Bind`,
`Drain`), closes and unbinds it (`Close`, `Unbind`), adds its window to the
control table and queues a sample (`CommitWindow`, `QueueSample`).  The requests
of tasks resolve a meter, are admitted, observed and answered in steps of their
own, and may outlive the meter.  A write transaction carries the queued samples
into the pond and drops them afterwards (`CommitWrite`, `DropEmitted`), and its
automatic push is an activity of a second Ship.

### Packs

`PackStore` takes a maintenance run file by file for one series: survey, write
the objects, the index and the layout sidecar of a repack, mark superseded packs
and directories of other states stale, remove the ones marked by an earlier run,
sweep the objects no index names.  It may die anywhere; the Ship it uses was
opened before the lock; the series is appended to and reverted; builds with
another layout are installed.  A pull from this pond and the publication of its
packs list, read indexes, select and fetch in steps of their own.

### Ingestion

`LogfileIngest`: a logger appends byte by byte, renames the active file and
creates the next.  A run scans the directory, detects a rotation by the content
the series has (`DetectRotation`), stores archived files and appends to the
active series what is complete (`ProcessArchived`, `ProcessActive`), checks the
prefix on the reopened path (`VerifyAppend`), and commits everything at once.  A
piece none of whose lines has a timestamp (`Stamped`, `Bounded`) fails the run,
and with it what the run had of other files.  A run that dies leaves what an aborted one leaves, so there is no crash of its own.

External parts, modelled from their use: a Delta commit is atomic, and a commit
from a stale snapshot is rebased and not refused, because the data is a blind
append; the advisory file lock is dropped by the kernel when its holder dies; a
rename is atomic.

## Runs

| Run | Instance | What it shows |
|---|---|---|
| `coherence` | two tasks, one file, two mutations | the drain is exclusive and loses no mutation; no query is admitted on data older than a finished mutation |
| `steward_shared` | two processes, two transactions, all but recovery | a freeze names the tip and nothing moves it; every commit was announced; a transaction called Failed has changed no content and none commits twice; a Ship's allocator is never behind; the write lock is always given back |
| `steward_session` | one Ship at a time, five transactions, freeze, recovery | long runs of commits, no-ops, aborts and crashes: sequences increase strictly and the log refines `PondHistory`; a crash stays reported; `recover()` leaves nothing incomplete |
| `tile_log` | tiles of width 3 on two levels, five leaves | after any crash the committed leaves are readable; a finished export leaves exactly the canonical tiles; the history increases and is never ahead; the verifier fails only if an export overtook it |
| `merkle_tree` | tiles of width 4 on three levels, 21 leaves, sessions of up to three | the stored hashes and the incremental tree head are those of RFC 6962; inclusion and consistency proofs are accepted for the truth and rejected otherwise |
| `publication` | two pushers, three commits, one fault | the row's record, objects and packs are all there; what is acknowledged is published; the remote refines `PublishedHistory` |
| `replication` | one pusher, one consumer of either kind, three commits, one fault | a consumer holds a whole publication, its own changes to `/sys` apart; no pull is refused but the two below; it converges to the last one |
| `content_tree` | three nodes in two starting trees, three edits, three kinds of pull | the incremental fold is the fold of the tree; every planned operation applies, but for an empty series in a graft that is replaced; a node both ponds have stays in the tree; a pull is refused only where a replaced graft held a series |
| `transient_node` | the same, with nodes removed in the transaction that created them | a violation: the record of such a node stays in the manifest |
| `metering` | two tasks, two activities, two instants, a queue of one | traffic is charged once, or owed; the two numbers of a sample agree; window and burst hold across sessions; samples arrive exactly once, unless their drop fails |
| `pack_store` | a series of two or three leaves, three layouts, seven scenarios of commits, crashes and readers | an advertised pack is complete; a reader keeps what it listed for a full run; the current state stays packed; repeated runs settle |
| `ingest` | five bytes, four to a file, blocks of two, two rotations, a line with a timestamp and lines without | series mirror files in whole records; everything with timestamps arrives; the ways a rotation escapes are exactly those below |

Where the properties stop, the code does:

- `SeqStrictlyIncreasing` and `RefinesHistory` are about single sessions without
  factories.  A Ship opened before another committed, or whose own factory
  committed, commits a sequence that is already used.
- `CrashDetected` excepts a crash behind a terminal row of an earlier attempt at
  the same sequence, because `incomplete_transactions` groups by `txn_seq`.
- `RecoveryVerified` is about single sessions: `recover()` takes no lock and
  would complete a transaction that is still running.
- `compact()` advances the allocator and returns early, without giving it back,
  when its Begin row or the content root fails (`CompactReturns`): the Ship is
  then ahead of its table, never behind (`NeverBehind`), and the +1 check refuses
  its transactions until the pond is opened again.  The comment in `ship.rs` about
  the lockstep of the two speaks of the no-op path alone.
- `FailedMeansNoData`: an optimize by a Ship that another process has overtaken
  is recorded as Failed (`CompactAltered`) although its Delta commit is there.
  Such a commit changes no content.  In single sessions a Failed transaction has
  no commit at all (`FailedExactHolds`).
- An export after one that was cut short before its checkpoint writes a full
  tile again, with the same hashes, although a comment of `tiles.rs` says full
  tiles are written once.
- `BudgetHeld` and `SamplesExactlyOnce` except runs in which a pull keeps its Ship
  over the automatic push of its own commit (`overlapped`): it then writes back
  settings it read before that push, and the window and the sample of the push
  are lost.  Nor is what a process that died was admitted in any window: charges
  reach the control table when an activity ends.
- `BudgetHeld` is about spans shorter than the window and the burst by what
  bucketing gives away.  The comment of `sum_since` says that a bucket counts if
  any part of it lies inside the span; `range(cutoff..)` counts it while its start
  does, which is the slack that the comment of `bucket_count` allows.
- `SamplesExactlyOnce` excepts a process that stops, or cannot write to the
  control table, between the commit of samples and their drop.
- `Agreement` is about activities with nothing under way at either end.  Traffic
  between the note of the observation and the drain of the arrears is in both.
- `HoldsPublication` and `Converges` except a graft whose mount was purged while
  its pin was kept, which needs `--rebuild-graft`, and a mirror that was detached
  while its acknowledgement could not be cleared, which needs to be detached
  again (`Stranded`).
- `NoOpFails`: the replacement of a graft that holds a series without leaves fails,
  because a second empty version is refused.
- `RefusedOnly`: the replacement of a graft that held a series with content is
  refused after it was applied, since the old versions stay under the identity.
- `Grace`: a reader that lists a pack already marked stale, or being removed,
  may lose it to the very next run; the full cycle the comment promises is that
  of readers which listed before.  A pull fails outright when a pack it listed is
  gone before its index is read; the publication skips it.
- `NeverUnpacked` excepts a run whose Ship is older than the current state of the
  series and finds its directory marked.
- `BlindOnlyPastBlock`: with a stored frontier `verify_prefix_matches` reads only
  the trailing partial block, so a file that took the place of the stored one is
  recognised only by that block; and the path is opened once for the bytes and
  again for the check, between which a file that begins as the series does may
  have come.
- `EventuallyMirrored` excepts a piece without a timestamp: it fails every run, of
  all files, until more is written to it.
- `OrphanedOnlyInGap`: a rotation seen while there is no active file stores the
  archived file as new and leaves the active series behind.

`transient_node` states what `guard.rs` says of the fold; the finding in
`PROJECT.json` quotes the line.

Bounds.  Two tasks are enough for every pair of racing operations of
`Coherence`, and the proofs remove the bound.  Two transactions of two processes
reach every race for the lock and every stale Ship; five in a session reach a
failed attempt, a committed retry of its sequence, a crash and a recovery.
`MaxTxns` is the only counter bound of `Steward`.  Five leaves in tiles of three
pass through every partial width, a crash leaving several of them at once, and
into the next tile and level; the proofs hold for every width and number of
levels.  21 leaves in tiles of four fill a tile of the second level and go past
it.  Three commits make an initial publication and two incremental ones, or one
of two commits; one fault can fall between any two requests.  Contents are
interchangeable, so a constraint fixes which is written first and lets each
later write of the file change it, also back to what it was; and a copy of the
directory is made only while a fault is left to put it back.
Three edits reach a chain and a swap of names, a move with a rewrite, and an
unlink of what was moved.  Two instants fall into one window and on both sides
of the span of a burst; with room for one sample the second activity displaces
what the first has left; no transfer or push is begun that has no activity left
to open.  A series of two and three leaves has states that share an object and
states that do not; with a reader of a table series, or one that publishes,
either a commit or a crash happens, not both, and `GraceHolds` covers the rest.
Five bytes, at most four to a file, hold a file of one block and a longer one
that begins alike or not; at most one rotation falls into a run.

Deadlock is checked in `coherence`, the steward runs, `tile_log`, `merkle_tree`
and `pack_store`, where somebody can always go on.  The others stop when their
bound of commits, edits, activities or bytes is used up.

Fairness.  `LockReleased`: weak fairness of a process that holds the lock
(`Working`).  Nothing it does under the lock waits for another process of the
pond: the lock is tried and never waited for, the tables are local files, and
the factories of one commit are a finite list.  Factories and the automatic
push use the network under the lock; that their requests end, in an answer or a
timeout, is assumed.  `Converges`: pushes and pulls are run again by a
timer, and one that has started goes on unless it fails; failures are bounded.
`EventuallyMirrored`: the timer runs the factory again, and a run goes on.
`Settles`: maintenance is run again, as the refusal of `build_plan` asks for, and
a run that is not killed finishes.  Nothing is assumed of loggers, writers and
operators.

## Proofs

All theorems hold for any set of processes or tasks and any bound.

`CoherenceProofs` proves `TypeOK`, `DrainIsExclusive`, `NoMutationLost`,
`OneWriterPerFile`, `CountsExact` and `QueryIsFresh`.  The properties are not
inductive: the drain is exclusive because a task that counted itself after the
exchange will fail its second check, so the invariant says, for each program
counter of a task and each phase of the commit, whether the task is counted and
what its second check can still see.

Of `Steward` is proved, with nothing assumed about concurrency or features:

- `TypeCorrect`, with the strengthening that sequences and transaction
  identities are bounded by what has been handed out;
- `FrozenTipHolds` and `NoCommitWhileFrozenHolds`, from `LockInv` (a process
  past the lock is the only one in `lock`) and `FreezeInv` (a process past the
  freeze check works on an unfrozen pond; a process about to mark holds the
  current tip);
- `AuditTrailHolds` and `FailedMeansNoDataHolds`, from `DataInv`: what each
  program counter says about the rows, the commit and the leaf of the process's
  own transaction;
- `NeverBehindHolds`, from `AheadInv`: a Ship's sequence is that of its
  persistence or ahead of it, and an open transaction or compaction has taken a
  sequence that its persistence has not seen.

And under the conditions in which they are true:

- `LockstepHolds`, without compaction;
- `FailedExactHolds`, in single sessions without factories: the Ship's snapshot is
  the store, so a compaction finds the content unchanged;
- `RecoveryVerifiedHolds`, in single sessions: what the Ship's control snapshot
  shows as incomplete is exactly what is left of its list;
- `CrashDetectedHolds`, in single sessions without factories, from `RowsInv`:
  no row of the sequence of a commit is of a later transaction than the commit.
  If a terminal row has that sequence, it is the commit's own or that of an
  earlier attempt; if none has, the first Begin row of the sequence is reported;
- `LinearChainHolds`, `SeqStrictlyIncreasingHolds` and `Refinement`, in single
  sessions without factories: between the steps of one session the Ship's
  sequence and snapshot are those of the store (`ShipCurrent`), so a commit
  extends the chain.

Of `TileLog`, for every tile width, number of levels and number of leaves:
`TypeCorrect`, `CommittedReadableHolds`, `CanonicalTilesHold`,
`HistorySoundHolds` and `VerifyFailsOnlyOvertakenHolds`.  `SessionInv` ties
the sizes together: the checkpoint never passes the leaves, and a session works
towards exactly the leaves there are.  `DiskInv` says what an export in progress
has on disk: a dirty tile already written is there at its new width, and any
other file of it is among those being deleted, which are partial and never the
new one.  `VerifyInv` keeps what the verifier saw true or overtaken, since tiles
are only replaced by wider ones (`TilesWiden`).
Its assumptions are that a tile has at least two hashes and that `Span` holds
the powers of the width.

Of `Publication`, for any number of pushers, contents, commits and faults:

- `AckPublishedHolds`, from `ChainInv`: every acknowledgement, copied, read or
  stored, and every row a push has read is a beginning of the row, and what a
  push is about to write is the successor of what it read, with a tip that
  properly descends from it;
- `Refinement` to `PublishedHistory`: a step that moves the row publishes, any
  other step acknowledges;
- `RowCompleteHolds`, from `StoreInv`: what a push no longer has to put is in the
  remote; a locator names a pack that is there with its manifest and its leaves,
  and before the first publication the pack of a whole series; the row is
  complete.  An incremental push completes its row because the commits carry
  their lineage (`Lineage`): what a snapshot holds is, back to any earlier one,
  either held there or introduced in between.  Stated for all pairs of commits
  this is preserved by one append, and needs no induction over the log.

`TypeInv` defines the publications that a pond can make (`Steps`) and says that
nothing else is ever prepared, put or recorded.  The only assumption is that the
bounds are natural numbers.

Of `PackStore`, for any threshold, layouts, states of the series and number of
runs, commits, upgrades and crashes:

- `NoDanglingHolds`, from `DiskInv`: what an index names is on disk; while a run
  writes objects, those of its pack not on its list are there; the pack it keeps
  is advertised from its publication on and is never the one being removed; the
  sweep's list holds nothing an index names.  That a repack covers each leaf once
  (`PackCovers`) is the arithmetic of the last multiple of the object size;
- `GraceHolds`, from `Watch`: what a reader has listed is `Safe` until its second
  run, which is to say unmarked until the run in progress begins to mark, and
  then marked only behind it;
- `NeverUnpackedHolds`, from `DiskInv`: the two removals of an index spare the
  pack that is kept.

Its assumptions are that the states of the series are natural numbers with a
largest one, and that a build's layouts close an object after a leaf at the
earliest.

Of `LogfileIngest`, for any bytes, block size, number of files, rotations and
failed runs:

- `FaithfulHolds`: the series of the pond, and those of the run in progress, are
  in whole records and mirror the host (`Records`, `Mirrors`).  The logger cannot
  undo it since no byte is lost: an archived file stays, and the active one grows
  or is archived (`Grown`).  A run keeps it because between the read of the new
  bytes and the check of the old ones (`Verifying`) the text it is about to have
  is how the active file begins, or a file that was rotated away meanwhile;
- `BlindOnlyPastBlockHolds`, from `Verifying`: short of a block the check
  compares all that is tracked, and a file that took the place of the one read
  passes only if it begins with that;
- `OrphanedOnlyInGapHolds`, from `Tracks`: a run that has seen an active file
  either knows that the active series follows it, or a file the run has not
  seen, or leaves the series as it was with no new archived file matching it.

What `Content` computes is a recursive function inside a `LET`.  The proofs
show that such a function exists, by extending a longest beginning of it, and
that one more version puts its bytes behind the text, by a smallest
counterexample.  The only assumption is that a block has a byte.

Each step proof of `Steward` first classifies the 39 actions by their effect on the stores
and on one process, and proves each invariant from the classification.

Only model-checked: `LockReleased`, `Converges`, `EventuallyMirrored` and
`Settles`, which are liveness under fairness, and the properties of `TileMerkle`,
`Mirror` and `Metering`, which are about recursive definitions and sums over
sets; these are out of the prover's reach.  `HoldsPublication` is not proved yet.

## Not modelled

Read transactions take no lock and write no row.  The replay of a remote
transaction begins and commits as a local one does.  Rows that end no
transaction (PostPush, settings other than those of the limiter and the
acknowledgements), the pruning and the rebuild of the control table, and a Delta
commit that reports an error although it is durable are not in `Steward`.  A
compaction is taken to preserve content, as delta-rs promises.  In `TileLog` the commit log only grows:
a log forked by stale Ships is the subject of `Steward`.  `TileLog::materialize`
is called by tests only and is the reference for `CanonicalTiles`.  A checkpoint
file is replaced by a rename and is taken to parse.  The memory orders of the
atomics are taken to be sequentially consistent in `Coherence`; the code uses
acquire and release.  Hashes have no collisions.  `Publication` has one file and
one series, and the Patricia map of the manifest is a set of records in
`ContentTree`.  `Metering` counts requests and not bytes, on one remote.
`PackStore` has one series; legacy and partial packs and changes of schema are
left out, and a repack is cut at whole leaves, where the code fills an object to its
cap whatever leaf it ends in: what the properties need is that objects cover the
leaves once and that a larger cap gives fewer of them.  In `LogfileIngest` archived files stay on the host and do not
change.

Most of the code is outside any of this, and the reason for each part is in the
components of `PROJECT.json`: the factories that derive tables and the query
foundation build plans for DataFusion, which decides what they compute; formats,
capsules and object encodings are serialization; the site generator, the monitor,
the display commands, `fsck` and `diff` read and render; the sources are network
clients and subprocesses around a transaction; the caches of partial aggregates
are recomputed when they do not match.
