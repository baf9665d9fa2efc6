----------------------------- MODULE Replication -----------------------------
(***************************************************************************)
(* The consumers of a published pond, `pond pull` (cmd/src/commands/pull.rs  *)
(* and steward/src/content_pull.rs), composed with its producer and the      *)
(* remote between them.  A mirror rebuilds the producer's tree as its own; a *)
(* graft imports it under a mount and pins the imported tip in the same      *)
(* transaction.  Both acknowledge, afterwards and in another table, the      *)
(* publication they applied.                                                 *)
(*                                                                          *)
(* A consumer reads the row once; all it reads after that is immutable and   *)
(* only ever added to, so what it fetches is evaluated at the same instant.  *)
(* One pull of a consumer runs at a time.                                    *)
(***************************************************************************)
EXTENDS Publication

CONSTANT Consumer  \* ponds that pull

VARIABLES
    grafts,   \* the consumers attached with a mount; the others mirror
    dest,     \* a consumer's data table: [content, pin, mount]
    pullAck,  \* the publication it has acknowledged
    pull      \* what its pull is doing: [pc, state, base]

replica == <<grafts, dest, pullAck, pull>>
allVars == <<vars, replica>>
-----------------------------------------------------------------------------
(* What a pull fetches.                                                      *)

\* The two content roots of a commit.
Content(tip) == Tree(Last(tip))
\* What a consumer holds before its first pull, its own /sys apart: nothing.
Nothing == <<>>
\* A published tree in which the consumer has removed and added entries of /sys.
Altered(content) == IF content = Nothing THEN Nothing
                    ELSE <<"altered", content[2], content[3]>>
Series(content) == IF content = Nothing THEN <<>> ELSE content[3]

Upto(pub, n) == Publication(n, SubSeq(pub.record, 1, n))

\* fetch_series_v2 and ensure_series_coverage: from locator to locator, back to
\* a state of which the first n leaves are held already.
Covered(series, n) ==
    LET reach[i \in 0 .. Len(series)] ==
          i <= n \/ LET s == SubSeq(series, 1, i)
                        from == locators[s]
                    IN /\ Manifest(s) \in receipts
                       /\ s \in DOMAIN locators
                       /\ [series |-> s, from |-> from] \in packs
                       /\ from > 0 => Manifest(SubSeq(s, 1, from)) \in receipts
                       /\ \A j \in from + 1 .. i : j > n => Leaf(s[j]) \in receipts
                       /\ reach[from]
    IN reach[Len(series)]

\* fetch_object_graph_at_publication without a boundary
CompleteFetched(new) ==
    /\ HeadReadable(new)
    /\ {Content(Tip(new)), File(Last(Tip(new)).file)} \subseteq receipts
    /\ Covered(Last(Tip(new)).series, 0)

\* fetch_object_graph_from_acknowledgement and authenticate_publication_window
WindowFetched(new, old) ==
    LET e == Last(Tip(new))  b == Last(Tip(old)) IN
    /\ new.generation > old.generation
    /\ Len(new.record) - Len(old.record) = new.generation - old.generation
    /\ Before(old.record, new.record)
    /\ Readable(new.record, Len(old.record))
    /\ \A i \in Len(Tip(old)) .. Len(Tip(new)) :
         CommitObject(SubSeq(Tip(new), 1, i)) \in receipts
    /\ IntervalsMatch(new.record, Len(old.record), Tip(new))
    /\ Tree(e) # Tree(b) => Tree(e) \in receipts
    /\ e.file # b.file => File(e.file) \in receipts
    /\ e.series # b.series => Covered(e.series, Len(b.series))

Matches(c, pub) == dest[c].content = Content(Tip(pub))
-----------------------------------------------------------------------------
(* pull_position and what follows from it, before anything is applied.       *)

Resting == {"idle", "refused", "unreplaced"}
Ready(c) == pull[c].pc \in Resting /\ row # Missing

Goes(c, pc, base) ==
    /\ pull' = [pull EXCEPT ![c] = [pc |-> pc, state |-> row, base |-> base]]
    /\ UNCHANGED <<vars, grafts, dest, pullAck>>

Identified(c) ==
    pullAck[c] # Missing /\ Tip(row) = Tip(pullAck[c]) => row = pullAck[c]

\* The publications the destination may hold beyond the acknowledged one.
Window(c) == Len(pullAck[c].record) + 1 .. Len(row.record)

\* pull_mirror: the fetch, in full unless something is acknowledged.
MirrorFetched(c) ==
    /\ Identified(c)
    /\ IF pullAck[c] = Missing THEN CompleteFetched(row)
       ELSE IF row = pullAck[c] THEN HeadReadable(row) /\ Matches(c, row)
       ELSE WindowFetched(row, pullAck[c])

\* recover_applied_publication: the newest one before the row's.
Applied(c) ==
    {j \in Window(c) \ {Len(row.record)} :
        pullAck[c] # Missing /\ Matches(c, Upto(row, j))}

\* Mutant: a destination that holds the row's publication needs nothing.
PullMirrorUnlessHeld(c) ==
    /\ c \notin grafts
    /\ Ready(c)
    /\ row # pullAck[c]
    /\ MirrorFetched(c)
    /\ ~ Matches(c, row)
    /\ IF Applied(c) = {} THEN Goes(c, "apply", pullAck[c])
       ELSE \E j \in Applied(c) : /\ \A i \in Applied(c) : i <= j
                                  /\ Goes(c, "repair", Upto(row, j))

PullMirror(c) ==
    /\ c \notin grafts
    /\ Ready(c)
    /\ row # pullAck[c]
    /\ MirrorFetched(c)
    /\ IF Matches(c, row) THEN Goes(c, "ack", row)
       ELSE IF Applied(c) = {} THEN Goes(c, "apply", pullAck[c])
       ELSE \E j \in Applied(c) : /\ \A i \in Applied(c) : i <= j
                                  /\ Goes(c, "repair", Upto(row, j))

\* pull_import with the pin at the head: only the acknowledgement may be missing.
GraftCurrent(c) ==
    /\ Identified(c)
    /\ dest[c].pin = Tip(row)
    /\ IF pullAck[c] \notin {Missing, row} THEN WindowFetched(row, pullAck[c])
       ELSE HeadReadable(row)
    /\ Matches(c, row)
    /\ dest[c].mount

\* The boundary an import starts from: the publication pinned, looked for from
\* the acknowledged one on; Missing if nothing is known, or the two disagree.
Pinned(c) ==
    {j \in 1 .. Len(row.record) :
        /\ row.record[j].tip = dest[c].pin
        /\ j >= Len(pullAck[c].record)}

GraftFetched(c, base) ==
    /\ Identified(c)
    /\ dest[c].pin # Tip(row)
    /\ IF dest[c].pin # <<>> /\ pullAck[c] # row
       THEN /\ pullAck[c] # Missing => WindowFetched(row, pullAck[c])
            /\ \E j \in Pinned(c) : base = Upto(row, j)
            /\ WindowFetched(row, base)
            /\ Matches(c, base)
            /\ dest[c].mount
       ELSE IF pullAck[c] \notin {Missing, row}
       THEN base = pullAck[c] /\ WindowFetched(row, base)
       ELSE base = Missing /\ CompleteFetched(row)

Boundaries(c) == {Missing} \cup {Upto(row, j) : j \in DOMAIN row.record}

PullImport(c) ==
    /\ c \in grafts
    /\ Ready(c)
    /\ \/ row # pullAck[c] /\ GraftCurrent(c) /\ Goes(c, "ack", row)
       \/ \E base \in Boundaries(c) : GraftFetched(c, base) /\ Goes(c, "apply", base)

Acceptable(c) ==
    IF c \in grafts
    THEN GraftCurrent(c) \/ \E base \in Boundaries(c) : GraftFetched(c, base)
    ELSE MirrorFetched(c)

RefusePull(c) ==
    /\ Ready(c)
    /\ ~ Acceptable(c)
    /\ Goes(c, "refused", Missing)
-----------------------------------------------------------------------------
(* Applying it.                                                              *)

Acknowledge(c, pub) ==
    pullAck' = [pullAck EXCEPT ![c] = IF @.generation < pub.generation THEN pub ELSE @]

RepairAck(c) ==
    /\ pull[c].pc = "repair"
    /\ Acknowledge(c, pull[c].base)
    /\ pull' = [pull EXCEPT ![c].pc = "apply"]
    /\ UNCHANGED <<vars, grafts, dest>>

\* rebuild_pond_inner and import_pond_inner: a complete plan compares two trees
\* and only appends to a series; an incremental one is for its base alone.
Applicable(c) ==
    IF pull[c].base # Missing THEN Matches(c, pull[c].base)
    ELSE Before(Series(dest[c].content), Last(Tip(pull[c].state)).series)

\* Mutant: the pin stays where it is once it is set.
InstalledUnpinned(c) ==
    [content |-> Content(Tip(pull[c].state)),
     pin |-> IF c \in grafts /\ dest[c].pin = <<>> THEN Tip(pull[c].state) ELSE dest[c].pin,
     mount |-> c \in grafts]

Installed(c) ==
    [content |-> Content(Tip(pull[c].state)),
     pin |-> IF c \in grafts THEN Tip(pull[c].state) ELSE <<>>,
     mount |-> c \in grafts]

Install(c) ==
    /\ dest' = [dest EXCEPT ![c] = Installed(c)]
    /\ pull' = [pull EXCEPT ![c].pc = "ack"]
    /\ UNCHANGED <<vars, grafts, pullAck>>

Abort(c, pc) ==
    /\ pull' = [pull EXCEPT ![c].pc = pc]
    /\ UNCHANGED <<vars, grafts, dest, pullAck>>

Apply(c) ==
    /\ pull[c].pc = "apply"
    /\ IF Applicable(c) THEN Install(c) ELSE Abort(c, "refused")

\* plan_full_replacement deletes every node and creates it again under its id.
\* A series still has its old versions then, and validate_and_stage_foreign_manifest,
\* which folds them all, finds another root than the publication's.  (A series
\* without leaves fails as well; there is none here, but in Mirror.)
Replace(c) ==
    /\ pull[c].pc = "replace"
    /\ IF Series(dest[c].content) = <<>> THEN Install(c) ELSE Abort(c, "unreplaced")

Finished == [pc |-> "idle", state |-> Missing, base |-> Missing]

WritePullAck(c) ==
    /\ pull[c].pc = "ack"
    /\ Acknowledge(c, pull[c].state)
    /\ pull' = [pull EXCEPT ![c] = Finished]
    /\ UNCHANGED <<vars, grafts, dest>>
-----------------------------------------------------------------------------
(* What goes wrong, and what the consumer's operator may do.                 *)

FaultAtConsumer == Fault /\ UNCHANGED <<pond, row, store, sess>>

CrashPull(c) ==
    /\ FaultAtConsumer
    /\ pull[c].pc \notin Resting
    /\ pull' = [pull EXCEPT ![c] = Finished]
    /\ UNCHANGED <<grafts, dest, pullAck>>

\* pull --rebuild-graft; a needless one is bounded with the faults.
RebuildGraft(c) ==
    /\ IF dest[c].mount THEN FaultAtConsumer ELSE UNCHANGED vars
    /\ c \in grafts
    /\ Ready(c)
    /\ Identified(c)
    /\ CompleteFetched(row)
    /\ pull' = [pull EXCEPT ![c] = [pc |-> "replace", state |-> row, base |-> Missing]]
    /\ UNCHANGED <<grafts, dest, pullAck>>

\* pond remote remove, and the remote attached again.  Both commit to /sys, which
\* in a mirror is part of the tree it holds; with --purge the mount of a graft
\* goes and its pin stays; the acknowledgement is cleared if that succeeds.
Detach(c, purge) ==
    /\ FaultAtConsumer
    /\ pull[c].pc \in Resting
    /\ \E left \in {Missing, pullAck[c]} : pullAck' = [pullAck EXCEPT ![c] = left]
    /\ dest' = [dest EXCEPT
                  ![c].content = IF c \in grafts THEN @ ELSE Altered(@),
                  ![c].mount = @ /\ ~ purge]
    /\ pull' = [pull EXCEPT ![c] = Finished]
    /\ UNCHANGED grafts
-----------------------------------------------------------------------------
InitReplica ==
    /\ grafts \in SUBSET Consumer
    /\ dest = [c \in Consumer |-> [content |-> Nothing, pin |-> <<>>, mount |-> FALSE]]
    /\ pullAck = [c \in Consumer |-> Missing]
    /\ pull = [c \in Consumer |-> Finished]

Pull(c) ==
    \/ PullMirror(c) \/ PullImport(c) \/ RefusePull(c)
    \/ RepairAck(c) \/ Apply(c) \/ Replace(c) \/ WritePullAck(c)

Disturb(c) == CrashPull(c) \/ RebuildGraft(c) \/ \E purge \in BOOLEAN : Detach(c, purge)

\* The producer's directory stays in place: Publication is about the rest.
NextAll ==
    \/ /\ Produce \/ ClearAcknowledgements \/ \E p \in Proc : Push(p) \/ Fails(p)
       /\ UNCHANGED replica
    \/ \E c \in Consumer : Pull(c) \/ Disturb(c)

SpecAll == Init /\ InitReplica /\ [][NextAll]_allVars

\* Pushes run after every commit and pulls on a timer, again and again.
FairAll ==
    /\ SpecAll
    /\ \A p \in Proc : WF_allVars(Push(p) /\ UNCHANGED replica)
    /\ \A c \in Consumer : WF_allVars(Pull(c))
-----------------------------------------------------------------------------
(* Properties.                                                               *)

\* A graft whose mount was purged while its pin was kept needs --rebuild-graft.
Purged(c) == c \in grafts /\ dest[c].pin # <<>> /\ ~ dest[c].mount

\* A mirror that was detached while its acknowledgement could not be cleared
\* needs to be detached again.
IsAltered(c) == dest[c].content = Altered(dest[c].content)
Stranded(c) == pullAck[c] # Missing /\ IsAltered(c)

\* A consumer holds a published snapshot, whole, and never one older than what
\* it has acknowledged: authenticate_exact_identity_noop may rely on it.  A
\* mirror that was detached holds one apart from its own changes to /sys.  And
\* whatever was interrupted on either side, no pull is refused, for its lineage,
\* its boundary or an object it needs, but of a consumer purged or stranded.
HoldsPublication ==
    \A c \in Consumer :
        /\ pull[c].pc = "refused" => Purged(c) \/ Stranded(c)
        /\ Acknowledges(pullAck[c])
        /\ IF dest[c].content = Nothing THEN pullAck[c] = Missing
           ELSE \E j \in DOMAIN row.record :
                    /\ j >= pullAck[c].generation
                    /\ \/ Matches(c, Upto(row, j))
                       \/ /\ c \notin grafts
                          /\ dest[c].content = Altered(Content(Tip(Upto(row, j))))
                    /\ c \in grafts => dest[c].pin = row.record[j].tip

\* Once the producer makes no more commits, every consumer gets to hold what
\* the producer holds and to acknowledge it, unless it is purged or stranded.
Converges ==
    \A c \in Consumer :
        <>[](log = <<>> \/ Purged(c) \/ Stranded(c)
             \/ (dest[c].content = Content(log) /\ pullAck[c] = row))
=============================================================================
