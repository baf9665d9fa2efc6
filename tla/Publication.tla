----------------------------- MODULE Publication -----------------------------
(***************************************************************************)
(* Publishing a pond to a remote: push_content_inner                        *)
(* (steward/src/content_push.rs), the remote's immutable objects, packs and *)
(* records (sync-store/src/content_remote.rs), its one mutable row, advanced *)
(* by compare-and-swap (sync-store/src/publication.rs), and the local        *)
(* acknowledgement of what was published (steward/src/publication_ack.rs).   *)
(*                                                                          *)
(* A commit hash commits to the parent's hash, so a commit is modelled as    *)
(* the sequence of snapshots from the first one to its own: a parent is a    *)
(* prefix.  A publication record is in the same way the sequence of the      *)
(* publications up to its own.  The pond's content is one file and one       *)
(* append-only series: enough to share objects between snapshots and to      *)
(* store one series in packs of different extent.                            *)
(*                                                                          *)
(* Any number of processes push; each may die, or be refused by the remote,  *)
(* between any two requests.  An operator may clear the acknowledgement      *)
(* (`pond remote remove`) or put back an older copy of the pond's directory. *)
(***************************************************************************)
EXTENDS Integers, Sequences

CONSTANTS
    Proc,        \* processes that push
    Values,      \* contents of the file
    MaxCommits,  \* bound: commits made
    MaxFaults    \* bound: crashes, lost answers and operator's interventions

ASSUME PublicationAssumption == MaxCommits \in Nat /\ MaxFaults \in Nat

VARIABLES
    log,       \* the pond's commits: its tip and all its ancestors
    made,      \* commits ever made; a commit is never made twice
    ack,       \* the producer's acknowledgement in the control table
    backup,    \* a copy of the pond's directory: [log, ack]
    row,       \* the remote's publication row
    payloads,  \* objects whose payload is in the remote
    receipts,  \* objects whose receipt is there too
    packs,     \* pack indexes in the remote
    locators,  \* by-series locators: where the series' pack begins
    records,   \* publication records in the remote
    sess,      \* what each process is doing
    faults     \* crashes, lost answers and interventions so far

pond == <<log, made, ack, backup>>
store == <<payloads, receipts, packs, locators, records>>
vars == <<pond, row, store, sess, faults>>
-----------------------------------------------------------------------------
(* Snapshots, the objects they consist of and the ones they introduce.      *)

Last(s) == s[Len(s)]
Before(s, t) == Len(s) <= Len(t) /\ s = SubSeq(t, 1, Len(s))

CommitObject(c) == <<"commit", Last(c).id>>
Tree(e) == <<"tree", e.file, e.series>>
File(v) == <<"file", v>>
Manifest(s) == <<"series", s>>
Leaf(l) == <<"leaf", l>>

\* Everything a reader of the snapshot needs.
Live(e) ==
    {Tree(e), File(e.file)}
      \cup {Manifest(s) : s \in {e.series} \ {<<>>}}
      \cup {Leaf(e.series[i]) : i \in DOMAIN e.series}

\* Commit::introduced_objects and introduced_packs: what the touched rows and
\* the recomputed directories hold; an append adds one segment that begins
\* where the series ended.
Introduced(e) ==
    {Tree(e)} \cup IF e.wrote = "file" THEN {File(e.file)}
                   ELSE {Manifest(e.series), Leaf(Last(e.series))}
IntroducedPacks(e) ==
    IF e.wrote = "file" THEN {}
    ELSE {[series |-> e.series, from |-> Len(e.series) - 1]}
-----------------------------------------------------------------------------
(* Publications.  A row or an acknowledgement is a generation and a record.  *)

Publication(generation, record) == [generation |-> generation, record |-> record]
Missing == Publication(0, <<>>)
Tip(pub) == Last(pub.record).tip

\* initial_publication_delta: the snapshot in full, each series as one pack.
Initial(tip) ==
    [tip |-> tip,
     objects |-> {CommitObject(tip)} \cup Live(Last(tip)),
     packs |-> {[series |-> s, from |-> 0] : s \in {Last(tip).series} \ {<<>>}}]

\* Mutant: the first commit after the baseline is left out.
IncrementalShort(tip, base) ==
    LET span == Len(base) + 2 .. Len(tip) IN
    [tip |-> tip,
     objects |-> {CommitObject(SubSeq(tip, 1, i)) : i \in span}
                   \cup UNION {Introduced(tip[i]) : i \in span},
     packs |-> UNION {IntroducedPacks(tip[i]) : i \in span}]

\* collect_incremental_delta, for a baseline that is an ancestor of the tip.
Incremental(tip, base) ==
    LET span == Len(base) + 1 .. Len(tip) IN
    [tip |-> tip,
     objects |-> {CommitObject(SubSeq(tip, 1, i)) : i \in span}
                   \cup UNION {Introduced(tip[i]) : i \in span},
     packs |-> UNION {IntroducedPacks(tip[i]) : i \in span}]

\* require_remote_delta_objects
Available(step) == step.objects \subseteq receipts /\ step.packs \subseteq packs

\* get_publication_record finds the records from the i-th to the newest.
Readable(record, i) == \A j \in i .. Len(record) : SubSeq(record, 1, j) \in records

\* authenticate_record_intervals: each record after the i-th describes exactly
\* the commits that lead to its tip from the tip of the record before.
IntervalsMatch(record, i, commits) ==
    \A j \in i + 1 .. Len(record) :
        LET base == record[j - 1].tip  step == record[j] IN
        /\ step.tip # base
        /\ Before(step.tip, commits)
        /\ Before(base, step.tip)
        /\ step = Incremental(step.tip, base)

\* authenticate_remote_continuation: the row continues the acknowledgement.
Continues(new, old) ==
    /\ new.generation > old.generation
    /\ Before(Tip(old), log)
    /\ Before(Tip(new), log)
    /\ Before(Tip(old), Tip(new))
    /\ new.generation - old.generation <= Len(Tip(new)) - Len(Tip(old))
    /\ Before(old.record, new.record)
    /\ Len(new.record) - Len(old.record) = new.generation - old.generation
    /\ Readable(new.record, Len(old.record))
    /\ IntervalsMatch(new.record, Len(old.record), log)
    /\ \A j \in Len(old.record) + 1 .. Len(new.record) : Available(new.record[j])

\* authenticate_remote_history and authenticate_genesis_record: the row is a
\* history of this pond from its first publication on.
Descends(new, available) ==
    /\ Before(Tip(new), log)
    /\ new.generation <= Len(Tip(new))
    /\ Len(new.record) = new.generation
    /\ Readable(new.record, 1)
    /\ Before(new.record[1].tip, log)
    /\ new.record[1] = Initial(new.record[1].tip)
    /\ new.record[1].packs \subseteq packs
    /\ IntervalsMatch(new.record, 1, log)
    /\ available => \A j \in DOMAIN new.record : Available(new.record[j])

\* authenticate_remote_head
HeadReadable(new) ==
    new.record \in records /\ CommitObject(Tip(new)) \in receipts
-----------------------------------------------------------------------------
(* The pond: commits of any process, and what its operator may do.           *)

Commit(e) ==
    /\ made < MaxCommits
    /\ made' = made + 1
    /\ log' = Append(log, e)
    /\ UNCHANGED <<ack, backup, row, store, sess, faults>>

WriteFile(v) ==
    Commit([id |-> made + 1, file |-> v, wrote |-> "file",
            series |-> IF log = <<>> THEN <<>> ELSE Last(log).series])

AppendSeries ==
    /\ log # <<>>
    /\ Commit([id |-> made + 1, file |-> Last(log).file, wrote |-> "series",
               series |-> Append(Last(log).series, made + 1)])

Idle == [pc |-> "idle", ack |-> Missing, tip |-> <<>>, row |-> Missing,
         next |-> Missing, objects |-> {}, packs |-> {}]

Fault == faults < MaxFaults /\ faults' = faults + 1

\* clear_acknowledgements, when the remote is detached
ClearAcknowledgements ==
    /\ Fault
    /\ ack' = Missing
    /\ UNCHANGED <<log, made, backup, row, store, sess>>

CopyDirectory ==
    /\ \A p \in Proc : sess[p] = Idle
    /\ log # <<>>
    /\ backup.log = <<>>
    /\ backup' = [log |-> log, ack |-> ack]
    /\ UNCHANGED <<log, made, ack, row, store, sess, faults>>

\* From here on the pond's commits diverge from the ones it may have published.
PutBackDirectory ==
    /\ Fault
    /\ \A p \in Proc : sess[p] = Idle
    /\ backup.log # <<>>
    /\ log' = backup.log
    /\ ack' = backup.ack
    /\ UNCHANGED <<made, backup, row, store, sess>>
-----------------------------------------------------------------------------
(* A push.                                                                   *)

Ends(p) == sess' = [sess EXCEPT ![p] = Idle]

\* Opening a pond reads the control table, with the acknowledgement in it ...
OpenControl(p) ==
    /\ sess[p] = Idle
    /\ log # <<>>
    /\ sess' = [sess EXCEPT ![p].pc = "data", ![p].ack = ack]
    /\ UNCHANGED <<pond, row, store, faults>>

\* ... and then the data table.  remote_ref_is_acknowledged: there is nothing
\* to do if the tip is the acknowledged one.
OpenData(p) ==
    /\ sess[p].pc = "data"
    /\ IF sess[p].ack # Missing /\ Tip(sess[p].ack) = log THEN Ends(p)
       ELSE sess' = [sess EXCEPT ![p].pc = "remote", ![p].tip = log]
    /\ UNCHANGED <<pond, row, store, faults>>

\* Opening the remote reads the row.  It must be one this pond has published.
Authentic(s) ==
    IF row = Missing THEN s.ack = Missing
    ELSE IF s.ack # Missing THEN row = s.ack \/ Continues(row, s.ack)
    ELSE Tip(row) = s.tip \/ Descends(row, TRUE)

\* The tip is published already: only the acknowledgement is missing.
Converged(s) ==
    /\ Authentic(s)
    /\ row # Missing
    /\ Tip(row) = s.tip
    /\ IF s.ack # Missing THEN HeadReadable(row) ELSE Descends(row, FALSE)
    /\ Before(s.tip, log)

Publishable(s) ==
    /\ Authentic(s)
    /\ row # Missing => /\ Tip(row) # s.tip
                        /\ Before(Tip(row), log)
                        /\ Before(Tip(row), s.tip)

FindConverged(p) ==
    /\ sess[p].pc = "remote"
    /\ Converged(sess[p])
    /\ sess' = [sess EXCEPT ![p].pc = "ack", ![p].row = row, ![p].next = row]
    /\ UNCHANGED <<pond, row, store, faults>>

Prepare(p) ==
    /\ sess[p].pc = "remote"
    /\ Publishable(sess[p])
    /\ LET tip == sess[p].tip
           step == IF row = Missing THEN Initial(tip) ELSE Incremental(tip, Tip(row))
       IN sess' = [sess EXCEPT ![p].pc = "put", ![p].row = row,
                       ![p].next = Publication(row.generation + 1, Append(row.record, step)),
                       ![p].objects = step.objects, ![p].packs = step.packs]
    /\ UNCHANGED <<pond, row, store, faults>>

Refuse(p) ==
    /\ sess[p].pc = "remote"
    /\ ~ Converged(sess[p])
    /\ ~ Publishable(sess[p])
    /\ Ends(p)
    /\ UNCHANGED <<pond, row, store, faults>>

\* A push puts its objects one after another, in the order of their hashes:
\* some order, here by kind and by age.
Rank(o) ==
    CASE o[1] = "file"   -> <<1, 0>>
      [] o[1] = "leaf"   -> <<2, o[2]>>
      [] o[1] = "series" -> <<3, Len(o[2])>>
      [] o[1] = "tree"   -> <<4, Len(o[3])>>
      [] o[1] = "commit" -> <<5, o[2]>>
Foremost(objects) ==
    {o \in objects : \A q \in objects :
        \/ Rank(o)[1] < Rank(q)[1]
        \/ Rank(o)[1] = Rank(q)[1] /\ Rank(o)[2] <= Rank(q)[2]}

\* put_immutable_object: the payload is created unless it exists, then its
\* receipt; what an earlier push has left is verified and completed, and what
\* has a receipt is passed over.
PutObject(p, o) ==
    /\ sess[p].pc = "put"
    /\ payloads' = payloads \cup {o}
    /\ receipts' = receipts \cup {o}
    /\ sess' = [sess EXCEPT ![p].objects = @ \ receipts']
    /\ UNCHANGED <<pond, row, packs, locators, records, faults>>

PutPayloadOnly(p, o) ==
    /\ Fault
    /\ sess[p].pc = "put"
    /\ o \notin receipts
    /\ payloads' = payloads \cup {o}
    /\ Ends(p)
    /\ UNCHANGED <<pond, row, receipts, packs, locators, records>>

\* put_immutable_pack: the index, then the locator of its series, which stays
\* with the pack that came first.
PutPack(p, k) ==
    /\ sess[p].pc = "put"
    /\ sess[p].objects = {}
    /\ k \in sess[p].packs
    /\ packs' = packs \cup {k}
    /\ locators' = [s \in DOMAIN locators \cup {k.series} |->
                      IF s \in DOMAIN locators THEN locators[s] ELSE k.from]
    /\ sess' = [sess EXCEPT ![p].packs = @ \ {k}]
    /\ UNCHANGED <<pond, row, payloads, receipts, records, faults>>

PutPackOnly(p, k) ==
    /\ Fault
    /\ sess[p].pc = "put"
    /\ sess[p].objects = {}
    /\ k \in sess[p].packs
    /\ packs' = packs \cup {k}
    /\ Ends(p)
    /\ UNCHANGED <<pond, row, payloads, receipts, locators, records>>

PutRecord(p) ==
    /\ sess[p].pc = "put"
    /\ sess[p].objects = {}
    /\ sess[p].packs = {}
    /\ records' = records \cup {sess[p].next.record}
    /\ sess' = [sess EXCEPT ![p].pc = "cas"]
    /\ UNCHANGED <<pond, row, payloads, receipts, packs, locators, faults>>

\* Mutant: the row is written without comparing it.
SwapBlindly(p) ==
    /\ sess[p].pc = "cas"
    /\ row' = sess[p].next
    /\ sess' = [sess EXCEPT ![p].pc = "ack"]
    /\ UNCHANGED <<pond, store, faults>>

\* PublicationTable::compare_and_swap
CompareAndSwap(p) ==
    /\ sess[p].pc = "cas"
    /\ row = sess[p].row
    /\ row' = sess[p].next
    /\ sess' = [sess EXCEPT ![p].pc = "ack"]
    /\ UNCHANGED <<pond, store, faults>>

\* Mutant: a refusal is taken for success.
RefusedAcknowledged(p) ==
    /\ sess[p].pc = "cas"
    /\ row # sess[p].row
    /\ sess' = [sess EXCEPT ![p].pc = "ack"]
    /\ UNCHANGED <<pond, row, store, faults>>

SwapRefused(p) ==
    /\ sess[p].pc = "cas"
    /\ row # sess[p].row
    /\ Ends(p)
    /\ UNCHANGED <<pond, row, store, faults>>

\* The row is visible and the checkpoint fails: the push returns an error.
SwapUnanswered(p) ==
    /\ Fault
    /\ sess[p].pc = "cas"
    /\ row = sess[p].row
    /\ row' = sess[p].next
    /\ Ends(p)
    /\ UNCHANGED <<pond, store>>

\* write_ack, under publication-ack.lock and against the control table as it
\* is now: never back to an older generation, and never to another
\* publication of the same one.
WriteAck(p) ==
    /\ sess[p].pc = "ack"
    /\ ack' = IF ack.generation < sess[p].next.generation THEN sess[p].next ELSE ack
    /\ Ends(p)
    /\ UNCHANGED <<log, made, backup, row, store, faults>>

\* The process dies, a request fails, or the acknowledgement's lock is taken.
Crash(p) ==
    /\ Fault
    /\ sess[p] # Idle
    /\ Ends(p)
    /\ UNCHANGED <<pond, row, store>>
-----------------------------------------------------------------------------
Init ==
    /\ log = <<>> /\ made = 0 /\ ack = Missing
    /\ backup = [log |-> <<>>, ack |-> Missing]
    /\ row = Missing
    /\ payloads = {} /\ receipts = {} /\ packs = {} /\ records = {}
    /\ locators = <<>>
    /\ sess = [p \in Proc |-> Idle]
    /\ faults = 0

Push(p) ==
    \/ OpenControl(p) \/ OpenData(p)
    \/ FindConverged(p) \/ Prepare(p) \/ Refuse(p)
    \/ \E o \in Foremost(sess[p].objects) : PutObject(p, o)
    \/ \E k \in sess[p].packs : PutPack(p, k)
    \/ PutRecord(p) \/ CompareAndSwap(p) \/ SwapRefused(p) \/ WriteAck(p)

Fails(p) ==
    \/ Crash(p) \/ SwapUnanswered(p)
    \/ \E o \in Foremost(sess[p].objects) : PutPayloadOnly(p, o)
    \/ \E k \in sess[p].packs : PutPackOnly(p, k)

Produce == AppendSeries \/ \E v \in Values : WriteFile(v)

Intervene == ClearAcknowledgements \/ CopyDirectory \/ PutBackDirectory

Next ==
    \/ Produce
    \/ Intervene
    \/ \E p \in Proc : Push(p) \/ Fails(p)

Spec == Init /\ [][Next]_vars
-----------------------------------------------------------------------------
(* Properties.                                                               *)

\* A reader can read every series: the states of the series since the first
\* publication have a locator whose pack is there, and a pack that does not
\* begin with the series' first leaf begins where another such state ends.
PublishedSeries ==
    {Tip(row)[i].series : i \in Len(row.record[1].tip) .. Len(Tip(row))} \ {<<>>}

SeriesReadable ==
    \A s \in PublishedSeries :
        /\ s \in DOMAIN locators
        /\ Manifest(s) \in receipts
        /\ [series |-> s, from |-> locators[s]] \in packs
        /\ \A i \in locators[s] + 1 .. Len(s) : Leaf(s[i]) \in receipts
        /\ locators[s] > 0 => SubSeq(s, 1, locators[s]) \in PublishedSeries

\* Whatever pushes were interrupted before, a reader that follows the row
\* finds its record and every object of its snapshot, each with its payload
\* and its receipt, and the packs of every published state of the series.
RowComplete ==
    row # Missing =>
        /\ row.record \in records
        /\ {CommitObject(Tip(row))} \cup Live(Last(Tip(row))) \subseteq receipts \cap payloads
        /\ SeriesReadable

\* An acknowledgement is a publication of that history, so a push that is
\* skipped because its tip is acknowledged leaves nothing unpublished.
Acknowledges(pub) ==
    /\ pub.generation = Len(pub.record)
    /\ Before(pub.record, row.record)

AckPublished ==
    /\ Acknowledges(ack)
    /\ Acknowledges(backup.ack)
    /\ \A p \in Proc : Acknowledges(sess[p].ack)

\* The row and the acknowledgement implement what consumers may rely on.
Published == INSTANCE PublishedHistory WITH
    history <- [i \in DOMAIN row.record |-> row.record[i].tip],
    known <- ack.generation

RefinesPublishedHistory == Published!Spec
=============================================================================
