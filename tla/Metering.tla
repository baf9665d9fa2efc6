------------------------------ MODULE Metering ------------------------------
(***************************************************************************)
(* Rate limits on a remote's traffic.  An activity, a push or a pull, opens  *)
(* a limiter from the control table (limiter.rs), binds it to the remote as  *)
(* a meter (storage_meter.rs), and while it is bound every request of any    *)
(* task to that remote is charged to it (sync-store/src/metered_store.rs).   *)
(* Traffic that no live meter can claim is owed to the next one.  At the end *)
(* the window goes back to the control table, and a sample of what was spent *)
(* and of what was seen waits there for a write transaction that carries it  *)
(* into the pond (limiter_usage.rs).                                         *)
(*                                                                          *)
(* One process at a time runs one command on the pond: a transfer, or writes *)
(* that are each followed by an automatic push.  Such a push opens a Ship of *)
(* its own; a Ship reads the control table's settings once, when it is       *)
(* opened, and again only what it has written itself.  Requests are made by  *)
(* tasks that may outlive the activity they were started for.                *)
(*                                                                          *)
(* One remote and one dimension, requests, are modelled; a request counts as *)
(* one unit.  The persisted window of observed traffic, which is only        *)
(* displayed, is left out.                                                   *)
(***************************************************************************)
EXTENDS Limiter, Sequences

CONSTANTS
    Task,           \* tasks that make requests
    MaxActivities,  \* bound: activities
    MaxTraffic,     \* bound: requests of one process
    MaxPending,     \* the most samples that wait in the control table
    Waiting         \* samples that wait at the start

ASSUME MeteringAssumption ==
    /\ {MaxActivities, MaxTraffic, MaxPending} \subseteq Nat
    /\ MaxPending > 0 /\ Waiting \in 0 .. MaxPending

Ships == {"outer", "inner"}

VARIABLES
    now,       \* the clock
    table,     \* the control table: [window, queue]
    series,    \* samples in the pond's usage series, in the order written
    issued,    \* samples issued so far
    cache,     \* each Ship's copy of the settings
    command,   \* what the process runs: "none", "write", "transfer"
    ignored,   \* POND_IGNORE_LIMITS is set for the process
    inner,     \* an automatic push has its own Ship open
    write,     \* the write transaction of the outer Ship
    act,       \* the activity of each Ship
    acts,      \* activities so far; an activity's number names its meter
    meters,    \* METERS: the stack of bindings
    arrears,   \* ARREARS: traffic nobody was charged for yet
    escaped,   \* how much of it was admitted for want of a meter
    observed,  \* OBSERVED: requests of this process
    settled,   \* what the finished activities of this process were charged
    task,      \* what each task is doing
    spent,     \* admitted charges in the persisted window, by instant
    overlapped,\* two Ships have been at work with copies of their own
    repeated   \* samples were left both in the series and waiting

control == <<table, series, issued, cache>>
main == <<command, ignored, inner, write, act, acts>>
registry == <<meters, arrears, escaped, observed, settled>>
vars == <<now, control, main, registry, task, spent, overlapped, repeated>>

NoTimes == [t \in Instants |-> 0]
Sum(f, g) == [t \in DOMAIN f |-> f[t] + g[t]]

NoActivity ==
    [pc |-> "none", id |-> 0, loaded |-> Empty, pending |-> Empty,
     start |-> 0, seen |-> 0, closed |-> FALSE, quiet |-> TRUE, owed |-> 0,
     admitted |-> NoTimes]
NoWrite == [pc |-> "none", read |-> 0, emitted |-> 0]
NoSettings == [window |-> Empty, queue |-> <<>>]
NoTask == [pc |-> "idle", meter |-> 0]

Init ==
    /\ now = Min(Instants)
    /\ table = [window |-> Empty, queue |-> [i \in 1 .. Waiting |-> i]]
    /\ series = <<>> /\ issued = Waiting
    /\ cache = [s \in Ships |-> NoSettings]
    /\ command = "none" /\ ignored = FALSE /\ inner = FALSE /\ write = NoWrite
    /\ act = [s \in Ships |-> NoActivity] /\ acts = 0
    /\ meters = <<>> /\ arrears = 0 /\ escaped = 0 /\ observed = 0 /\ settled = 0
    /\ task = [r \in Task |-> NoTask]
    /\ spent = NoTimes
    /\ overlapped = FALSE /\ repeated = FALSE

\* The clock moves while an activity works or none is there; opening and
\* finishing one take no time.
Tick ==
    /\ \A s \in Ships : act[s].pc \in {"none", "running"}
    /\ \E t \in Instants : t > now /\ now' = t
    /\ UNCHANGED <<control, main, registry, task, spent, overlapped, repeated>>
-----------------------------------------------------------------------------
(* The meter: LimiterMeter. *)

Live(id) == {s \in Ships : act[s].id = id /\ act[s].pc # "none" /\ ~ act[s].closed}

Top == IF meters = <<>> THEN 0 ELSE meters[Len(meters)]

Accepts(s) ==
    ignored \/ Admits(act[s].loaded, act[s].pending, now, 1)

Charge(a, n) == [a EXCEPT !.pending = Add(@, now, n)]

\* A refused request is over; an upload one part of which is refused is still
\* there to be aborted.
Refused(t) == IF t.pc = "resolved" THEN NoTask ELSE [t EXCEPT !.pc = "open"]

\* check_and_record of the meter id: charged; refused by the budget; or closed.
CheckAndRecord(id, r) ==
    IF Live(id) = {}
    THEN task' = [task EXCEPT ![r] = Refused(@)] /\ UNCHANGED act
    ELSE \E s \in Live(id) :
           IF Accepts(s)
           THEN /\ act' = [act EXCEPT ![s] = [Charge(@, 1) EXCEPT !.admitted[now] = @ + 1]]
                /\ task' = [task EXCEPT ![r].pc = "charged"]
           ELSE /\ task' = [task EXCEPT ![r] = Refused(@)]
                /\ UNCHANGED act

\* Mutant: a retired meter is charged like a live one.
RecordAnyway(id) ==
    /\ act' = [s \in Ships |-> IF s \in Live(id) THEN Charge(act[s], 1) ELSE act[s]]
    /\ arrears' = IF id = 0 THEN arrears + 1 ELSE arrears

\* record of the meter id; a retired meter's traffic is owed.
Record(id) ==
    /\ act' = [s \in Ships |-> IF s \in Live(id) THEN Charge(act[s], 1) ELSE act[s]]
    /\ arrears' = IF Live(id) = {} THEN arrears + 1 ELSE arrears
-----------------------------------------------------------------------------
(* A request: MeteredStore. *)

InFlight == {r \in Task : task[r].pc = "charged"}
Aborting == {r \in Task : task[r].pc = "aborted"}
AllIdle == \A r \in Task : task[r].pc = "idle"

\* Bound: the requests made and under way.
MayStart ==
    observed + Cardinality({r \in Task : task[r].pc \in {"resolved", "more", "charged"}})
        < MaxTraffic

OnTask == UNCHANGED <<now, control, command, ignored, inner, write, acts, meters, settled, spent, overlapped, repeated>>

\* The store looks its meter up, at any time from the opening of the limits ...
Resolve(r) ==
    /\ \E s \in Ships : act[s].pc # "none"
    /\ task[r].pc = "idle"
    /\ MayStart
    /\ task' = [task EXCEPT ![r] = [pc |-> "resolved", meter |-> Top]]
    /\ UNCHANGED <<act, arrears, escaped, observed>> /\ OnTask

\* ... and reserves the request: admit, with a meter ...
AdmitMetered(r) ==
    /\ task[r].pc \in {"resolved", "more"}
    /\ task[r].meter # 0
    /\ CheckAndRecord(task[r].meter, r)
    /\ UNCHANGED <<arrears, escaped, observed>> /\ OnTask

\* ... or without one, looking again while none can be bound.
AdmitUnmetered(r) ==
    /\ task[r].pc \in {"resolved", "more"}
    /\ task[r].meter = 0
    /\ IF Top # 0
       THEN CheckAndRecord(Top, r) /\ UNCHANGED <<arrears, escaped>>
       ELSE /\ arrears' = arrears + 1
            /\ escaped' = escaped + 1
            /\ task' = [task EXCEPT ![r].pc = "charged"]
            /\ UNCHANGED act
    /\ UNCHANGED observed /\ OnTask

Observe(r) ==
    /\ task[r].pc = "charged"
    /\ observed' = observed + 1
    /\ task' = [task EXCEPT ![r].pc = "open"]
    /\ UNCHANGED <<act, arrears, escaped>> /\ OnTask

\* The next part of an upload, the body of a response, a further page: under
\* the meter that was looked up first.
Continue(r) ==
    /\ task[r].pc = "open"
    /\ MayStart
    /\ task' = [task EXCEPT ![r].pc = "more"]
    /\ UNCHANGED <<act, arrears, escaped, observed>> /\ OnTask

Respond(r) ==
    /\ task[r].pc = "open"
    /\ task' = [task EXCEPT ![r] = NoTask]
    /\ UNCHANGED <<act, arrears, escaped, observed>> /\ OnTask

\* MeteredUpload::abort, and pages that were listed and then refused: the
\* traffic is recorded, not admitted; observed first ...
Abort(r) ==
    /\ task[r].pc = "open"
    /\ MayStart
    /\ observed' = observed + 1
    /\ task' = [task EXCEPT ![r].pc = "aborted"]
    /\ UNCHANGED <<act, arrears, escaped>> /\ OnTask

\* ... and then charged.
RecordAbort(r) ==
    /\ task[r].pc = "aborted"
    /\ Record(task[r].meter)
    /\ task' = [task EXCEPT ![r] = NoTask]
    /\ UNCHANGED <<escaped, observed>> /\ OnTask
-----------------------------------------------------------------------------
(* An activity: LimiterSet::open, MeterGuard::new, its work, finish, commit. *)

Runs(s) ==
    IF inner THEN s = "inner"
    ELSE s = "outer" /\ command = "transfer" /\ write.pc = "none"

Becomes(s, a) == act' = [act EXCEPT ![s] = a]

OnShip == UNCHANGED <<now, command, ignored, inner, write, task>>

\* The window is what the Ship knows of it; the traffic so far is noted.
OpenLimits(s) ==
    /\ Runs(s)
    /\ act[s].pc = "none"
    /\ acts < MaxActivities
    /\ acts' = acts + 1
    /\ act' = [q \in Ships |->
                 IF q = s
                 THEN [NoActivity EXCEPT !.pc = "opened", !.id = acts + 1,
                         !.loaded = cache[s].window, !.start = observed,
                         !.quiet = AllIdle /\ meters = <<>>, !.owed = arrears]
                 ELSE [act[q] EXCEPT !.quiet = act[q].pc = "none"]]
    /\ overlapped' = (overlapped \/ \E q \in Ships \ {s} : act[q].pc # "none")
    /\ UNCHANGED <<control, registry, spent, repeated>> /\ OnShip

\* bind_meter: the newest binding of the remote wins ...
Bind(s) ==
    /\ Runs(s)
    /\ act[s].pc = "opened"
    /\ meters' = Append(meters, act[s].id)
    /\ Becomes(s, [act[s] EXCEPT !.pc = "bound"])
    /\ UNCHANGED <<control, acts, arrears, escaped, observed, settled, spent, overlapped, repeated>> /\ OnShip

AtLeast0(n) == IF n < 0 THEN 0 ELSE n

\* Mutant: what is inherited is not set off against what was seen before.
DrainSeenBefore(s) ==
    /\ Runs(s)
    /\ act[s].pc = "bound"
    /\ Becomes(s, [Charge(act[s], arrears) EXCEPT !.pc = "running",
                     !.owed = arrears - @])
    /\ arrears' = 0 /\ escaped' = 0
    /\ UNCHANGED <<control, acts, meters, observed, settled, spent, overlapped, repeated>> /\ OnShip

\* ... and is charged what is owed, admitted or not.
Drain(s) ==
    /\ Runs(s)
    /\ act[s].pc = "bound"
    /\ Becomes(s, [Charge(act[s], arrears) EXCEPT
                     !.pc = "running",
                     !.start = AtLeast0(@ - arrears),
                     !.owed = arrears - @])
    /\ arrears' = 0 /\ escaped' = 0
    /\ UNCHANGED <<control, acts, meters, observed, settled, spent, overlapped, repeated>> /\ OnShip

\* finish: the meter is closed, ...
Close(s) ==
    /\ Runs(s)
    /\ act[s].pc = "running"
    /\ Becomes(s, [act[s] EXCEPT !.pc = "closed", !.closed = TRUE,
                     !.quiet = @ /\ AllIdle])
    /\ UNCHANGED <<control, acts, registry, spent, overlapped, repeated>> /\ OnShip

\* ... what it saw is measured, and the binding, found by its identity, goes.
Unbind(s) ==
    /\ Runs(s)
    /\ act[s].pc = "closed"
    /\ meters' = SelectSeq(meters, LAMBDA id : id # act[s].id)
    /\ Becomes(s, [act[s] EXCEPT !.pc = "unbound", !.seen = AtLeast0(observed - act[s].start)])
    /\ UNCHANGED <<control, acts, arrears, escaped, observed, settled, spent, overlapped, repeated>> /\ OnShip

\* raw_config_set
Set(s, field, value) ==
    /\ table' = [table EXCEPT ![field] = value]
    /\ cache' = [cache EXCEPT ![s][field] = value]

\* commit_window_at: an ignored run is not charged; a limiter nobody used
\* writes nothing; a sample is due when anything was spent or seen.
CommitWindow(s) ==
    /\ Runs(s)
    /\ act[s].pc = "unbound"
    /\ LET pending == IF ignored THEN Empty ELSE act[s].pending
           window == Prune(Merge(act[s].loaded, pending), now)
       IN /\ IF Total(act[s].pending) + act[s].seen = 0 THEN UNCHANGED <<table, cache>>
             ELSE Set(s, "window", window)
          /\ Becomes(s, IF Total(pending) + act[s].seen = 0 THEN NoActivity
                        ELSE [act[s] EXCEPT !.pc = "stored", !.loaded = window,
                                !.pending = Empty, !.admitted = NoTimes])
    /\ settled' = settled + Total(act[s].pending)
    /\ spent' = IF ignored THEN spent ELSE Sum(spent, act[s].admitted)
    /\ UNCHANGED <<series, issued, acts, meters, arrears, escaped, observed, overlapped, repeated>>
    /\ OnShip

\* A control write fails: the spending, or its sample, is forgotten.
CommitFails(s) ==
    /\ Runs(s)
    /\ act[s].pc \in {"unbound", "stored"}
    /\ Becomes(s, NoActivity)
    /\ settled' = settled + Total(act[s].pending)
    /\ UNCHANGED <<control, acts, meters, arrears, escaped, observed, spent, overlapped, repeated>>
    /\ OnShip

Newest(q) == IF Len(q) > MaxPending THEN SubSeq(q, Len(q) - MaxPending + 1, Len(q)) ELSE q

\* limiter_usage::queue
QueueSample(s) ==
    /\ Runs(s)
    /\ act[s].pc = "stored"
    /\ issued' = issued + 1
    /\ Set(s, "queue", Newest(Append(cache[s].queue, issued')))
    /\ Becomes(s, NoActivity)
    /\ UNCHANGED <<series, acts, registry, spent, overlapped, repeated>> /\ OnShip
-----------------------------------------------------------------------------
(* The process: commands, write transactions, automatic pushes, its end.     *)

\* Bound: the limits are suspended for transfers only.
Begin(kind, ignore) ==
    /\ ignore => kind = "transfer"
    /\ command = "none"
    /\ command' = kind
    /\ ignored' = ignore
    /\ cache' = [cache EXCEPT !["outer"] = table]
    /\ UNCHANGED <<now, table, series, issued, inner, write, act, acts, registry, task, spent, overlapped, repeated>>

OnWrite == UNCHANGED <<now, command, ignored, act, acts, registry, task, spent, overlapped>>

\* A transaction reads what waits when it begins, from its Ship's copy, which
\* nothing changes before it commits.  A real change carries the samples with
\* it, unless emitting them fails; without one they stay where they are.  The
\* transaction with which a pull imports a graft is such a one.
CommitWrite ==
    /\ command = "write" \/ act["outer"].pc = "running"
    /\ ~ inner
    /\ write.pc = "none"
    /\ \E emit \in BOOLEAN :
         LET usage == cache["outer"].queue IN
         /\ series' = IF emit THEN series \o usage ELSE series
         /\ write' = [pc |-> "committed", read |-> Len(usage),
                      emitted |-> IF emit THEN Len(usage) ELSE 0]
    /\ UNCHANGED <<table, issued, cache, inner, repeated>> /\ OnWrite

Rest(q, n) == SubSeq(q, n + 1, Len(q))

\* drop_emitted takes n samples off the queue; run_post_commit_remotes then
\* opens a Ship of its own.
Dropping(n, push) ==
    LET dropped(settings) ==
            IF n = 0 THEN settings
            ELSE [settings EXCEPT !.queue = Rest(cache["outer"].queue, n)]
    IN /\ write.pc = "committed"
       /\ table' = dropped(table)
       /\ cache' = [cache EXCEPT !["outer"] = dropped(@),
                                !["inner"] = IF push THEN table' ELSE @]
       /\ write' = NoWrite
       /\ inner' = push
       /\ UNCHANGED <<series, issued>> /\ OnWrite

\* Mutant: nothing is dropped.
DropNothing(push) == Dropping(0, push) /\ UNCHANGED repeated

DropEmitted(push) == Dropping(write.emitted, push) /\ UNCHANGED repeated

\* The control write fails.  Bound: once, a crash at this point included.
DropFails(push) ==
    /\ write.emitted > 0
    /\ ~ repeated /\ repeated' = TRUE
    /\ Dropping(0, push)

\* The transaction of a mirror's pull replays its source exactly: it emits no
\* samples.
PullPostCommit ==
    /\ command = "transfer" /\ ~ inner
    /\ act["outer"].pc = "running"
    /\ inner' = TRUE
    /\ cache' = [cache EXCEPT !["inner"] = table]
    /\ UNCHANGED <<table, series, issued, write, repeated>> /\ OnWrite

EndPush ==
    /\ inner
    /\ act["inner"].pc = "none"
    /\ inner' = FALSE
    /\ overlapped' = (overlapped \/ cache["outer"] # table)
    /\ cache' = [cache EXCEPT !["inner"] = NoSettings]
    /\ UNCHANGED <<now, table, series, issued, command, ignored, write, act, acts, registry, task, spent, repeated>>

Gone ==
    /\ command' = "none" /\ ignored' = FALSE /\ inner' = FALSE /\ write' = NoWrite
    /\ act' = [s \in Ships |-> NoActivity]
    /\ meters' = <<>> /\ arrears' = 0 /\ escaped' = 0 /\ observed' = 0 /\ settled' = 0
    /\ task' = [r \in Task |-> NoTask]
    /\ cache' = [s \in Ships |-> NoSettings]
    /\ UNCHANGED <<now, table, series, issued, acts, spent, overlapped>>

Exit ==
    /\ command # "none" /\ ~ inner
    /\ write.pc = "none"
    /\ act["outer"].pc = "none"
    /\ Gone
    /\ UNCHANGED repeated

\* At any time; bound: once between a commit and the drop of its samples.
Crash ==
    /\ command # "none"
    /\ ~ (repeated /\ write.emitted > 0)
    /\ repeated' = (repeated \/ write.emitted > 0)
    /\ Gone
-----------------------------------------------------------------------------
Request(r) ==
    \/ Resolve(r) \/ AdmitMetered(r) \/ AdmitUnmetered(r) \/ Observe(r)
    \/ Continue(r) \/ Respond(r) \/ Abort(r) \/ RecordAbort(r)

Activity(s) ==
    \/ OpenLimits(s)
    \/ Bind(s) \/ Drain(s) \/ Close(s) \/ Unbind(s)
    \/ CommitWindow(s) \/ CommitFails(s) \/ QueueSample(s)

Process ==
    \/ \E kind \in {"write", "transfer"}, ignore \in BOOLEAN : Begin(kind, ignore)
    \/ CommitWrite
    \/ \E push \in BOOLEAN : DropEmitted(push) \/ DropFails(push)
    \/ PullPostCommit \/ EndPush \/ Exit \/ Crash

Next ==
    \/ Tick
    \/ Process
    \/ \E s \in Ships : Activity(s)
    \/ \E r \in Task : Request(r)

Spec == Init /\ [][Next]_vars
-----------------------------------------------------------------------------
(* Properties. *)

\* Nothing is spent for free and nothing is charged twice: what was charged to
\* meters of this process, dead or alive, and what is still owed is what was
\* observed, up to the requests between their charge and their observation.
\* And while a meter that has taken over the debts is bound, no request is
\* admitted on credit: what becomes owed is the traffic of closed meters.
Conserved ==
    /\ settled + Total(act["outer"].pending) + Total(act["inner"].pending) + arrears
          + Cardinality(Aborting)
        = observed + Cardinality(InFlight)
    /\ (\E s \in Ships : act[s].pc = "running") => escaped = 0

\* The two numbers of a sample, charged and seen, agree, debts included, when
\* nothing was under way at either end and no other meter was bound in between:
\* what was charged was seen, and what was seen beyond that is traffic that came
\* between the note of the observation and the drain, which is in both the debt
\* and the observation, or is still owed.
Agreement ==
    \A s \in Ships :
        act[s].pc = "unbound" /\ act[s].quiet =>
            /\ Total(act[s].pending) <= act[s].seen
            /\ act[s].seen <= Total(act[s].pending) + act[s].owed + arrears

\* Admitted spending by instant: persisted, and of the activities under way.
Admitted(s, t) == IF ignored THEN 0 ELSE act[s].admitted[t]
Spending(t) == spent[t] + Admitted("outer", t) + Admitted("inner", t)

Within(from, t) == MapThenSumSet(Spending, {u \in Instants : from <= u /\ u <= t})

\* Of what the control table remembers and the activities under way were
\* admitted, by however many activities and processes, no more than the amount
\* falls into any span of the window less "up to one bucket's width" that
\* bucketing gives away, nor more than the burst into a span of the burst: a
\* charge counts until the start of its bucket has left the span.  What a process
\* that died or could not write was admitted is forgotten.
BudgetHeld ==
    ~ overlapped => \A t \in Instants :
        /\ Within(t - (Window - Bucket + 1), t) <= Amount
        /\ Burst < Amount => Within(t - (BurstSpan - Bucket + 1), t) <= Burst

\* A sample that was queued stays in the control table until it is in the
\* pond, unless MaxPending newer ones have displaced it.
SamplesSurvive ==
    \A i \in 1 .. issued :
        i \in Range(table.queue) \cup Range(series) \/ issued - i >= MaxPending

\* So it is as long as no Ship goes on after an automatic push.  And none is
\* written twice, unless the process stops, or cannot write to the control
\* table, between the commit and the drop.
SamplesExactlyOnce ==
    ~ overlapped =>
        /\ SamplesSurvive
        /\ ~ repeated => Len(series) = Cardinality(Range(series))
=============================================================================
