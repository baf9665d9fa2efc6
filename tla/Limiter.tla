------------------------------- MODULE Limiter -------------------------------
(***************************************************************************)
(* The sliding window of a rate limiter (steward/src/limiter.rs): charges    *)
(* are kept by the bucket they fall into, not one by one.  The sums saturate *)
(* at 2^64 - 1 in the code; no bound here comes near.                        *)
(***************************************************************************)
EXTENDS Integers, FiniteSets, FiniteSetsExt

CONSTANTS
    Window,   \* length of the window
    Bucket,   \* length of a bucket
    Amount,   \* units that may be spent in a window
    Burst,    \* units that may be spent at once
    Instants  \* bound: the times at which the clock is read

ASSUME LimiterAssumption ==
    /\ {Window, Bucket, Amount, Burst} \subseteq Nat \ {0}
    /\ Bucket <= Window
    /\ Instants \subseteq Nat /\ Instants # {} /\ IsFiniteSet(Instants)

Start(t) == t - (t % Bucket)
Starts == {Start(t) : t \in Instants}

Empty == [s \in Starts |-> 0]
Total(b) == MapThenSumSet(LAMBDA s : b[s], DOMAIN b)

Add(b, t, n) == [b EXCEPT ![Start(t)] = @ + n]
Merge(b, c) == [s \in Starts |-> b[s] + c[s]]
Prune(b, t) == [s \in Starts |-> IF s >= t - Window - Bucket THEN b[s] ELSE 0]

\* Mutant: the bucket that starts where the span does is left out.
SumAfter(b, t, span) ==
    MapThenSumSet(LAMBDA s : b[s], {s \in Starts : s > t - span})

\* sum_since: the buckets that start inside the span, not those that only reach
\* into it.
SumSince(b, t, span) ==
    MapThenSumSet(LAMBDA s : b[s], {s \in Starts : s >= t - span})

\* burst_span_micros
BurstSpan ==
    LET span == (Window * Burst) \div Amount IN
    IF span < 1 THEN 1 ELSE IF span > Window THEN Window ELSE span

\* used_at: what was loaded and what this session has charged.
UsedAt(loaded, pending, t, span) ==
    SumSince(loaded, t, span) + SumSince(pending, t, span)

\* check_at
Admits(loaded, pending, t, n) ==
    /\ n <= Amount
    /\ UsedAt(loaded, pending, t, Window) + n <= Amount
    /\ Burst < Amount => UsedAt(loaded, pending, t, BurstSpan) + n <= Burst
=============================================================================
