------------------------------ MODULE Metrics ------------------------------
(***************************************************************************)
(* ActorMetricsHandle: all-time counters and a queue of buckets, one per   *)
(* bucket_duration, of which those within the window count.                *)
(***************************************************************************)
EXTENDS Integers, Sequences, FiniteSets, SequencesExt, Retain, Sums

CONSTANTS
    Recorders,      \* the actors (of a pool) whose MetricsInterceptors share the handle
    MetricWindow,   \* window
    BucketTime,     \* bucket_duration
    MaxClock,       \* bound: the clock
    MaxMessages     \* bound: messages received

ASSUME MetricsAssumption ==
    /\ BucketTime \in Nat \ {0} /\ MetricWindow \in Nat
    /\ MaxClock \in Nat \ {0} /\ MaxMessages \in Nat
    /\ IsFiniteSet(Recorders)

VARIABLES
    clock,      \* Instant::now()
    buckets,    \* HandleInner::buckets
    counted,    \* the atomic counters
    recorder,   \* per recorder: what it is about to put into a bucket, or where it is
    recorded    \* history: how often a kind was put into a bucket at a time

mvars == <<clock, buckets, counted, recorder, recorded>>

Metered == {"message", "latency", "error"}

MetricsInit ==
    /\ clock = 1 /\ buckets = <<>>
    /\ recorded = [k \in Metered |-> [t \in 1..MaxClock |-> 0]]
    /\ recorder = [r \in Recorders |-> "idle"]
    /\ counted = [k \in Metered |-> 0]

IsActive(b) == clock - b.at <= MetricWindow

\* evict_expired pops expired buckets off the front until it meets one that is not.
EvictExpired == Retain(buckets, {i \in DOMAIN buckets : \E j \in 1..i : IsActive(buckets[j])})

\* current_bucket: evict, then open a bucket unless the last one is recent.
\* Mutant: a bucket lives one unit longer.
CurrentBuckets_Longer ==
    LET kept == EvictExpired
    IN  IF kept # <<>> /\ clock - Last(kept).at <= BucketTime THEN kept
        ELSE Append(kept, [at |-> clock, n |-> [k \in Metered |-> 0]])
CurrentBuckets ==
    LET kept == EvictExpired
    IN  IF kept # <<>> /\ clock - Last(kept).at < BucketTime THEN kept
        ELSE Append(kept, [at |-> clock, n |-> [k \in Metered |-> 0]])

\* record_message and record_error count first, without the lock.
Count(r, k) ==
    /\ counted' = [counted EXCEPT ![k] = @ + 1]
    /\ recorder' = [recorder EXCEPT ![r] = k]
    /\ UNCHANGED <<clock, buckets, recorded>>

\* Then, under the lock, they write into the current bucket; record_latency does
\* only that.
Record(r, k, next) ==
    LET current == CurrentBuckets
    IN  /\ buckets' = [current EXCEPT ![Len(current)].n[k] = @ + 1]
        /\ recorder' = [recorder EXCEPT ![r] = next]
        /\ recorded' = [recorded EXCEPT ![k][clock] = @ + 1]
        /\ UNCHANGED <<clock, counted>>

\* MetricsInterceptor::on_receive records the message ...
OnReceive(r) ==
    \/ recorder[r] = "idle" /\ counted["message"] < MaxMessages /\ Count(r, "message")
    \/ recorder[r] = "message" /\ Record(r, "message", "handling")

\* ... and on_complete the latency, then the error if the handler failed.
OnComplete(r) ==
    \/ recorder[r] = "handling" /\ \E next \in {"idle", "failed"} : Record(r, "latency", next)
    \/ recorder[r] = "failed" /\ Count(r, "error")
    \/ recorder[r] = "error" /\ Record(r, "error", "idle")

ClockTick ==
    /\ clock < MaxClock
    /\ clock' = clock + 1
    /\ UNCHANGED <<buckets, counted, recorder, recorded>>

\* The sum over the active buckets ...
Windowed(k) ==
    SumOf([i \in DOMAIN buckets |-> IF IsActive(buckets[i]) THEN buckets[i].n[k] ELSE 0], Len(buckets))

\* ... that snapshot() reads under the lock; what it makes of the latencies is left out.
\* The counters are loaded before the lock is taken: in one snapshot they may be behind
\* these sums.
SnapshotWindow == [k \in Metered |-> Windowed(k)]

MetricsNext == ClockTick \/ \E r \in Recorders : OnReceive(r) \/ OnComplete(r)

-----------------------------------------------------------------------------
\* How often a kind was recorded, no longer ago than age.
RecordedWithin(k, age) ==
    SumOf([t \in 1..MaxClock |-> IF t <= clock /\ clock - t <= age THEN recorded[k][t] ELSE 0], MaxClock)

\* A snapshot counts nothing older than the window and misses nothing younger than
\* the window less one bucket, however records, idle times and evictions follow one
\* another; the counters themselves never lag behind the buckets.
WindowIsSharp ==
    \A k \in Metered :
        /\ RecordedWithin(k, MetricWindow - (BucketTime - 1)) <= SnapshotWindow[k]
        /\ SnapshotWindow[k] <= RecordedWithin(k, MetricWindow)
        /\ k # "latency" => RecordedWithin(k, MaxClock) <= counted[k]
=============================================================================
