---------------------------- MODULE Persistence ----------------------------
(***************************************************************************)
(* A persistent actor and its storage (dactor/src/persistence.rs): an      *)
(* EventSourced actor with a journal and snapshots, or a DurableState      *)
(* actor with a state store, through crashes, restarts and failing or      *)
(* ambiguous storage calls.                                                *)
(*                                                                         *)
(* The state of an actor is the sequence of events applied to it, so that  *)
(* a lost, repeated or reordered event shows.  A storage call either       *)
(* succeeds, fails, or leaves its caller in doubt: the storage took the    *)
(* write, and the caller gets an error or is dropped while it awaits (a    *)
(* cancelled ask drops its handler).  Nothing in the code consults         *)
(* persist_failure_policy: an actor whose persist failed goes on.          *)
(***************************************************************************)
EXTENDS Naturals, Sequences, Retain

CONSTANTS
    Events,         \* events, each persisted (or applied) at most once
    Kinds,          \* the kinds of actor to consider
    Policies,       \* the RecoveryFailurePolicy values to consider
    MaxAttempts,    \* max_attempts of the Retry policy, when it is given
    MaxSnapshots,   \* bound: snapshots kept at a time
    MaxRestarts,    \* bound: incarnations of the actor
    None

\* "RetryNone" is Retry with max_attempts None.
RecoveryFailurePolicy == {"Stop", "Retry", "RetryNone", "SkipAndStart"}
Outcomes == {"ok", "failed", "doubt"}

ASSUME PersistenceAssumption ==
    /\ None \notin Seq(Events)
    /\ Kinds \subseteq {"EventSourced", "DurableState"}
    /\ Policies \subseteq RecoveryFailurePolicy
    /\ MaxAttempts \in Nat /\ MaxSnapshots \in Nat /\ MaxRestarts \in Nat

VARIABLES
    kind, policy,       \* what the actor implements; they never change
    journal,            \* InMemoryStorage: the entries of the persistence id
    snapshots,          \* its snapshots, in order of arrival
    states,             \* its saved state, or None
    phase,              \* "down", "loading", "replaying", "running" or "stopped"
    attempt,            \* the attempt at recovery under way
    memory,             \* the actor's state: the events applied to it
    last_sequence_id,
    restarts,           \* history: incarnations so far
    log,                \* history: the events the journal took, in order
    acked,              \* history: events whose persist (or save) returned Ok
    stale,              \* history: the storage holds more than memory, unknown to the actor
    diverged,           \* history: a stale actor has written an event or a snapshot
    skipped             \* history: some incarnation skipped its recovery

storage == <<journal, snapshots, states>>
history == <<restarts, log, acked, stale, diverged, skipped>>
vars == <<kind, policy, journal, snapshots, states, phase, attempt, memory, last_sequence_id,
          restarts, log, acked, stale, diverged, skipped>>

Elems(q) == {q[i] : i \in DOMAIN q}
Last(q) == q[Len(q)]

TypeOK ==
    /\ kind \in Kinds /\ policy \in Policies
    /\ journal \in Seq([seq : Nat, event : Events])
    /\ snapshots \in Seq([seq : Nat, state : Seq(Events)])
    /\ states \in Seq(Events) \cup {None}
    /\ phase \in {"down", "loading", "replaying", "running", "stopped"}
    /\ attempt \in Nat
    /\ memory \in Seq(Events)
    /\ last_sequence_id \in Nat
    /\ restarts \in Nat
    /\ log \in Seq(Events)
    /\ acked \subseteq Events
    /\ stale \in BOOLEAN /\ diverged \in BOOLEAN /\ skipped \in BOOLEAN

Init ==
    /\ kind \in Kinds /\ policy \in Policies
    /\ journal = <<>> /\ snapshots = <<>> /\ states = None
    /\ phase = "down" /\ attempt = 0
    /\ memory = <<>> /\ last_sequence_id = 0
    /\ restarts = 0
    /\ log = <<>> /\ acked = {}
    /\ stale = FALSE /\ diverged = FALSE /\ skipped = FALSE

-----------------------------------------------------------------------------
(***************************************************************************)
(* An EventSourced actor at work.                                          *)
(***************************************************************************)

\* Events not used so far.
Fresh(e) == e \notin Elems(log) /\ e \notin Elems(memory)

\* The entries of a batch that follows sequence number n.
Numbered(batch, n) == [i \in DOMAIN batch |-> [seq |-> n + i, event |-> batch[i]]]

\* write_event and write_event_batch of the storage: entries are appended, under
\* whatever numbers they come with.
WriteEvents(entries) == journal \o entries

\* persist (a batch of one) and persist_batch: the events are written under the
\* next sequence numbers, all or none, then applied in order.
PersistBatch(batch, outcome) ==
    /\ phase = "running" /\ kind = "EventSourced"
    /\ \/ /\ outcome = "ok"
          /\ memory' = memory \o batch
          /\ last_sequence_id' = last_sequence_id + Len(batch)
          /\ acked' = acked \cup Elems(batch)
          /\ UNCHANGED stale
       \/ /\ outcome = "doubt"
          /\ stale' = TRUE
          /\ UNCHANGED <<memory, last_sequence_id, acked>>
       \/ /\ outcome = "failed"
          /\ UNCHANGED <<memory, last_sequence_id, acked, stale>>
    /\ IF outcome = "failed"
       THEN UNCHANGED <<journal, log, diverged>>
       ELSE /\ journal' = WriteEvents(Numbered(batch, last_sequence_id))
            /\ log' = log \o batch
            /\ diverged' = (diverged \/ stale)
    /\ UNCHANGED <<kind, policy, snapshots, states, phase, attempt, restarts, skipped>>

\* save_snapshot and load_latest_snapshot of the storage.
SaveSnapshot(n, state) == Append(snapshots, [seq |-> n, state |-> state])
LatestSnapshot == Last(snapshots)

\* snapshot: whatever the caller learns, the snapshot is saved or it is not.
Snapshot ==
    /\ phase = "running" /\ kind = "EventSourced" /\ Len(snapshots) < MaxSnapshots
    /\ snapshots' = SaveSnapshot(last_sequence_id, memory)
    /\ diverged' = (diverged \/ stale)
    /\ UNCHANGED <<kind, policy, journal, states, phase, attempt, memory, last_sequence_id,
                   restarts, log, acked, stale, skipped>>

\* Deletes up to the entry after the snapshot.
DeleteEventsTo_OneMore ==
    /\ phase = "running" /\ snapshots # <<>>
    /\ journal' = Retain(journal, {i \in DOMAIN journal : journal[i].seq > LatestSnapshot.seq + 1})
    /\ UNCHANGED <<kind, policy, snapshots, states, phase, attempt, memory, last_sequence_id>>
    /\ UNCHANGED history

\* delete_events_to: the events that the latest snapshot covers.
DeleteEventsTo ==
    /\ phase = "running" /\ snapshots # <<>>
    /\ \E e \in Elems(journal) : e.seq <= LatestSnapshot.seq
    /\ journal' = Retain(journal, {i \in DOMAIN journal : journal[i].seq > LatestSnapshot.seq})
    /\ UNCHANGED <<kind, policy, snapshots, states, phase, attempt, memory, last_sequence_id>>
    /\ UNCHANGED history

\* delete_snapshots_before the latest one.
DeleteSnapshotsBefore ==
    /\ phase = "running" /\ snapshots # <<>>
    /\ \E s \in Elems(snapshots) : s.seq < LatestSnapshot.seq
    /\ snapshots' = Retain(snapshots, {i \in DOMAIN snapshots : snapshots[i].seq >= LatestSnapshot.seq})
    /\ UNCHANGED <<kind, policy, journal, states, phase, attempt, memory, last_sequence_id>>
    /\ UNCHANGED history

-----------------------------------------------------------------------------
(***************************************************************************)
(* A DurableState actor at work.                                           *)
(***************************************************************************)

\* A handler changes the state in memory.
Change(e) ==
    /\ phase = "running" /\ kind = "DurableState"
    /\ memory' = Append(memory, e)
    /\ UNCHANGED <<kind, policy, phase, attempt, last_sequence_id>>
    /\ UNCHANGED storage /\ UNCHANGED history

\* save_state.
SaveState(outcome) ==
    /\ phase = "running" /\ kind = "DurableState"
    /\ states' = IF outcome = "failed" THEN states ELSE memory
    /\ acked' = IF outcome = "ok" THEN Elems(memory) ELSE acked
    /\ UNCHANGED <<kind, policy, journal, snapshots, phase, attempt, memory, last_sequence_id,
                   restarts, log, stale, diverged, skipped>>

\* StateStorage::delete_state.
DeleteState ==
    /\ phase = "running" /\ states # None
    /\ states' = None
    /\ acked' = {}
    /\ UNCHANGED <<kind, policy, journal, snapshots, phase, attempt, memory, last_sequence_id,
                   restarts, log, stale, diverged, skipped>>

-----------------------------------------------------------------------------
(***************************************************************************)
(* Crash and recovery.                                                     *)
(***************************************************************************)

\* The process dies, at any moment.
Crash ==
    /\ phase \in {"loading", "replaying", "running"}
    /\ phase' = "down"
    /\ memory' = <<>> /\ last_sequence_id' = 0 /\ attempt' = 0
    /\ UNCHANGED <<kind, policy>> /\ UNCHANGED storage /\ UNCHANGED history

\* A new actor value, which calls recover_event_sourced or recover_durable_state.
Restart ==
    /\ phase \in {"down", "stopped"} /\ restarts < MaxRestarts
    /\ restarts' = restarts + 1
    /\ phase' = "loading" /\ attempt' = 1
    /\ memory' = <<>> /\ last_sequence_id' = 0
    /\ stale' = FALSE
    /\ UNCHANGED <<kind, policy, log, acked, diverged, skipped>> /\ UNCHANGED storage

\* The snapshot is restored but its sequence number is not taken over.
LoadSnapshot_NoSequence ==
    /\ phase = "loading" /\ kind = "EventSourced"
    /\ phase' = "replaying"
    /\ memory' = IF snapshots = <<>> THEN memory ELSE LatestSnapshot.state
    /\ UNCHANGED <<kind, policy, attempt, last_sequence_id>>
    /\ UNCHANGED storage /\ UNCHANGED history

\* recover_event_sourced_inner, up to the snapshot.
LoadSnapshot ==
    /\ phase = "loading" /\ kind = "EventSourced"
    /\ phase' = "replaying"
    /\ memory' = IF snapshots = <<>> THEN memory ELSE LatestSnapshot.state
    /\ last_sequence_id' = IF snapshots = <<>> THEN last_sequence_id ELSE LatestSnapshot.seq
    /\ UNCHANGED <<kind, policy, attempt>>
    /\ UNCHANGED storage /\ UNCHANGED history

\* read_events: the entries from a sequence number on.
ReadEvents(from) == Retain(journal, {i \in DOMAIN journal : journal[i].seq >= from})

\* ... and from there: every event is read and deserialized before the first is
\* applied.
ReplayEvents ==
    /\ phase = "replaying"
    /\ LET entries == ReadEvents(last_sequence_id + 1) IN
       /\ memory' = memory \o [i \in DOMAIN entries |-> entries[i].event]
       /\ last_sequence_id' = IF entries = <<>> THEN last_sequence_id ELSE Last(entries).seq
    /\ phase' = "running"
    /\ UNCHANGED <<kind, policy, attempt>>
    /\ UNCHANGED storage /\ UNCHANGED history

\* recover_durable_state_inner.
LoadState ==
    /\ phase = "loading" /\ kind = "DurableState"
    /\ phase' = "running"
    /\ memory' = IF states = None THEN memory ELSE states
    /\ UNCHANGED <<kind, policy, attempt, last_sequence_id>>
    /\ UNCHANGED storage /\ UNCHANGED history

\* Recovery that is tried again from the start for ever.
RecoveryFails_Unbounded ==
    /\ phase \in {"loading", "replaying"}
    /\ phase' = "loading"
    /\ UNCHANGED <<kind, policy, attempt, memory, last_sequence_id, restarts, log, acked, stale,
                   diverged, skipped>>
    /\ UNCHANGED storage

\* The attempts that Retry makes; the code takes 3 where none are given.
Attempts == IF policy = "RetryNone" THEN 3 ELSE MaxAttempts

\* A storage call, a snapshot or an event that cannot be read.  Retry goes through
\* the whole of it again with the same actor value; SkipAndStart leaves the actor
\* as the failed attempt left it.
RecoveryFails ==
    /\ phase \in {"loading", "replaying"}
    /\ \/ /\ policy = "Stop" \/ (policy \in {"Retry", "RetryNone"} /\ attempt >= Attempts)
          /\ phase' = "stopped"
          /\ UNCHANGED <<attempt, stale, skipped>>
       \/ /\ policy \in {"Retry", "RetryNone"} /\ attempt < Attempts
          /\ phase' = "loading"
          /\ attempt' = attempt + 1
          /\ UNCHANGED <<stale, skipped>>
       \/ /\ policy = "SkipAndStart"
          /\ phase' = "running"
          /\ stale' = TRUE
          /\ skipped' = TRUE
          /\ UNCHANGED attempt
    /\ UNCHANGED <<kind, policy, memory, last_sequence_id, restarts, log, acked, diverged>>
    /\ UNCHANGED storage

\* The two recovery functions consult the policy in the same way.
RecoverEventSourcedFails == kind = "EventSourced" /\ RecoveryFails
RecoverDurableStateFails == kind = "DurableState" /\ RecoveryFails

-----------------------------------------------------------------------------

\* A batch of one or two fresh events.
Batches == {<<e>> : e \in {e \in Events : Fresh(e)}} \cup
           {<<e, f>> : e, f \in {e \in Events : Fresh(e)}}

RecoveryStep == LoadSnapshot \/ ReplayEvents \/ LoadState \/ RecoverEventSourcedFails \/ RecoverDurableStateFails

Next ==
    \/ \E batch \in Batches, outcome \in Outcomes :
          /\ Len(batch) = 2 => batch[1] # batch[2]
          /\ PersistBatch(batch, outcome)
    \/ Snapshot \/ DeleteEventsTo \/ DeleteSnapshotsBefore
    \/ \E e \in Events : Fresh(e) /\ Change(e)
    \/ \E outcome \in Outcomes : SaveState(outcome)
    \/ DeleteState
    \/ Crash \/ Restart \/ RecoveryStep

\* Storage calls return, and the backoff between attempts ends.
Spec == Init /\ [][Next]_vars /\ WF_vars(RecoveryStep)

-----------------------------------------------------------------------------
(***************************************************************************)
(* Properties.                                                             *)
(***************************************************************************)

\* A recovered event-sourced actor is in exactly the state that all events ever
\* written lead to, in order and each once, whatever was snapshotted, deleted,
\* retried or crashed in between, as long as no actor that lagged behind its
\* journal has written an event or a snapshot.
RecoveryIsExact ==
    /\ TypeOK
    /\ (kind = "EventSourced" /\ phase = "running" /\ ~stale /\ ~diverged) => memory = log

\* What persist, persist_batch or save_state reported as done survives every crash
\* and restart, even after writes whose outcome was in doubt; only SkipAndStart
\* gives it up.
AckedSurvives == (phase = "running" /\ ~skipped) => acked \subseteq Elems(memory)

\* Recovery comes to an end: the actor runs or is stopped, whatever fails and however
\* often, where the policy bounds the attempts.  Nothing is claimed of Retry without
\* max_attempts: its doc promises attempts without end ("None = unlimited",
\* persistence.rs:99), the code gives up after three (lines 638 and 716).
RecoveryEnds ==
    (phase \in {"loading", "replaying"} /\ policy # "RetryNone")
        ~> (phase \in {"running", "stopped", "down"})
============================================================================
