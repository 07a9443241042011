----------------------------- MODULE Broadcast -----------------------------
(***************************************************************************)
(* BroadcastRef, which sends one message to each of its references, and    *)
(* ProcessingGroup, the named membership a broadcast is taken from.  A     *)
(* broadcast borrows the reference, so its members change only between     *)
(* calls; the actors behind them end at any time.  Some references only    *)
(* relay: a RemoteActorRef hands the message to its transport, and a       *)
(* VirtualPoolRef to its router, after tell or ask has returned Ok.        *)
(***************************************************************************)
EXTENDS Naturals, Sequences, SequencesExt, FiniteSets

CONSTANTS
    Members,    \* actors
    Relayed,    \* those that are reached through a reference that relays
    MaxRefs,    \* bound: references in a BroadcastRef (duplicates are allowed)
    MaxChanges  \* bound: membership changes

ASSUME BroadcastAssumption == Relayed \subseteq Members /\ MaxRefs \in Nat /\ MaxChanges \in Nat

VARIABLES
    refs,     \* BroadcastRef::refs
    group,    \* ProcessingGroup::members, keyed by actor id
    alive,    \* the actors that run
    call,     \* the broadcast under way or returned: kind and one entry per reference
    changes   \* membership changes so far

bvars == <<refs, group, alive, call, changes>>

NoCall == [kind |-> "none", entries |-> <<>>]
Entry(m) == [to |-> m, state |-> "unsent", receipt |-> "none", dead |-> FALSE, cancelled |-> FALSE]

BroadcastInit ==
    /\ refs = <<>> /\ group = {} /\ alive = Members /\ call = NoCall /\ changes = 0

Change == changes < MaxChanges /\ changes' = changes + 1 /\ call.kind = "none"

\* add() does not look for duplicates; remove() swaps the last reference into the place.
BroadcastAdd(m) ==
    /\ Change /\ Len(refs) < MaxRefs
    /\ refs' = Append(refs, m)
    /\ UNCHANGED <<group, alive, call>>

BroadcastRemove(m) ==
    /\ Change /\ m \in ToSet(refs)
    /\ LET pos == SelectInSeq(refs, LAMBDA r : r = m)
       IN  refs' = SubSeq([refs EXCEPT ![pos] = Last(refs)], 1, Len(refs) - 1)
    /\ UNCHANGED <<group, alive, call>>

GroupJoin(m)  == Change /\ group' = group \cup {m} /\ UNCHANGED <<refs, alive, call>>
GroupLeave(m) == Change /\ group' = group \ {m} /\ UNCHANGED <<refs, alive, call>>
GroupClear    == Change /\ group' = {} /\ UNCHANGED <<refs, alive, call>>

\* is_alive() of a reference that relays says nothing of the actor behind it.
PruneDead ==
    /\ Change
    /\ \E seen \in SUBSET Relayed : group' = group \cap ((alive \ Relayed) \cup seen)
    /\ UNCHANGED <<refs, alive, call>>

\* A snapshot of the group, in the order of a hash map.
ToBroadcast ==
    /\ call.kind = "none" /\ Cardinality(group) <= MaxRefs
    /\ refs' \in SetToSeqs(group)
    /\ UNCHANGED <<group, alive, call, changes>>

-----------------------------------------------------------------------------
Begin(kind) ==
    /\ call.kind = "none" /\ refs # <<>>
    /\ call' = [kind |-> kind, entries |-> [i \in DOMAIN refs |-> Entry(refs[i])]]
    /\ UNCHANGED <<refs, group, alive, changes>>

SetEntry(i, e) == call' = [call EXCEPT !.entries[i] = e] /\ UNCHANGED <<refs, group, alive, changes>>

NextUnsent(i) == call.entries[i].state = "unsent" /\ \A j \in 1 .. i - 1 : call.entries[j].state # "unsent"

\* A send that fails is a dead letter; a panic of the handler for them is caught.
EmitDeadLetter(e) == [e EXCEPT !.state = "refused", !.receipt = "send error", !.dead = TRUE]

\* One reference after the other is sent its clone of the message; a full mailbox
\* refuses it as well as an actor that has ended.  A reference that relays does not
\* know of the actor; it refuses what it cannot serialize, or a stopped router.
BroadcastSend(i) ==
    LET e == call.entries[i] IN
    /\ NextUnsent(i)
    /\ \/ /\ e.to \in alive \cup Relayed
          /\ SetEntry(i, [e EXCEPT !.state = "sent", !.receipt = IF call.kind = "tell" THEN "ok" ELSE @])
       \/ SetEntry(i, EmitDeadLetter(e))

\* The member handles the message, or ends with it in the mailbox.
MemberHandles(i) ==
    LET e == call.entries[i] IN
    /\ e.state = "sent" /\ e.to \in alive
    /\ \/ SetEntry(i, [e EXCEPT !.state = "handled"])
       \/ SetEntry(i, [e EXCEPT !.state = "failed"])

MemberEnds(m) ==
    /\ m \in alive
    /\ alive' = alive \ {m}
    /\ call' = [call EXCEPT !.entries =
                   [i \in DOMAIN call.entries |->
                       IF call.entries[i].to = m /\ call.entries[i].state = "sent"
                       THEN [call.entries[i] EXCEPT !.state = "dropped"] ELSE call.entries[i]]]
    /\ UNCHANGED <<refs, group, changes>>

AllSent == \A i \in DOMAIN call.entries : call.entries[i].state # "unsent"
Waiting(i) == call.kind = "ask" /\ AllSent /\ call.entries[i].receipt = "none"

\* RuntimeError::Send for a message that a member has worked on.
UnreadableReply(e) == [e EXCEPT !.receipt = "send error", !.dead = TRUE]

\* The future of one member: its answer, or its timeout, which also cancels the token.
\* RuntimeError::Send is a dead letter, any other error is not.  A reference that
\* relays resolves to it when the transport or the pool's worker refuses the message,
\* and a remote one also when it cannot read the reply.
AskAnswer(i) ==
    LET e == call.entries[i] IN
    /\ Waiting(i)
    /\ \/ e.state = "handled" /\ SetEntry(i, [e EXCEPT !.receipt = "ok"])
       \/ e.state \in {"failed", "dropped"} /\ SetEntry(i, [e EXCEPT !.receipt = "reply error"])
       \/ e.to \in Relayed /\ e.state \in {"sent", "dropped"} /\ SetEntry(i, EmitDeadLetter(e))
       \/ e.to \in Relayed /\ e.state \in {"handled", "failed"} /\ SetEntry(i, UnreadableReply(e))

\* Mutant: an answer that never comes is a dead letter.
AskTimeout_DeadLetter(i) ==
    Waiting(i) /\ SetEntry(i, [call.entries[i] EXCEPT !.receipt = "timeout", !.dead = TRUE])
AskTimeout(i) ==
    Waiting(i) /\ SetEntry(i, [call.entries[i] EXCEPT !.receipt = "timeout", !.cancelled = TRUE])

BroadcastNext ==
    \/ \E m \in Members : \/ BroadcastAdd(m) \/ BroadcastRemove(m) \/ GroupJoin(m) \/ GroupLeave(m)
                          \/ MemberEnds(m)
    \/ GroupClear \/ PruneDead \/ ToBroadcast
    \/ Begin("tell") \/ Begin("ask")
    \/ \E i \in DOMAIN call.entries :
          BroadcastSend(i) \/ MemberHandles(i) \/ AskAnswer(i) \/ AskTimeout(i)

\* The caller polls its futures and the clock runs; members need not answer.
BroadcastStep == \E i \in DOMAIN call.entries : BroadcastSend(i) \/ AskTimeout(i)

-----------------------------------------------------------------------------
\* A receipt says what happened: "ok" that the member has handled the message (or,
\* of a tell, that the reference took it), "timeout" that the token is cancelled, and
\* "reply error" that the message reached the member, which failed on it or dropped
\* it with its mailbox (the doc at broadcast.rs:61 says "The actor processed the
\* message").  A dead letter goes with "send error" and with nothing else.  No member
\* has worked on it if the reference delivers by itself; one that relays reports a
\* message as undelivered also when the reply to it could not be read.
ReceiptsAreTruthful ==
    \A i \in DOMAIN call.entries :
        LET e == call.entries[i]
        IN  /\ call.kind = "ask" /\ e.receipt = "ok" => e.state = "handled"
            /\ e.receipt = "timeout" => e.cancelled
            /\ e.dead <=> e.receipt = "send error"
            /\ e.receipt = "reply error" => e.state \in {"failed", "dropped"}
            /\ e.dead => e.state \in IF e.to \in Relayed THEN {"refused", "handled", "failed"} ELSE {"refused"}

\* A broadcast ask returns with a receipt for every member, though one of them is
\* stuck or dead: each has a timeout of its own.
BroadcastReturns ==
    call.kind = "ask" ~> \A i \in DOMAIN call.entries : call.entries[i].receipt # "none"
=============================================================================
