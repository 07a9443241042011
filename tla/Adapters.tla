------------------------------ MODULE Adapters ------------------------------
(***************************************************************************)
(* One of the three framework runtimes with its users, and what all of     *)
(* them promise: the contract of an actor, as the test runtime does.       *)
(***************************************************************************)
EXTENDS RactorActor, KameoActor, CoerceActor

ActorStep(a) ==
    \/ adapter = "ractor" /\ RactorActorStep(a)
    \/ adapter = "kameo" /\ KameoActorStep(a)
    \/ adapter = "coerce" /\ CoerceActorStep(a)
    \/ CloseInbox(a)

ForwarderStep(a) ==
    \/ adapter = "ractor" /\ RactorForward(a)
    \/ adapter = "kameo" /\ KameoForward(a)
    \/ adapter = "coerce" /\ CoerceForward(a)

UserStep ==
    \/ adapter = "ractor" /\ RactorUserStep
    \/ adapter = "kameo" /\ KameoUserStep
    \/ adapter = "coerce" /\ CoerceUserStep
    \/ \E m \in Msgs : CancelToken(m)

Init == \E ad \in {"ractor", "kameo", "coerce"} : AInit(ad)
Next == UserStep \/ \E a \in Actors : ActorStep(a) \/ ForwarderStep(a)

\* tokio runs the tasks that can run; handlers and hooks return, and the abort of
\* a kameo actor arrives.
Fairness == \A a \in Actors : WF_avars(ActorStep(a)) /\ WF_avars(ForwarderStep(a))

Spec == Init /\ [][Next]_avars /\ Fairness

\* The refinement mapping: the life and the work of an actor, the state of a message.
ContractLife ==
    [a \in Actors |-> IF ~Spawned(a) THEN "none" ELSE IF act[a].phase \in Down THEN "down" ELSE "up"]
ContractBusy ==
    [a \in Actors |-> IF act[a].phase = "handling" /\ act[a].cur \in Msgs THEN act[a].cur ELSE None]
ContractState ==
    [m \in Msgs |-> CASE msg[m].fate = "new" -> "new"
                      [] msg[m].fate \in {"queued", "current"} -> "accepted"
                      [] msg[m].fate = "entered" -> "running"
                      [] msg[m].fate = "handled" -> "done"
                      [] OTHER -> "failed"]

Contract ==
    INSTANCE ActorContract WITH life <- ContractLife, busy <- ContractBusy, state <- ContractState

-----------------------------------------------------------------------------
\* A caller whose reply or stream is open and empty waits for something: its message
\* is in a front channel whose forwarder runs, in an inbox that is open, or in the
\* hands of an actor.  About the forwarder, the inbox and the loop each dropping
\* what they hold when another of them goes first.
CallerIsServed ==
    /\ ATypeOK
    /\ \A m \in Msgs : msg[m].reply = "waiting" =>
          \E a \in Actors :
              \/ act[a].fwd = "up" /\ m \in ToSet(act[a].front)
              \/ act[a].open /\ m \in ToSet(act[a].inbox)
              \/ act[a].phase \in {"admitted", "handling"} /\ act[a].cur = m

\* A message the dead letter handler was given is not worked on, now or later: a
\* handler that forwards dead letters to a retry queue does not duplicate work.
DeadLetterIsUndelivered ==
    [][\A m \in Msgs : msg[m].dead => msg'[m].fate = "failed" /\ msg'[m].dead]_avars

\* Every framework runtime implements the contract of an actor.
AdapterImplementsContract == Contract!Spec

\* stop() terminates an actor, bounded mailbox or not, whatever is queued: unlike
\* that of the test runtime it does not compete with messages for a place.
AdapterStopTerminates ==
    \A a \in Actors : act[a].halt ~> (act[a].phase \in {"ended", "crashed"} /\ ~act[a].open)
=============================================================================
