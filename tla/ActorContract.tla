---------------------------- MODULE ActorContract ----------------------------
(***************************************************************************)
(* What an actor runtime promises to the users of an actor, without        *)
(* mailboxes, references or tasks: the lifecycle of an actor is one way,   *)
(* an actor works on one message at a time and on none once it is down,    *)
(* every message is worked on at most once, and what was accepted is       *)
(* eventually done or failed.                                              *)
(***************************************************************************)
CONSTANTS Actors, Msgs, None

VARIABLES
    life,   \* "none", "up" or "down" for each actor
    busy,   \* the message an actor is working on
    state   \* "new", "accepted", "running", "done" or "failed" for each message

vars == <<life, busy, state>>

Init ==
    /\ life = [a \in Actors |-> "none"]
    /\ busy = [a \in Actors |-> None]
    /\ state = [m \in Msgs |-> "new"]

Spawn(a) ==
    /\ life[a] = "none"
    /\ life' = [life EXCEPT ![a] = "up"]
    /\ UNCHANGED <<busy, state>>

\* A message is taken or turned away.
Submit(m) ==
    /\ state[m] = "new"
    /\ \E s \in {"accepted", "failed"} : state' = [state EXCEPT ![m] = s]
    /\ UNCHANGED <<life, busy>>

\* Work on a message begins only at an actor that is up and idle ...
Begin(a, m) ==
    /\ life[a] = "up" /\ busy[a] = None /\ state[m] = "accepted"
    /\ busy' = [busy EXCEPT ![a] = m]
    /\ state' = [state EXCEPT ![m] = "running"]
    /\ UNCHANGED life

\* ... and ends there; the failure of a message may take its actor down.
End(a, m) ==
    /\ busy[a] = m /\ state[m] = "running"
    /\ busy' = [busy EXCEPT ![a] = None]
    /\ \/ \E s \in {"done", "failed"} : state' = [state EXCEPT ![m] = s] /\ UNCHANGED life
       \/ /\ state' = [state EXCEPT ![m] = "failed"]
          /\ life' = [life EXCEPT ![a] = "down"]

\* An idle actor goes down, and accepted messages may fail with it ...
GoDown(a, M) ==
    /\ life[a] = "up" /\ busy[a] = None
    /\ \A m \in M : state[m] = "accepted"
    /\ life' = [life EXCEPT ![a] = "down"]
    /\ state' = [m \in Msgs |-> IF m \in M THEN "failed" ELSE state[m]]
    /\ UNCHANGED busy

\* ... or on their own: cancelled, rejected, or dropped with a mailbox.
Fail(M) ==
    /\ M # {} /\ \A m \in M : state[m] = "accepted"
    /\ state' = [m \in Msgs |-> IF m \in M THEN "failed" ELSE state[m]]
    /\ UNCHANGED <<life, busy>>

Next ==
    \/ \E a \in Actors : Spawn(a)
    \/ \E m \in Msgs : Submit(m)
    \/ \E a \in Actors, m \in Msgs : Begin(a, m) \/ End(a, m)
    \/ \E a \in Actors, M \in SUBSET Msgs : GoDown(a, M)
    \/ \E M \in SUBSET Msgs : Fail(M)

\* What was accepted does not stay so, and what runs comes to an end.
Progress ==
    \A m \in Msgs : (state[m] \in {"accepted", "running"}) ~> (state[m] \in {"done", "failed"})

Safety == Init /\ [][Next]_vars

Spec == Safety /\ Progress
=============================================================================
