----------------------------- MODULE Supervision -----------------------------
(***************************************************************************)
(* The supervision strategies: each decides whether a failed child is      *)
(* restarted, within a budget of restarts per window of time.              *)
(***************************************************************************)
EXTENDS Naturals, Sequences, SequencesExt, FiniteSets, Retain

CONSTANTS
    Children,     \* child actors
    MaxRestarts,  \* max_restarts
    Within,       \* within, in clock units
    MaxTime,      \* bound: the clock
    MaxFailures,  \* bound: failures
    MaxRegistered \* bound: registrations, of one child again included

ASSUME SupervisionAssumption ==
    MaxRestarts \in Nat /\ Within \in Nat /\ MaxTime \in Nat /\ MaxFailures \in Nat /\ MaxRegistered \in Nat

Strategies == {"OneForOne", "AllForOne", "RestForOne"}

VARIABLES
    strategy,    \* which strategy supervises
    now,         \* Instant::now()
    timestamps,  \* RestartTracker: the restarts remembered, per child and for the group
    children,    \* RestForOne: the children in the order in which they were registered
    decisions    \* history: what was decided, for whom and when

svars == <<strategy, now, timestamps, children, decisions>>

Group == "group"

SupervisionInit ==
    /\ strategy \in Strategies
    /\ now = 0
    /\ timestamps = [k \in Children \cup {Group} |-> <<>>]
    /\ children = <<>>
    /\ decisions = <<>>

\* Whose budget pays: the child's own, or that of the whole group.
BudgetOf(c) == IF strategy = "OneForOne" THEN c ELSE Group

\* RestartTracker::record drops what is outside the window, then counts.
\* Mutant: a restart exactly at the edge of the window is dropped too.
InWindow_Open(k) ==
    Retain(timestamps[k], {i \in DOMAIN timestamps[k] : now - timestamps[k][i] < Within})
InWindow(k) ==
    Retain(timestamps[k], {i \in DOMAIN timestamps[k] : now - timestamps[k][i] <= Within})

\* RestForOne::children_to_restart: the child and all registered after it.
ChildrenToRestart(c) ==
    IF c \in ToSet(children)
    THEN ToSet(SubSeq(children, SelectInSeq(children, LAMBDA d : d = c), Len(children)))
    ELSE {c}

Affected(c) ==
    CASE strategy = "OneForOne" -> {c}
      [] strategy = "AllForOne" -> Children
      [] OTHER -> ChildrenToRestart(c)

OnChildFailed(c) ==
    LET k == BudgetOf(c)
        e == InWindow(k)
        restart == Len(e) < MaxRestarts
    IN  /\ Len(decisions) < MaxFailures
        /\ timestamps' = [timestamps EXCEPT ![k] = IF restart THEN Append(e, now) ELSE e]
        /\ decisions' = Append(decisions,
              [key |-> k, at |-> now, action |-> IF restart THEN "Restart" ELSE "Stop",
               children |-> IF restart THEN Affected(c) ELSE {c}])
        /\ UNCHANGED <<strategy, now, children>>

\* register_child pushes; it does not look whether the child is there already.
RegisterChild(c) ==
    /\ strategy = "RestForOne" /\ Len(children) < MaxRegistered
    /\ children' = Append(children, c)
    /\ UNCHANGED <<strategy, now, timestamps, decisions>>

Advances ==
    /\ now < MaxTime
    /\ now' = now + 1
    /\ UNCHANGED <<strategy, timestamps, children, decisions>>

SupervisionNext == Advances \/ \E c \in Children : OnChildFailed(c) \/ RegisterChild(c)

-----------------------------------------------------------------------------
\* The restarts of one budget in the closed window that ends with decision i.
RestartsBefore(i) ==
    {j \in 1 .. i - 1 : /\ decisions[j].key = decisions[i].key
                        /\ decisions[j].action = "Restart"
                        /\ decisions[i].at - decisions[j].at <= Within}

\* A child is restarted exactly while fewer than max_restarts restarts of its budget
\* fall into the window: no window, wherever it starts, holds more, and a stopped
\* child was not denied a restart the limit allows, though refusals are not recorded.
RestartBudgetIsExact ==
    \A i \in DOMAIN decisions :
        (decisions[i].action = "Restart") = (Cardinality(RestartsBefore(i)) < MaxRestarts)
=============================================================================
