---------------------------- MODULE Coordination ----------------------------
(***************************************************************************)
(* Pools, broadcasts, supervision, timers, remote references over their    *)
(* transport, metrics, and the two sides of the test harness, each beside  *)
(* the others: they share no state, so a behaviour exercises one of them.  *)
(***************************************************************************)
EXTENDS Pool, Broadcast, Supervision, Timers, RemoteRef, Metrics, TestHarness, TestNode

CONSTANT Units  \* bound: the components checked

VARIABLE unit   \* the component this behaviour exercises

cvars == <<unit, pvars, bvars, svars, tvars, rvars, mvars, hvars, nodevars>>

Only(u, step, others) == unit = u /\ step /\ UNCHANGED <<unit, others>>

Idle == pool = [kind |-> "direct", routing |-> "RoundRobin", counter |-> 0, alive |-> TRUE,
                router |-> "idle"]

Init ==
    /\ unit \in Units
    /\ PoolInit /\ BroadcastInit /\ SupervisionInit /\ TimersInit /\ TransportInit /\ MetricsInit
    /\ HarnessInit /\ TestNodeInit
    /\ unit = "pool" \/ Idle
    /\ unit = "supervision" \/ strategy = "OneForOne"
    /\ unit = "timer" \/ (timer.kind = "interval" /\ ~timer.remote)
    /\ unit = "node" \/ server.handler

PoolUnit(step)        == Only("pool", step, <<bvars, svars, tvars, rvars, mvars, hvars, nodevars>>)
BroadcastUnit(step)   == Only("broadcast", step, <<pvars, svars, tvars, rvars, mvars, hvars, nodevars>>)
SupervisionUnit(step) == Only("supervision", step, <<pvars, bvars, tvars, rvars, mvars, hvars, nodevars>>)
TimerUnit(step)       == Only("timer", step, <<pvars, bvars, svars, rvars, mvars, hvars, nodevars>>)
RemoteUnit(step)      == Only("remote", step, <<pvars, bvars, svars, tvars, mvars, hvars, nodevars>>)
MetricsUnit(step)     == Only("metrics", step, <<pvars, bvars, svars, tvars, rvars, hvars, nodevars>>)
HarnessUnit(step)     == Only("harness", step, <<pvars, bvars, svars, tvars, rvars, mvars, nodevars>>)
NodeUnit(step)        == Only("node", step, <<pvars, bvars, svars, tvars, rvars, mvars, hvars>>)

Next ==
    \/ PoolUnit(PoolNext)
    \/ BroadcastUnit(BroadcastNext)
    \/ SupervisionUnit(SupervisionNext)
    \/ TimerUnit(TimersNext)
    \/ RemoteUnit(RemoteNext)
    \/ MetricsUnit(MetricsNext)
    \/ HarnessUnit(HarnessNext)
    \/ NodeUnit(TestNodeNext)

\* Tasks that can run do run; handlers return and time passes.  Actors that are
\* sent a broadcast need not answer, nor nodes that are sent a request; but nodes take
\* what is in their channels.  A killed process dies; one that starts need not get
\* ready, nor an actor that is stopped end.  As a behaviour exercises one component, the
\* fairness of the components' steps is that of their disjunction.
UnitStep ==
    \/ PoolUnit(PoolStep)
    \/ BroadcastUnit(BroadcastStep)
    \/ TimerUnit(TimerTick)
    \/ RemoteUnit(TransportStep)
    \/ HarnessUnit(HarnessStep)
    \/ NodeUnit(NodeStep)

Fairness == WF_cvars(UnitStep) /\ WF_cvars(TimerUnit(TimerSelect)) /\ WF_cvars(TimerUnit(TimerTell))

Spec == Init /\ [][Next]_cvars /\ Fairness

-----------------------------------------------------------------------------
\* Nobody hangs: the caller of a pool gets an answer, an error or an empty stream at
\* least, also when the router of a virtual pool goes, unless its request to a remote
\* worker is lost on the way, which nothing in the code notices; a broadcast ask
\* returns though a member is stuck; the task of a timer ends with its token or its
\* local actor; a send gets past the one lock of the transport; a test cluster is
\* built or given up; and the calls of a test node get past its two locks.
CallersAreServed ==
    PoolAnswers /\ BroadcastReturns /\ TimerEnds /\ SendsReturn /\ BuildsEnd /\ NodeComesToRest
=============================================================================
