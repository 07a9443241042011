---------------------------- MODULE TestHarness ----------------------------
(***************************************************************************)
(* TestCluster and its builder: one process per node is launched, reached  *)
(* through its control port, called, and killed and reaped in the end.  A  *)
(* client holds a port, not a process.  Several clusters are built one     *)
(* after the other with the same ports, as a suite of tests does.          *)
(***************************************************************************)
EXTENDS Naturals, Sequences, SequencesExt, FiniteSets

CONSTANTS
    NodeNames,   \* node ids
    Plans,       \* what a builder is given: sequences of [id, port]
    MaxTries,    \* bound: for the 50 attempts to connect
    MaxClusters  \* bound: clusters built

ASSUME TestHarnessAssumption ==
    /\ MaxTries \in Nat \ {0} /\ MaxClusters \in Nat
    /\ \A p \in Plans : p \in Seq([id : NodeNames, port : Nat]) /\ p # <<>>

VARIABLES
    cluster,  \* the TestCluster or its builder
    handles,  \* TestCluster::nodes: the process of each node id, 0 for none
    procs,    \* every process launched: id, port, state, and whether its handle was
              \* dropped without a kill
    reply     \* the last call: the process of the handle and the one that answered

hvars == <<cluster, handles, procs, reply>>

NoHandles == [n \in NodeNames |-> 0]
NoReply   == [own |-> 0, from |-> 0]

HarnessInit ==
    /\ cluster = [phase |-> "ended", plan |-> <<>>, at |-> 0, tries |-> 0, todo |-> {}, reaping |-> 0,
                  then |-> "ended", built |-> 0]
    /\ handles = NoHandles /\ procs = <<>> /\ reply = NoReply

-----------------------------------------------------------------------------
InPhase(p) == cluster.phase = p
PlanEntry(i)   == cluster.plan[i]
Newest     == Len(procs)
Owned      == {handles[n] : n \in NodeNames} \ {0}

\* A killed process holds its port until it is dead.
Listening(port) == {p \in DOMAIN procs : procs[p].port = port /\ procs[p].state \in {"serving", "killed"}}

\* The handles of these processes are dropped; a Child that is dropped runs on.
Leak(ps) == procs' = [p \in DOMAIN procs |->
                         IF p \in ps THEN [procs[p] EXCEPT !.leaked = TRUE] ELSE procs[p]]

\* Each process of ps is killed and waited for, then the cluster is in phase next.
Close(ps, next) == [cluster EXCEPT !.phase = IF ps = {} THEN next ELSE "closing", !.todo = ps, !.then = next]

Build(plan) ==
    /\ InPhase("ended") /\ cluster.built < MaxClusters
    /\ cluster' = [cluster EXCEPT !.phase = "launch", !.plan = plan, !.at = 1, !.built = @ + 1]
    /\ handles' = NoHandles /\ reply' = NoReply
    /\ UNCHANGED procs

LaunchFails ==
    /\ InPhase("launch")
    /\ cluster' = Close(Owned, "ended")
    /\ UNCHANGED <<handles, procs, reply>>

Launch ==
    /\ InPhase("launch")
    /\ procs' = Append(procs, [id |-> PlanEntry(cluster.at).id, port |-> PlanEntry(cluster.at).port,
                               state |-> "starting", leaked |-> FALSE])
    /\ cluster' = [cluster EXCEPT !.phase = "connect", !.tries = 0]
    /\ UNCHANGED <<handles, reply>>

\* Whoever listens on the port is taken for the new node.  A second node of the same
\* id replaces the handle of the first.
Connect ==
    LET e == PlanEntry(cluster.at)
    IN  /\ InPhase("connect") /\ Listening(e.port) # {}
        /\ Leak({handles[e.id]})
        /\ handles' = [handles EXCEPT ![e.id] = Newest]
        /\ cluster' = [cluster EXCEPT !.at = @ + 1,
                          !.phase = IF cluster.at = Len(cluster.plan) THEN "ready" ELSE "launch"]
        /\ UNCHANGED reply

ConnectFails ==
    /\ InPhase("connect") /\ Listening(PlanEntry(cluster.at).port) = {}
    /\ cluster' = IF cluster.tries + 1 < MaxTries THEN [cluster EXCEPT !.tries = @ + 1]
                  ELSE Close(Owned \cup {Newest}, "ended")
    /\ UNCHANGED <<handles, procs, reply>>

\* The future of build() is dropped while it waits: nobody kills what it has launched.
BuildDropped ==
    /\ InPhase("connect")
    /\ Leak(Owned \cup {Newest})
    /\ handles' = NoHandles
    /\ cluster' = [cluster EXCEPT !.phase = "ended"]
    /\ UNCHANGED reply

-----------------------------------------------------------------------------
\* kill() and wait(), one process after the other.
Kill(p) ==
    /\ InPhase("closing") /\ cluster.reaping = 0 /\ p \in cluster.todo
    /\ cluster' = [cluster EXCEPT !.reaping = p]
    /\ procs' = [procs EXCEPT ![p].state = IF @ \in {"exited", "gone"} THEN @ ELSE "killed"]
    /\ UNCHANGED <<handles, reply>>

Reaped(p) == Close(cluster.todo \ {p}, cluster.then)

\* Mutant: a killed process is not waited for.
Wait_Skipped ==
    /\ InPhase("closing") /\ cluster.reaping # 0
    /\ cluster' = [Reaped(cluster.reaping) EXCEPT !.reaping = 0]
    /\ UNCHANGED <<handles, procs, reply>>

Wait ==
    /\ InPhase("closing") /\ cluster.reaping # 0
    /\ procs[cluster.reaping].state \in {"exited", "gone"}
    /\ procs' = [procs EXCEPT ![cluster.reaping].state = "gone"]
    /\ cluster' = [Reaped(cluster.reaping) EXCEPT !.reaping = 0]
    /\ UNCHANGED <<handles, reply>>

\* Every call of the cluster goes to the port of the handle of its node.
Call(id) ==
    /\ InPhase("ready") /\ handles[id] # 0
    /\ LET there == Listening(procs[handles[id]].port)
       IN  \/ \E p \in there : reply' = [own |-> handles[id], from |-> p]
           \/ there = {} /\ reply' = [own |-> handles[id], from |-> 0]
    /\ UNCHANGED <<cluster, handles, procs>>

\* shutdown_node: the request, whose outcome is ignored, then the kill.  The handle stays.
ShutdownNode(id) ==
    /\ InPhase("ready") /\ handles[id] # 0
    /\ cluster' = Close({handles[id]}, "ready")
    /\ LET there == Listening(procs[handles[id]].port)
       IN  \/ \E p \in there : procs' = [procs EXCEPT ![p].state = IF @ = "serving" THEN "draining" ELSE @]
           \/ UNCHANGED procs
    /\ reply' = NoReply
    /\ UNCHANGED handles

DropCluster ==
    /\ InPhase("ready")
    /\ cluster' = Close(Owned, "ended")
    /\ reply' = NoReply
    /\ UNCHANGED <<handles, procs>>

-----------------------------------------------------------------------------
\* The process binds its port, or ends with an error if it is taken; it may also
\* crash, and it ends when its last calls have after a shutdown request.
ProcessBinds(p) ==
    /\ procs[p].state = "starting"
    /\ procs' = [procs EXCEPT ![p].state = IF Listening(procs[p].port) = {} THEN "serving" ELSE "exited"]
    /\ UNCHANGED <<cluster, handles, reply>>

ProcessExits(p) ==
    /\ procs[p].state \in {"starting", "serving", "draining"}
    /\ procs' = [procs EXCEPT ![p].state = "exited"]
    /\ UNCHANGED <<cluster, handles, reply>>

ProcessDies(p) ==
    /\ procs[p].state = "killed"
    /\ procs' = [procs EXCEPT ![p].state = "gone"]
    /\ UNCHANGED <<cluster, handles, reply>>

HarnessStep ==
    \/ Launch \/ LaunchFails \/ Connect \/ ConnectFails \/ Wait
    \/ \E p \in DOMAIN procs : Kill(p) \/ ProcessDies(p)

HarnessNext ==
    \/ HarnessStep
    \/ \E plan \in Plans : Build(plan)
    \/ BuildDropped \/ DropCluster
    \/ \E id \in NodeNames : Call(id) \/ ShutdownNode(id)
    \/ \E p \in DOMAIN procs : ProcessBinds(p) \/ ProcessExits(p)

-----------------------------------------------------------------------------
Leaked == {p \in DOMAIN procs : procs[p].leaked}
SharesPort == \E i, j \in DOMAIN cluster.plan : i # j /\ PlanEntry(i).port = PlanEntry(j).port

\* No process outlives its cluster, whether it was dropped or its build panicked half
\* way, unless the future of build() was dropped or two nodes have one id; and as
\* long as none does, calls are answered by the node they are made to, although
\* cluster after cluster uses the same ports.
ProcessesAreOwned ==
    /\ InPhase("ended") => \A p \in DOMAIN procs \ Leaked : procs[p].state = "gone"
    /\ reply.from # 0 /\ ~SharesPort /\ Leaked = {} => reply.from = reply.own

\* A build ends with a cluster or with a panic, and a cluster that is dropped is gone.
BuildsEnd == cluster.phase \in {"launch", "connect", "closing"} ~> cluster.phase \in {"ready", "ended"}
=============================================================================
