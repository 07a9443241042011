------------------------------ MODULE TestNode ------------------------------
(***************************************************************************)
(* One process of the test harness: the gRPC service of a TestNode, whose  *)
(* calls run side by side, over the CommandHandler of the ractor test node *)
(* (those of kameo and coerce are the same text).  The handler keeps its   *)
(* actors and its watches under a mutex each.  A call can be dropped at    *)
(* any await, when its client gives up.                                    *)
(***************************************************************************)
EXTENDS Naturals, Sequences, FiniteSets, Functions

CONSTANTS
    ActorNames,
    Rpcs,      \* the calls
    RpcOps,    \* the operations each of them may be: [op, name, to]
    Impatient, \* bound: the calls whose clients may give up
    MaxPolls,  \* bound: for the 100 times that stop_actor looks at the actor
    NoRpc

ASSUME TestNodeAssumption ==
    /\ MaxPolls \in Nat \ {0} /\ NoRpc \notin Rpcs
    /\ \A r \in Rpcs : \A o \in RpcOps[r] : o.name \in ActorNames /\ o.to \in ActorNames

VARIABLES
    server,      \* TestNode: has it a handler, does it serve, and its faults
    actorOf,     \* CommandHandler::actors: the instance under each name, 0 for none
    watching,    \* CommandHandler::watches, as <<watcher, target>>
    liveCount,   \* CommandHandler::live_count
    mutex,       \* who holds the mutex of the actors and that of the watches
    life,        \* the instances ever spawned: "alive", "stopping", or "dead" (out of
                 \* its loop, so that is_alive() is false; on_stop may still run)
    rpc,         \* the calls
    emitted,     \* how many events of each type were sent
    acked        \* history: the watches whose call has returned

nodevars == <<server, actorOf, watching, liveCount, mutex, life, rpc, emitted, acked>>

HandlerOps == {"spawn", "tell", "forward", "ask", "stop", "watch"}
EventTypes == {"actor_spawned", "actor_stopped", "actor_watch_registered", "fault_injected",
               "faults_cleared", "node_shutdown"}
NewRpc == [op |-> "none", name |-> NoRpc, to |-> NoRpc, pc |-> "idle", inst |-> 0, polls |-> 0,
           out |-> "none", due |-> {}, told |-> {}]

HandlerInit ==
    /\ actorOf = [n \in ActorNames |-> 0] /\ watching = {} /\ liveCount = 0
    /\ mutex = [actors |-> NoRpc, watches |-> NoRpc]

TestNodeInit ==
    /\ server \in [handler : BOOLEAN, serving : {TRUE}, faults : {{}}]
    /\ HandlerInit
    /\ life = <<>> /\ rpc = [r \in Rpcs |-> NewRpc]
    /\ emitted = [t \in EventTypes |-> 0] /\ acked = {}

-----------------------------------------------------------------------------
At(r, op, pc) == rpc[r].op = op /\ rpc[r].pc = pc
Serve(r, op)  == At(r, op, "start") /\ (op \in HandlerOps => server.handler)
Free(name)    == mutex[name] = NoRpc
Release(r)    == mutex' = [m \in DOMAIN mutex |-> IF mutex[m] = r THEN NoRpc ELSE mutex[m]]
Instance(r)   == actorOf[rpc[r].name]

Answer(r, out) == rpc' = [rpc EXCEPT ![r].pc = "done", ![r].out = out] /\ Release(r)
Goto(r, pc)    == rpc' = [rpc EXCEPT ![r].pc = pc] /\ UNCHANGED mutex
Still == UNCHANGED <<server, actorOf, watching, liveCount, life, emitted, acked>>
Emit(type) == emitted' = [emitted EXCEPT ![type] = @ + 1]

\* The instances that are to be told when the actor under name n stops.
WatchersOf(pairs, n) == {actorOf[p[1]] : p \in {q \in pairs : q[2] = n}} \ {0}

\* The server takes no more requests once it was notified of a shutdown.
TakesCalls == server.serving

\* A client sends one of its requests.
RpcBegins(r) ==
    /\ rpc[r].pc = "idle" /\ TakesCalls
    /\ \E o \in RpcOps[r] :
          rpc' = [rpc EXCEPT ![r] = [NewRpc EXCEPT !.op = o.op, !.name = o.name, !.to = o.to, !.pc = "start",
                                        !.due = IF o.op = "stop" THEN WatchersOf(acked, o.name) ELSE {}]]
    /\ UNCHANGED <<server, actorOf, watching, liveCount, mutex, life, emitted, acked>>

\* The service of a node without a handler.
Unimplemented(r) ==
    /\ rpc[r].pc = "start" /\ rpc[r].op \in HandlerOps /\ ~server.handler
    /\ Answer(r, "unimplemented")
    /\ Still

\* ping, get_node_info and custom_command change nothing.
ServeQuery(r) ==
    /\ Serve(r, "query")
    /\ Answer(r, "ok")
    /\ Still

AddFault(fs, target) == fs \cup {target}
HasFault(fs, target) == target \in fs

\* A partition of an actor.  Faults of other types are kept too and never looked up,
\* nor is the duration or the count of any.
InjectFault(r) ==
    /\ Serve(r, "inject")
    /\ server' = [server EXCEPT !.faults = AddFault(@, rpc[r].name)]
    /\ Emit("fault_injected") /\ Answer(r, "ok")
    /\ UNCHANGED <<actorOf, watching, liveCount, life, acked>>

ClearFaults(r) ==
    /\ Serve(r, "clear")
    /\ server' = [server EXCEPT !.faults = {}]
    /\ Emit("faults_cleared") /\ Answer(r, "ok")
    /\ UNCHANGED <<actorOf, watching, liveCount, life, acked>>

Shutdown(r) ==
    /\ Serve(r, "shutdown")
    /\ server' = [server EXCEPT !.serving = FALSE]
    /\ Emit("node_shutdown") /\ Answer(r, "ok")
    /\ UNCHANGED <<actorOf, watching, liveCount, life, acked>>

-----------------------------------------------------------------------------
\* spawn_actor first spawns and then looks whether the name is taken: the second
\* actor of that name runs on without a reference.
HandlerSpawns(r) ==
    /\ Serve(r, "spawn")
    /\ \/ Answer(r, "error") /\ UNCHANGED life
       \/ /\ life' = Append(life, "alive")
          /\ rpc' = [rpc EXCEPT ![r].pc = "spawned", ![r].inst = Len(life) + 1]
          /\ UNCHANGED mutex
    /\ UNCHANGED <<server, actorOf, watching, liveCount, emitted, acked>>

HandlerInserts(r) ==
    /\ At(r, "spawn", "spawned") /\ Free("actors")
    /\ IF Instance(r) # 0 THEN Answer(r, "error") /\ UNCHANGED <<actorOf, liveCount>>
       ELSE /\ actorOf' = [actorOf EXCEPT ![rpc[r].name] = rpc[r].inst]
            /\ liveCount' = liveCount + 1
            /\ Goto(r, "inserted")
    /\ UNCHANGED <<server, watching, life, emitted, acked>>

\* The handler has let go of its lock when the service announces the actor: a stop of
\* it may be announced before.
ServeSpawn(r) ==
    /\ At(r, "spawn", "inserted")
    /\ Emit("actor_spawned") /\ Answer(r, "ok")
    /\ UNCHANGED <<server, actorOf, watching, liveCount, life, acked>>

-----------------------------------------------------------------------------
\* A message is blocked by a fault on the actor it is addressed to.
PassesFaults(r) ==
    /\ IF HasFault(server.faults, rpc[r].name) THEN Answer(r, "blocked") ELSE Goto(r, "checked")
    /\ Still

ServeTell(r) == (Serve(r, "tell") \/ Serve(r, "forward")) /\ PassesFaults(r)
ServeAsk(r)  == Serve(r, "ask") /\ PassesFaults(r)

\* The tell is sent at once; a forward looks up its target first, whose faults nobody
\* asks for.  Payloads and message types may be bad.
TellActor(r) ==
    /\ At(r, "tell", "checked") \/ At(r, "forward", "checked") \/ At(r, "forward", "forwarding")
    /\ Free("actors")
    /\ LET inst == IF rpc[r].pc = "forwarding" THEN actorOf[rpc[r].to] ELSE Instance(r)
       IN  \/ Answer(r, "error")
           \/ inst # 0 /\ At(r, "forward", "checked") /\ Goto(r, "forwarding")
           \/ inst # 0 /\ ~At(r, "forward", "checked") /\ life[inst] # "dead" /\ Answer(r, "ok")
    /\ Still

AskActor(r) ==
    /\ At(r, "ask", "checked") /\ Free("actors")
    /\ \/ Answer(r, "error")
       \/ /\ Instance(r) # 0
          /\ rpc' = [rpc EXCEPT ![r].pc = "asked", ![r].inst = Instance(r)] /\ UNCHANGED mutex
    /\ Still

\* The reply, the error of an actor that has ended, or the timeout.
AskEnds(r) ==
    /\ At(r, "ask", "asked")
    /\ \/ life[rpc[r].inst] # "dead" /\ Answer(r, "ok")
       \/ life[rpc[r].inst] = "dead" /\ Answer(r, "error")
       \/ Answer(r, "timeout")
    /\ Still

-----------------------------------------------------------------------------
\* stop_actor: the name is free at once, the actor is polled until it has ended, ...
StopRemoves(r) ==
    LET inst == Instance(r)
    IN  /\ Serve(r, "stop") /\ Free("actors")
        /\ IF inst = 0 THEN Answer(r, "error") /\ UNCHANGED <<actorOf, life>>
           ELSE /\ actorOf' = [actorOf EXCEPT ![rpc[r].name] = 0]
                /\ life' = [life EXCEPT ![inst] = "stopping"]
                /\ rpc' = [rpc EXCEPT ![r].pc = "polling", ![r].inst = inst] /\ UNCHANGED mutex
        /\ UNCHANGED <<server, watching, liveCount, emitted, acked>>

\* Mutant: the actor that does not end in time still counts.
StopPolls_KeepsCount(r) ==
    /\ At(r, "stop", "polling")
    /\ \/ life[rpc[r].inst] = "dead" /\ Goto(r, "notify") /\ liveCount' = liveCount - 1
       \/ rpc[r].polls = MaxPolls /\ Answer(r, "error") /\ UNCHANGED liveCount
       \/ /\ life[rpc[r].inst] # "dead" /\ rpc[r].polls < MaxPolls
          /\ rpc' = [rpc EXCEPT ![r].polls = @ + 1] /\ UNCHANGED <<mutex, liveCount>>
    /\ UNCHANGED <<server, actorOf, watching, life, emitted, acked>>

\* Mutant: the watchers are told as soon as the actor was told to stop.
StopPolls_NoWait(r) ==
    /\ At(r, "stop", "polling")
    /\ Goto(r, "notify") /\ liveCount' = liveCount - 1
    /\ UNCHANGED <<server, actorOf, watching, life, emitted, acked>>

StopPolls(r) ==
    /\ At(r, "stop", "polling")
    /\ \/ /\ rpc[r].polls < MaxPolls /\ life[rpc[r].inst] = "dead"
          /\ Goto(r, "notify") /\ liveCount' = liveCount - 1
       \/ /\ rpc[r].polls < MaxPolls /\ life[rpc[r].inst] # "dead"
          /\ rpc' = [rpc EXCEPT ![r].polls = @ + 1] /\ UNCHANGED <<mutex, liveCount>>
       \/ rpc[r].polls = MaxPolls /\ Answer(r, "error") /\ liveCount' = liveCount - 1
    /\ UNCHANGED <<server, actorOf, watching, life, emitted, acked>>

\* ... and its watchers are collected under both locks, the watches' first.
StopLocksWatches(r) ==
    /\ At(r, "stop", "notify") /\ Free("watches")
    /\ mutex' = [mutex EXCEPT !.watches = r] /\ rpc' = [rpc EXCEPT ![r].pc = "collect"]
    /\ Still

\* The service announces the end of the actor.
ServeStop(r, told) ==
    /\ rpc' = [rpc EXCEPT ![r].pc = "done", ![r].out = "ok", ![r].told = told]
    /\ Release(r) /\ Emit("actor_stopped")

StopNotifies(r) ==
    /\ At(r, "stop", "collect") /\ Free("actors")
    /\ ServeStop(r, WatchersOf(watching, rpc[r].name))
    /\ UNCHANGED <<server, actorOf, watching, liveCount, life, acked>>

-----------------------------------------------------------------------------
\* Both actors must be there, which the second step no longer knows.
WatchChecks(r) ==
    /\ Serve(r, "watch") /\ Free("actors")
    /\ IF Instance(r) = 0 \/ actorOf[rpc[r].to] = 0 THEN Answer(r, "error") ELSE Goto(r, "enter")
    /\ Still

ServeWatch(r) == Emit("actor_watch_registered") /\ Answer(r, "ok")

WatchEnters(r) ==
    LET pair == <<rpc[r].name, rpc[r].to>>
    IN  /\ At(r, "watch", "enter") /\ Free("watches")
        /\ watching' = watching \cup {pair} /\ acked' = acked \cup {pair}
        /\ ServeWatch(r)
        /\ UNCHANGED <<server, actorOf, liveCount, life>>

-----------------------------------------------------------------------------
\* A client gives up: the future of its call is dropped with the locks it holds.  No
\* await lies between the insertion of an actor and its announcement.
RpcDropped(r) ==
    /\ r \in Impatient /\ rpc[r].pc \notin {"idle", "inserted"} /\ rpc[r].out = "none"
    /\ rpc' = [rpc EXCEPT ![r].out = "dropped", ![r].pc = IF @ = "polling" THEN "unpolled" ELSE "done"]
    /\ Release(r)
    /\ Still

\* An actor that was told to stop ends, after whatever it still handles.
CounterEnds(i) ==
    /\ life[i] = "stopping"
    /\ life' = [life EXCEPT ![i] = "dead"]
    /\ UNCHANGED <<server, actorOf, watching, liveCount, mutex, rpc, emitted, acked>>

NodeStep ==
    \E r \in Rpcs :
        \/ Unimplemented(r) \/ ServeQuery(r) \/ InjectFault(r) \/ ClearFaults(r) \/ Shutdown(r)
        \/ HandlerSpawns(r) \/ HandlerInserts(r) \/ ServeSpawn(r) \/ ServeTell(r) \/ ServeAsk(r)
        \/ TellActor(r) \/ AskActor(r)
        \/ StopRemoves(r) \/ StopPolls(r) \/ StopLocksWatches(r) \/ StopNotifies(r)
        \/ WatchChecks(r) \/ WatchEnters(r)

TestNodeNext ==
    \/ NodeStep
    \/ \E r \in Rpcs : RpcBegins(r) \/ AskEnds(r) \/ RpcDropped(r)
    \/ \E i \in DOMAIN life : CounterEnds(i)

-----------------------------------------------------------------------------
Registered == {n \in ActorNames : actorOf[n] # 0}

\* The accounts of a node agree although calls overlap and are dropped half way: the
\* count that get_node_info reports is that of the registered actors and of those
\* that a stop has taken out but not yet seen end (a dropped stop never does), and a
\* subscriber who counts actor_spawned less actor_stopped is off only by the spawns
\* not yet announced and by the stops that failed, were dropped or are under way.
AccountsAreExact ==
    LET taken     == {r \in Rpcs : rpc[r].op = "stop" /\ rpc[r].inst # 0}
        entered   == {r \in Rpcs : At(r, "spawn", "inserted")}
        uncounted == {r \in taken : rpc[r].pc \in {"polling", "unpolled"}}
    IN  /\ liveCount = Cardinality(Registered) + Cardinality(uncounted)
        /\ emitted["actor_spawned"] + Cardinality(entered) =
              emitted["actor_stopped"] + Cardinality(Registered)
                 + Cardinality({r \in taken : rpc[r].out # "ok"})
        /\ IsInjective(Restrict(actorOf, Registered))

\* When stop_actor returns, the actor is out of its loop and every watcher whose watch_actor
\* had returned before the stop was called has been told, if it is still there; and
\* only actors for which such a watch was entered are told.
StopTellsWatchers ==
    \A r \in Rpcs : rpc[r].op = "stop" /\ rpc[r].out = "ok" =>
        /\ life[rpc[r].inst] = "dead"
        /\ rpc[r].due \cap Range(actorOf) \subseteq rpc[r].told
        /\ \A n \in Registered : actorOf[n] \in rpc[r].told => <<n, rpc[r].name>> \in acked

\* A node comes to rest: every call is answered or dropped, save an ask without a
\* timeout, so no two calls wait for each other's mutex.
NodeComesToRest ==
    LET busy(r) == rpc[r].pc \notin {"idle", "done", "unpolled", "asked"}
    IN  (\E r \in Rpcs : busy(r)) ~> (\A r \in Rpcs : ~busy(r))
=============================================================================
