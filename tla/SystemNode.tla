----------------------------- MODULE SystemNode -----------------------------
(***************************************************************************)
(* The control plane of one node: the managers in the runtime's own struct *)
(* (synchronous API, &mut self), the same managers as native actors with   *)
(* mailboxes, the router that delivers system envelopes to the native      *)
(* ones, and the cluster events.  The runtimes of the three adapters are   *)
(* built from these pieces in RactorNode, KameoNode and CoerceNode.        *)
(*                                                                         *)
(* A route_system_envelope() that awaits an answer borrows the runtime, so *)
(* no &mut self method runs until it returns or its caller gives it up.    *)
(***************************************************************************)
EXTENDS SystemActors

CONSTANTS
    MaxReqs,    \* bound: envelopes routed
    Pool,       \* spawn_manager_pool_size
    Subs,       \* subscriptions to the cluster events, each made once
    Majors,     \* MAJOR wire versions of the peers; this node's is 0
    MaxLocal,   \* bound: actor ids handed out
    MaxMoves,   \* bound: calls of the integration layer
    Parts       \* bound: the managers used in one behaviour, which share no state

ASSUME SystemNodeAssumption ==
    /\ Pool \in Nat \ {0} /\ MaxReqs \in Nat /\ MaxLocal \in Nat /\ MaxMoves \in Nat
    /\ Parts \subseteq {"spawn", "watch", "cancel", "peers", "directory", "struct"}
    /\ Nil \notin Types \cup Targets \cup Watchers \cup Keys \cup Peers \cup Addrs
    /\ Nil \notin Nat

VARIABLES
    runtime,  \* which of the runtimes this is
    part,     \* the managers this behaviour uses
    started,  \* system_actors is Some
    next,     \* next_local, shared by the runtime and the native spawn managers
    mgr,      \* the managers of the struct
    workers,  \* native SpawnManagerActors: manager, mailbox, alive
    native,   \* the native WatchManager, CancelManager and NodeDirectory actors
    box,      \* their mailboxes as one (a behaviour uses one of them)
    turn,     \* counter of the pool
    req,      \* routed envelopes and their outcome
    moves,    \* calls of the integration layer so far
    events,   \* cluster events: subscribers, the emit under way, what was heard
    profile,  \* what each peer answers in a handshake
    hist      \* history, for the properties: what was registered, routed and answered

nvars == <<runtime, part, started, next, mgr, workers, native, box, turn, req, moves, events,
           profile, hist>>

NewWorker == [manager |-> NewSpawnManager, box |-> <<>>, up |-> TRUE]
NewNative == [watch |-> {}, cancel |-> NewCancelManager, dir |-> NewNodeDirectory]

Reqs == 1 .. MaxReqs

Outcomes == {"none", "awaiting", "completed", "unknown type", "bad arguments", "acknowledged",
             "cancelled", "not found", "error", "given up"}

Own == [node |-> Nil, wire |-> [major |-> 0], adapter |-> runtime]
Answers(p) == [node |-> p, wire |-> [major |-> profile[p].major], adapter |-> profile[p].adapter]

Create(ad) ==
    /\ runtime = ad
    /\ part \in Parts
    /\ started = FALSE
    /\ next = 1
    /\ mgr = [spawn |-> NewSpawnManager, watch |-> {}, cancel |-> NewCancelManager,
              dir |-> NewNodeDirectory]
    /\ workers = <<>>
    /\ native = NewNative
    /\ box = <<>>
    /\ turn = 0
    /\ req = [r \in Reqs |-> [out |-> "none", id |-> 0, due |-> "none"]]
    /\ moves = 0
    /\ events = [subs |-> {}, made |-> {}, pending |-> {}, peer |-> Nil, news |-> "none",
                 heard |-> [s \in Subs |-> [p \in Peers |-> <<>>]]]
    /\ profile \in [Peers -> IF part = "peers" THEN [major : Majors, adapter : {ad, "other"}]
                                                ELSE {[major |-> 0, adapter |-> ad]}]
    /\ hist = [local |-> {}, since |-> {}, watch |-> {}, dir |-> NewNodeDirectory,
               tokens |-> NewCancelManager, due |-> <<>>, told |-> <<>>, cancelled |-> {}]

\* The integration layer makes one of the calls it may make.
Move == moves < MaxMoves /\ moves' = moves + 1

\* Envelopes are numbered in the order in which they are routed.
Fresh(r) == req[r].out = "none" /\ \A q \in 1 .. r - 1 : req[q].out # "none"

\* No borrow of the runtime by a route that still waits for its answer.
Exclusive == \A r \in Reqs : req[r].out # "awaiting"

\* No callback of an emit is left to run: connect_peer and disconnect_peer have returned.
Quiet == events.pending = {}

\* start_system_actors.  (Bound: it is called once.  A second call puts new actors in
\* place of the old ones, which forget what was acknowledged: see README.)
StartSystemActors ==
    /\ ~started /\ Exclusive /\ Quiet
    /\ started' = TRUE
    /\ workers' = [w \in 1 .. Pool |-> NewWorker]
    /\ UNCHANGED <<runtime, part, next, mgr, native, box, turn, req, moves, events, profile, hist>>

\* The caller of a route gives up: its answer goes nowhere.
GiveUp(r) ==
    /\ req[r].out = "awaiting"
    /\ req' = [req EXCEPT ![r].out = "given up"]
    /\ UNCHANGED <<runtime, part, started, next, mgr, workers, native, box, turn, moves, events, profile, hist>>

\* An answer to a route that may have been given up.
Answered(r, out) == IF req[r].out = "awaiting" THEN [req[r] EXCEPT !.out = out] ELSE req[r]

-----------------------------------------------------------------------------
\* Spawning.

\* A factory registration is sent to every worker of the pool.
\* Mutant: it goes through the pool's round robin.
TellWorkers_RoundRobin(ty) ==
    [workers EXCEPT ![(turn % Pool) + 1].box = Append(@, [op |-> "register", ty |-> ty])]
TellWorkers(ty) ==
    [w \in DOMAIN workers |->
        IF workers[w].up THEN [workers[w] EXCEPT !.box = Append(@, [op |-> "register", ty |-> ty])]
                         ELSE workers[w]]

\* register_factory of a runtime that tells its native workers too, or does not.
RegisterFactory(ty, tellsNative) ==
    /\ part = "spawn" /\ Exclusive /\ Move
    /\ mgr' = [mgr EXCEPT !.spawn = AddFactory(@, ty)]
    /\ workers' = IF started /\ tellsNative THEN TellWorkers(ty) ELSE workers
    /\ hist' = [hist EXCEPT !.since = IF started THEN @ \cup {ty} ELSE @]
    /\ UNCHANGED <<runtime, part, started, next, native, box, turn, req, events, profile>>

\* handle_spawn_request on the struct: the id is pre-assigned and recorded.
HandleSpawnRequest(ty) ==
    /\ part = "spawn" /\ Exclusive
    /\ next <= MaxLocal
    /\ "actor" \in CreateActor(mgr.spawn, ty)
    /\ mgr' = [mgr EXCEPT !.spawn = RecordSpawn(@, next)]
    /\ next' = next + 1
    /\ UNCHANGED <<runtime, part, started, workers, native, box, turn, req, moves, events, profile, hist>>

\* A local spawn takes an id of the same counter.
SpawnLocal ==
    /\ part = "spawn" /\ next <= MaxLocal
    /\ hist' = [hist EXCEPT !.local = @ \cup {next}]
    /\ next' = next + 1
    /\ UNCHANGED <<runtime, part, started, mgr, workers, native, box, turn, req, moves, events, profile>>

\* A spawn envelope goes to the next worker of the pool; the route waits for the answer.
\* Without system actors, or with a body that cannot be decoded, a route is an error.
RouteSpawn(r, ty) ==
    LET w == (turn % Pool) + 1
        entry(out) == [out |-> out, id |-> 0,
                       due |-> CASE ty \in hist.since -> "known"
                                 [] ty \in mgr.spawn.factories -> "known before start"
                                 [] OTHER -> "unknown"]
    IN  /\ part = "spawn" /\ Fresh(r)
        /\ \/ /\ req' = [req EXCEPT ![r] = entry("error")]
              /\ UNCHANGED <<turn, workers>>
           \/ /\ started
              /\ turn' = turn + 1
              /\ IF workers[w].up
                 THEN /\ workers' = [workers EXCEPT ![w].box =
                                        Append(@, [op |-> "spawn", ty |-> ty, req |-> r])]
                      /\ req' = [req EXCEPT ![r] = entry("awaiting")]
                 ELSE /\ req' = [req EXCEPT ![r] = entry("error")]
                      /\ UNCHANGED workers
        /\ UNCHANGED <<runtime, part, started, next, mgr, native, box, moves, events, profile, hist>>

\* A worker registers a factory.
WorkerRegisters(w) ==
    /\ workers[w].up /\ workers[w].box # <<>> /\ Head(workers[w].box).op = "register"
    /\ workers' = [workers EXCEPT ![w].box = Tail(@),
                                  ![w].manager = AddFactory(@, Head(workers[w].box).ty)]
    /\ UNCHANGED <<runtime, part, started, next, mgr, native, box, turn, req, moves, events, profile, hist>>

\* The routes whose requests are dropped with the mailbox of a worker.
\* Mutant: only the request that is being handled.
DroppedReplies_Current(w) == {Head(workers[w].box).req}
DroppedReplies(w) ==
    {workers[w].box[i].req : i \in {j \in DOMAIN workers[w].box : workers[w].box[j].op = "spawn"}}

\* A worker runs the factory; the panic of a factory ends the worker, and the
\* routes whose requests it still holds learn that their reply was dropped.
WorkerSpawns(w) ==
    LET item == Head(workers[w].box)
    IN  /\ workers[w].up /\ workers[w].box # <<>> /\ item.op = "spawn"
        /\ \/ /\ "actor" \in CreateActor(workers[w].manager, item.ty)
              /\ next <= MaxLocal
              /\ workers' = [workers EXCEPT ![w].box = Tail(@),
                                            ![w].manager = RecordSpawn(@, next)]
              /\ next' = next + 1
              /\ req' = [req EXCEPT ![item.req] = [Answered(item.req, "completed") EXCEPT !.id = next]]
           \/ /\ workers' = [workers EXCEPT ![w].box = Tail(@)]
              /\ req' = [req EXCEPT ![item.req] = Answered(item.req,
                            IF item.ty \in workers[w].manager.factories THEN "bad arguments"
                            ELSE "unknown type")]
              /\ UNCHANGED next
           \/ /\ "panic" \in CreateActor(workers[w].manager, item.ty)
              /\ workers' = [workers EXCEPT ![w].box = <<>>, ![w].up = FALSE]
              /\ req' = [r \in Reqs |-> IF r \in DroppedReplies(w) THEN Answered(r, "error") ELSE req[r]]
              /\ UNCHANGED next
        /\ UNCHANGED <<runtime, part, started, mgr, native, box, turn, moves, events, profile, hist>>

-----------------------------------------------------------------------------
\* Watching, cancelling and the directory: what the router delivers.

\* A tell-style envelope is acknowledged when it is in the mailbox.  hist keeps
\* what a caller may conclude from the acknowledgement.
RouteTell(r, item, promised) ==
    /\ Fresh(r)
    /\ \/ /\ req' = [req EXCEPT ![r].out = "error"]
          /\ UNCHANGED <<box, hist>>
       \/ /\ started
          /\ box' = Append(box, item)
          /\ req' = [req EXCEPT ![r].out = "acknowledged"]
          /\ hist' = promised
    /\ UNCHANGED <<runtime, part, started, next, mgr, workers, native, turn, moves, events, profile>>

RouteWatch(r, t, w) ==
    /\ part = "watch"
    /\ \/ RouteTell(r, [op |-> "watch", t |-> t, w |-> w], [hist EXCEPT !.watch = @ \cup {<<t, w>>}])
       \/ RouteTell(r, [op |-> "unwatch", t |-> t, w |-> w], [hist EXCEPT !.watch = @ \ {<<t, w>>}])

\* The entry a caller may count on once its connect is acknowledged: an address that
\* is not given is kept.
PromisedEntry(p, address) ==
    [status |-> "connected", address |-> IF address = Nil THEN hist.dir[p].address ELSE address]

RoutePeer(r, p, address) ==
    /\ part = "directory"
    /\ \/ RouteTell(r, [op |-> "connect", p |-> p, address |-> address],
             [hist EXCEPT !.dir[p] = PromisedEntry(p, address)])
       \/ RouteTell(r, [op |-> "disconnect", p |-> p],
             [hist EXCEPT !.dir[p].status = IF @ = "none" THEN @ ELSE "disconnected"])

\* A cancel envelope waits for the answer of the CancelManager; one without a request
\* id is an error too.
RouteCancel(r, k) ==
    /\ part = "cancel" /\ Fresh(r)
    /\ \/ /\ req' = [req EXCEPT ![r].out = "error"]
          /\ UNCHANGED <<box, hist>>
       \/ /\ started
          /\ box' = Append(box, [op |-> "cancel", k |-> k, req |-> r])
          /\ req' = [req EXCEPT ![r].out = "awaiting",
                     ![r].due = IF hist.tokens[k] = Nil THEN "not found" ELSE "cancelled"]
          /\ hist' = [hist EXCEPT !.tokens[k] = Nil]
    /\ UNCHANGED <<runtime, part, started, next, mgr, workers, native, turn, moves, events, profile>>

\* The integration layer tells the native actors directly.
Direct(item, promised) ==
    /\ started /\ Move
    /\ box' = Append(box, item)
    /\ hist' = promised
    /\ UNCHANGED <<runtime, part, started, next, mgr, workers, native, turn, req, events, profile>>

DirectTerminated(t) ==
    /\ part = "watch"
    /\ Direct([op |-> "terminated", t |-> t],
              [hist EXCEPT !.watch = {s \in @ : s[1] # t},
                           !.due = Append(@, {s \in hist.watch : s[1] = t})])

DirectToken(k) ==
    /\ part = "cancel"
    /\ \/ Direct([op |-> "token", k |-> k, token |-> moves], [hist EXCEPT !.tokens[k] = moves])
       \/ Direct([op |-> "complete", k |-> k], [hist EXCEPT !.tokens[k] = Nil])

\* A native actor handles its next message.
Handles(op) == box # <<>> /\ Head(box).op = op /\ box' = Tail(box)

WatchManagerActor ==
    /\ LET item == Head(box) IN
       \/ /\ Handles("watch")
          /\ native' = [native EXCEPT !.watch = SubscribeWatch(@, item.t, item.w)]
          /\ UNCHANGED hist
       \/ /\ Handles("unwatch")
          /\ native' = [native EXCEPT !.watch = UnsubscribeWatch(@, item.t, item.w)]
          /\ UNCHANGED hist
       \/ /\ Handles("terminated")
          /\ native' = [native EXCEPT !.watch = OnTerminated(@, item.t).left]
          /\ hist' = [hist EXCEPT !.told = Append(@, OnTerminated(native.watch, item.t).notify)]
    /\ UNCHANGED <<runtime, part, started, next, mgr, workers, turn, req, moves, events, profile>>

CancelManagerActor ==
    /\ LET item == Head(box) IN
       \/ /\ Handles("token")
          /\ native' = [native EXCEPT !.cancel = RegisterToken(@, item.k, item.token)]
          /\ UNCHANGED <<req, hist>>
       \/ /\ Handles("complete")
          /\ native' = [native EXCEPT !.cancel = RemoveToken(@, item.k)]
          /\ UNCHANGED <<req, hist>>
       \/ /\ Handles("cancel")
          /\ LET done == Cancel(native.cancel, item.k) IN
             /\ native' = [native EXCEPT !.cancel = done.left]
             /\ req' = [req EXCEPT ![item.req] = Answered(item.req, done.answer)]
             /\ hist' = [hist EXCEPT !.cancelled = @ \cup ({done.token} \ {Nil})]
    /\ UNCHANGED <<runtime, part, started, next, mgr, workers, turn, moves, events, profile>>

NodeDirectoryActor ==
    /\ LET item == Head(box) IN
       \/ /\ Handles("connect")
          /\ native' = [native EXCEPT !.dir = Connected(@, item.p, item.address)]
       \/ /\ Handles("disconnect")
          /\ native' = [native EXCEPT !.dir = Disconnected(@, item.p)]
    /\ UNCHANGED <<runtime, part, started, next, mgr, workers, turn, req, moves, events, profile, hist>>

-----------------------------------------------------------------------------
\* The managers of the struct: one call, one step.

StructCall(m) ==
    /\ Exclusive /\ Move
    /\ mgr' = m
    /\ UNCHANGED <<runtime, part, started, next, workers, native, box, turn, req, events, profile, hist>>

RemoteWatch(t, w)   == part = "struct" /\ StructCall([mgr EXCEPT !.watch = SubscribeWatch(@, t, w)])
RemoteUnwatch(t, w) == part = "struct" /\ StructCall([mgr EXCEPT !.watch = UnsubscribeWatch(@, t, w)])
NotifyTerminated(t) == part = "struct" /\ StructCall([mgr EXCEPT !.watch = OnTerminated(@, t).left])

RegisterCancel(k)  == part = "struct" /\ StructCall([mgr EXCEPT !.cancel = RegisterToken(@, k, moves)])
CancelRequest(k)   == part = "struct" /\ StructCall([mgr EXCEPT !.cancel = Cancel(@, k).left])
CompleteRequest(k) == part = "struct" /\ StructCall([mgr EXCEPT !.cancel = RemoveToken(@, k)])

\* emit() calls back every subscriber there is at this moment, one after the other.
Emit(p, news) == [events EXCEPT !.pending = @ \cup events.subs, !.peer = p, !.news = news]

\* Mutant: every connect is announced.
ConnectPeer_Announces(p, address) ==
    /\ part = "peers" /\ Exclusive /\ Quiet /\ Move
    /\ mgr' = [mgr EXCEPT !.dir = Connected(@, p, address)]
    /\ events' = Emit(p, "joined")
    /\ UNCHANGED <<runtime, part, started, next, workers, native, box, turn, req, profile, hist>>

\* connect_peer announces a peer that was not connected.
ConnectPeer(p, address) ==
    /\ part = "peers" /\ Exclusive /\ Quiet /\ Move
    /\ mgr' = [mgr EXCEPT !.dir = Connected(@, p, address)]
    /\ events' = IF IsConnected(mgr.dir, p) THEN events ELSE Emit(p, "joined")
    /\ UNCHANGED <<runtime, part, started, next, workers, native, box, turn, req, profile, hist>>

DisconnectPeer(p) ==
    /\ part = "peers" /\ Exclusive /\ Quiet /\ Move
    /\ mgr' = [mgr EXCEPT !.dir = Disconnected(@, p)]
    /\ events' = IF IsConnected(mgr.dir, p) THEN Emit(p, "left") ELSE events
    /\ UNCHANGED <<runtime, part, started, next, workers, native, box, turn, req, profile, hist>>

\* What the integration layer does before connect_peer: q answers for p.
ConnectAfterHandshake(p, q, address) ==
    LET response == ValidateHandshake(Answers(q), Own)
    IN  /\ response.verdict = "accepted"
        /\ VerifyPeerIdentity(p, response)
        /\ ConnectPeer(p, address)

\* The next callback of the emit under way; it may belong to a subscription that
\* was removed in the meantime, and a callback that panics is caught.
Deliver(s) ==
    /\ s \in events.pending
    /\ events' = [events EXCEPT !.pending = @ \ {s}, !.heard[s][events.peer] = Append(@, events.news)]
    /\ UNCHANGED <<runtime, part, started, next, mgr, workers, native, box, turn, req, moves, profile, hist>>

\* Any thread, and any callback, may subscribe and unsubscribe at any time.
Subscribe(s) ==
    /\ part = "peers" /\ s \notin events.made
    /\ events' = [events EXCEPT !.subs = @ \cup {s}, !.made = @ \cup {s}]
    /\ UNCHANGED <<runtime, part, started, next, mgr, workers, native, box, turn, req, moves, profile, hist>>

Unsubscribe(s) ==
    /\ s \in events.subs
    /\ events' = [events EXCEPT !.subs = @ \ {s}]
    /\ UNCHANGED <<runtime, part, started, next, mgr, workers, native, box, turn, req, moves, profile, hist>>
=============================================================================
