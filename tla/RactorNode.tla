---------------------------- MODULE RactorNode ----------------------------
(***************************************************************************)
(* The control plane of RactorRuntime: the router casts to native actors   *)
(* and waits on a oneshot; the spawn managers may be a round-robin pool.   *)
(***************************************************************************)
EXTENDS SystemNode

RactorCreate == Create("ractor")

RactorStartSystemActors == runtime = "ractor" /\ StartSystemActors

\* Both the struct and every worker of the pool learn of a factory.
RactorRegisterFactory(ty) == runtime = "ractor" /\ RegisterFactory(ty, TRUE)

RactorHandleSpawnRequest(ty) == runtime = "ractor" /\ HandleSpawnRequest(ty)
RactorSpawnLocal == runtime = "ractor" /\ SpawnLocal

\* The native actors.
RactorSpawnManagerActor(w) == runtime = "ractor" /\ (WorkerRegisters(w) \/ WorkerSpawns(w))
RactorWatchManagerActor  == runtime = "ractor" /\ WatchManagerActor
RactorCancelManagerActor == runtime = "ractor" /\ CancelManagerActor
RactorNodeDirectoryActor == runtime = "ractor" /\ NodeDirectoryActor

\* route_system_envelope, one disjunct per kind of envelope.
RactorRoute(r) ==
    /\ runtime = "ractor"
    /\ \/ \E ty \in Types : RouteSpawn(r, ty)
       \/ \E t \in Targets, w \in Watchers : RouteWatch(r, t, w)
       \/ \E k \in Keys : RouteCancel(r, k)
       \/ \E p \in Peers, address \in Addrs \cup {Nil} : RoutePeer(r, p, address)

\* The synchronous API on the managers of the struct.
RactorRemoteWatch ==
    /\ runtime = "ractor"
    /\ \E t \in Targets :
          \/ \E w \in Watchers : RemoteWatch(t, w) \/ RemoteUnwatch(t, w)
          \/ NotifyTerminated(t)

RactorCancelRequests ==
    /\ runtime = "ractor"
    /\ \E k \in Keys : RegisterCancel(k) \/ CancelRequest(k) \/ CompleteRequest(k)

RactorConnectPeer(p) ==
    /\ runtime = "ractor"
    /\ \E q \in Peers, address \in Addrs \cup {Nil} : ConnectAfterHandshake(p, q, address)

RactorDisconnectPeer(p) == runtime = "ractor" /\ DisconnectPeer(p)

\* RactorClusterEvents.
RactorEmit(s)        == runtime = "ractor" /\ Deliver(s)
RactorSubscribe(s)   == runtime = "ractor" /\ Subscribe(s)
RactorUnsubscribe(s) == runtime = "ractor" /\ Unsubscribe(s)

RactorSystemStep ==
    \/ \E w \in DOMAIN workers : RactorSpawnManagerActor(w)
    \/ RactorWatchManagerActor \/ RactorCancelManagerActor \/ RactorNodeDirectoryActor
    \/ \E s \in Subs : RactorEmit(s)

RactorCalls ==
    \/ RactorStartSystemActors \/ RactorSpawnLocal
    \/ \E ty \in Types : RactorRegisterFactory(ty) \/ RactorHandleSpawnRequest(ty)
    \/ \E r \in Reqs : RactorRoute(r)
    \/ RactorRemoteWatch \/ RactorCancelRequests
    \/ \E p \in Peers : RactorConnectPeer(p) \/ RactorDisconnectPeer(p)
    \/ \E s \in Subs : RactorSubscribe(s) \/ RactorUnsubscribe(s)
=============================================================================
