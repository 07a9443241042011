---------------------------- MODULE CoerceNode ----------------------------
(***************************************************************************)
(* The control plane of CoerceRuntime: the router uses send and notify of  *)
(* the native actors.                                                      *)
(***************************************************************************)
EXTENDS SystemNode

CoerceCreate == Create("coerce")

CoerceStartSystemActors == runtime = "coerce" /\ StartSystemActors

\* Both the struct and every worker learn of a factory.
CoerceRegisterFactory(ty) == runtime = "coerce" /\ RegisterFactory(ty, TRUE)

CoerceHandleSpawnRequest(ty) == runtime = "coerce" /\ HandleSpawnRequest(ty)
CoerceSpawnLocal == runtime = "coerce" /\ SpawnLocal

\* The native actors.
CoerceSpawnManagerActor(w) == runtime = "coerce" /\ (WorkerRegisters(w) \/ WorkerSpawns(w))
CoerceWatchManagerActor  == runtime = "coerce" /\ WatchManagerActor
CoerceCancelManagerActor == runtime = "coerce" /\ CancelManagerActor
CoerceNodeDirectoryActor == runtime = "coerce" /\ NodeDirectoryActor

\* route_system_envelope, one disjunct per kind of envelope.
CoerceRoute(r) ==
    /\ runtime = "coerce"
    /\ \/ \E ty \in Types : RouteSpawn(r, ty)
       \/ \E t \in Targets, w \in Watchers : RouteWatch(r, t, w)
       \/ \E k \in Keys : RouteCancel(r, k)
       \/ \E p \in Peers, address \in Addrs \cup {Nil} : RoutePeer(r, p, address)

\* The synchronous API on the managers of the struct.
CoerceRemoteWatch ==
    /\ runtime = "coerce"
    /\ \E t \in Targets :
          \/ \E w \in Watchers : RemoteWatch(t, w) \/ RemoteUnwatch(t, w)
          \/ NotifyTerminated(t)

CoerceCancelRequests ==
    /\ runtime = "coerce"
    /\ \E k \in Keys : RegisterCancel(k) \/ CancelRequest(k) \/ CompleteRequest(k)

CoerceConnectPeer(p) ==
    /\ runtime = "coerce"
    /\ \E q \in Peers, address \in Addrs \cup {Nil} : ConnectAfterHandshake(p, q, address)

CoerceDisconnectPeer(p) == runtime = "coerce" /\ DisconnectPeer(p)

\* CoerceClusterEvents.
CoerceEmit(s)        == runtime = "coerce" /\ Deliver(s)
CoerceSubscribe(s)   == runtime = "coerce" /\ Subscribe(s)
CoerceUnsubscribe(s) == runtime = "coerce" /\ Unsubscribe(s)

CoerceSystemStep ==
    \/ \E w \in DOMAIN workers : CoerceSpawnManagerActor(w)
    \/ CoerceWatchManagerActor \/ CoerceCancelManagerActor \/ CoerceNodeDirectoryActor
    \/ \E s \in Subs : CoerceEmit(s)

CoerceCalls ==
    \/ CoerceStartSystemActors \/ CoerceSpawnLocal
    \/ \E ty \in Types : CoerceRegisterFactory(ty) \/ CoerceHandleSpawnRequest(ty)
    \/ \E r \in Reqs : CoerceRoute(r)
    \/ CoerceRemoteWatch \/ CoerceCancelRequests
    \/ \E p \in Peers : CoerceConnectPeer(p) \/ CoerceDisconnectPeer(p)
    \/ \E s \in Subs : CoerceSubscribe(s) \/ CoerceUnsubscribe(s)
=============================================================================
