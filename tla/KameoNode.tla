---------------------------- MODULE KameoNode ----------------------------
(***************************************************************************)
(* The control plane of KameoRuntime: the router uses ask and tell of the  *)
(* native actors.                                                          *)
(***************************************************************************)
EXTENDS SystemNode

KameoCreate == Create("kameo")

KameoStartSystemActors == runtime = "kameo" /\ StartSystemActors

\* Only the struct learns of a factory: nothing sends the workers RegisterFactory.
KameoRegisterFactory(ty) == runtime = "kameo" /\ RegisterFactory(ty, FALSE)

KameoHandleSpawnRequest(ty) == runtime = "kameo" /\ HandleSpawnRequest(ty)
KameoSpawnLocal == runtime = "kameo" /\ SpawnLocal

\* The native actors.
KameoSpawnManagerActor(w) == runtime = "kameo" /\ (WorkerRegisters(w) \/ WorkerSpawns(w))
KameoWatchManagerActor  == runtime = "kameo" /\ WatchManagerActor
KameoCancelManagerActor == runtime = "kameo" /\ CancelManagerActor
KameoNodeDirectoryActor == runtime = "kameo" /\ NodeDirectoryActor

\* route_system_envelope, one disjunct per kind of envelope.
KameoRoute(r) ==
    /\ runtime = "kameo"
    /\ \/ \E ty \in Types : RouteSpawn(r, ty)
       \/ \E t \in Targets, w \in Watchers : RouteWatch(r, t, w)
       \/ \E k \in Keys : RouteCancel(r, k)
       \/ \E p \in Peers, address \in Addrs \cup {Nil} : RoutePeer(r, p, address)

\* The synchronous API on the managers of the struct.
KameoRemoteWatch ==
    /\ runtime = "kameo"
    /\ \E t \in Targets :
          \/ \E w \in Watchers : RemoteWatch(t, w) \/ RemoteUnwatch(t, w)
          \/ NotifyTerminated(t)

KameoCancelRequests ==
    /\ runtime = "kameo"
    /\ \E k \in Keys : RegisterCancel(k) \/ CancelRequest(k) \/ CompleteRequest(k)

KameoConnectPeer(p) ==
    /\ runtime = "kameo"
    /\ \E q \in Peers, address \in Addrs \cup {Nil} : ConnectAfterHandshake(p, q, address)

KameoDisconnectPeer(p) == runtime = "kameo" /\ DisconnectPeer(p)

\* KameoClusterEvents.
KameoEmit(s)        == runtime = "kameo" /\ Deliver(s)
KameoSubscribe(s)   == runtime = "kameo" /\ Subscribe(s)
KameoUnsubscribe(s) == runtime = "kameo" /\ Unsubscribe(s)

KameoSystemStep ==
    \/ \E w \in DOMAIN workers : KameoSpawnManagerActor(w)
    \/ KameoWatchManagerActor \/ KameoCancelManagerActor \/ KameoNodeDirectoryActor
    \/ \E s \in Subs : KameoEmit(s)

KameoCalls ==
    \/ KameoStartSystemActors \/ KameoSpawnLocal
    \/ \E ty \in Types : KameoRegisterFactory(ty) \/ KameoHandleSpawnRequest(ty)
    \/ \E r \in Reqs : KameoRoute(r)
    \/ KameoRemoteWatch \/ KameoCancelRequests
    \/ \E p \in Peers : KameoConnectPeer(p) \/ KameoDisconnectPeer(p)
    \/ \E s \in Subs : KameoSubscribe(s) \/ KameoUnsubscribe(s)
=============================================================================
