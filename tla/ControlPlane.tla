---------------------------- MODULE ControlPlane ----------------------------
(***************************************************************************)
(* The control plane of a node of any of the three adapters with its       *)
(* callers: remote nodes whose envelopes are routed, and the integration   *)
(* layer that talks to the runtime and to the native actors.               *)
(***************************************************************************)
EXTENDS RactorNode, KameoNode, CoerceNode

SystemStep == RactorSystemStep \/ KameoSystemStep \/ CoerceSystemStep

IntegrationStep ==
    \/ \E t \in Targets : DirectTerminated(t)
    \/ \E k \in Keys : DirectToken(k)
    \/ \E r \in Reqs : GiveUp(r)

NodeInit == RactorCreate \/ KameoCreate \/ CoerceCreate
NodeNext == SystemStep \/ IntegrationStep \/ RactorCalls \/ KameoCalls \/ CoerceCalls

\* The native actors run whenever they have a message, and an emit finishes.
NodeSpec == NodeInit /\ [][NodeNext]_nvars /\ WF_nvars(SystemStep)

-----------------------------------------------------------------------------
NodeTypeOK ==
    /\ started \in BOOLEAN /\ next \in 1 .. MaxLocal + 1 /\ moves \in 0 .. MaxMoves
    /\ DOMAIN workers \subseteq 1 .. Pool
    /\ \A w \in DOMAIN workers : workers[w].manager.factories \subseteq Types
    /\ \A r \in Reqs : req[r].out \in Outcomes
    /\ native.watch \cup mgr.watch \subseteq Targets \X Watchers
    /\ \A p \in Peers : {mgr.dir[p].status, native.dir[p].status}
                           \subseteq {"none", "connecting", "connected", "disconnected"}
    /\ events.pending \subseteq events.made /\ events.subs \subseteq events.made

\* The ids handed out by local spawns, by the struct's SpawnManager and by every
\* native one are all different, and an id told to a remote caller is recorded by
\* exactly one manager: the counter is shared between them.
SpawnIdsAreUnique ==
    LET lists == [w \in DOMAIN workers |-> workers[w].manager.spawned]
        told  == {r \in Reqs : req[r].out = "completed"}
    IN  /\ NodeTypeOK
        /\ IsInjective(mgr.spawn.spawned)
        /\ ToSet(mgr.spawn.spawned) \cap hist.local = {}
        /\ \A w \in DOMAIN workers :
              /\ IsInjective(lists[w])
              /\ ToSet(lists[w]) \cap (hist.local \cup ToSet(mgr.spawn.spawned)) = {}
              /\ \A v \in DOMAIN workers \ {w} : ToSet(lists[w]) \cap ToSet(lists[v]) = {}
        /\ \A r \in told :
              /\ \E w \in DOMAIN workers : req[r].id \in ToSet(lists[w])
              /\ \A q \in told \ {r} : req[r].id # req[q].id

\* With ractor and coerce, a spawn routed after its type was registered on started
\* system actors finds the factory, whichever worker of the pool gets it.
RegisteredTypeIsFound ==
    runtime # "kameo" =>
        \A r \in Reqs : req[r].due = "known" => req[r].out # "unknown type"

\* The native actors act as if every envelope and message took effect when it was
\* routed, though they handle it later: the answers to cancels and the watchers to
\* notify are those of the routing order, and nothing is left over.
NativeKeepsPromises ==
    /\ IsPrefix(hist.told, hist.due)
    /\ \A r \in Reqs : req[r].out \in {"cancelled", "not found"} => req[r].out = req[r].due
    /\ box = <<>> =>
          /\ native.watch = hist.watch /\ native.dir = hist.dir /\ native.cancel = hist.tokens
          /\ hist.told = hist.due

\* Each subscriber hears of a peer's joining and leaving in turn, and once a call
\* has returned what it heard last agrees with the directory.
EventsFollowDirectory ==
    \A s \in Subs, p \in Peers :
        LET h == events.heard[s][p]
        IN  /\ \A i \in 1 .. Len(h) - 1 : h[i] # h[i + 1]
            /\ s \in events.subs /\ Quiet /\ h # <<>> =>
                  (Last(h) = "joined") = IsConnected(mgr.dir, p)

\* Only peers that speak the same MAJOR version and run the same adapter are
\* connected, and a peer is connected under its own name.  connect_peer() itself checks
\* nothing: this is what validate_handshake and verify_peer_identity are worth to
\* callers who ask them first, as ConnectAfterHandshake does.
ConnectedIsCompatible ==
    \A p \in Peers : IsConnected(mgr.dir, p) =>
        profile[p].major = 0 /\ profile[p].adapter = runtime

\* Spawns are sound: ids are unique, and a type that was registered with started system
\* actors is found.
SpawnsAreSound == SpawnIdsAreUnique /\ RegisteredTypeIsFound

\* The peers are sound: who is connected belongs here, and the subscribers know of it.
PeersAreSound == EventsFollowDirectory /\ ConnectedIsCompatible

\* A routed envelope is answered unless its caller gives up, also when the worker
\* that holds it dies of another request.
RouteIsAnswered == \A r \in Reqs : req[r].out = "awaiting" ~> req[r].out # "awaiting"
=============================================================================
