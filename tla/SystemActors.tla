---------------------------- MODULE SystemActors ----------------------------
(***************************************************************************)
(* The four managers of dactor's control plane, as values with operators:  *)
(* SpawnManager, WatchManager, CancelManager and NodeDirectory, and the    *)
(* version handshake that precedes a connection.  A node holds each of     *)
(* them twice: in the runtime itself and inside a native actor.            *)
(***************************************************************************)
EXTENDS Naturals, Sequences, SequencesExt, FiniteSets

CONSTANTS
    Types,     \* actor type names
    Targets,   \* local actors that remote actors watch
    Watchers,  \* the remote actors that watch
    Keys,      \* request ids of cancellable operations
    Peers,     \* peer nodes
    Addrs,     \* endpoint addresses
    Nil

-----------------------------------------------------------------------------
NewSpawnManager == [factories |-> {}, spawned |-> <<>>]

\* TypeRegistry::create_actor: the type must be known; a factory may refuse the
\* argument bytes, and it is user code that may panic.
CreateActor(m, ty) == IF ty \in m.factories THEN {"actor", "error", "panic"} ELSE {"error"}

AddFactory(m, ty)  == [m EXCEPT !.factories = @ \cup {ty}]
RecordSpawn(m, id) == [m EXCEPT !.spawned = Append(@, id)]

-----------------------------------------------------------------------------
\* A WatchManager is the set of its <<target, watcher>> subscriptions.
\* Mutant: the subscriptions of a dead actor are kept.
OnTerminated_Keeps(ws, t) == [left |-> ws, notify |-> {s \in ws : s[1] = t}]

SubscribeWatch(ws, t, w) == ws \cup {<<t, w>>}
UnsubscribeWatch(ws, t, w) == ws \ {<<t, w>>}
OnTerminated(ws, t) == [left |-> {s \in ws : s[1] # t}, notify |-> {s \in ws : s[1] = t}]

-----------------------------------------------------------------------------
\* A CancelManager maps a request id to its token; Nil if there is none.
NewCancelManager   == [k \in Keys |-> Nil]
RegisterToken(c, k, token) == [c EXCEPT ![k] = token]
RemoveToken(c, k)  == [c EXCEPT ![k] = Nil]
Cancel(c, k)       == [left |-> RemoveToken(c, k), token |-> c[k],
                       answer |-> IF c[k] = Nil THEN "not found" ELSE "cancelled"]

-----------------------------------------------------------------------------
\* A NodeDirectory maps a peer to its status ("none": not known) and address.
NewNodeDirectory == [p \in Peers |-> [status |-> "none", address |-> Nil]]
AddPeer(d, p, address) == [d EXCEPT ![p] = [status |-> "connecting", address |-> address]]
RemovePeer(d, p)       == [d EXCEPT ![p] = [status |-> "none", address |-> Nil]]
SetStatus(d, p, st)    == IF d[p].status = "none" THEN d ELSE [d EXCEPT ![p].status = st]
IsConnected(d, p)      == d[p].status = "connected"

\* What both connect_peer and the native ConnectPeer do: an address that is not
\* given is kept from the existing entry.
Connected(d, p, address) ==
    LET resolved == IF address = Nil THEN d[p].address ELSE address
    IN  SetStatus(AddPeer(RemovePeer(d, p), p, resolved), p, "connected")

Disconnected(d, p) == SetStatus(d, p, "disconnected")

-----------------------------------------------------------------------------
\* WireVersion: the same MAJOR version is compatible.
IsCompatible(v, u) == v.major = u.major

\* What `local' answers to the request of `remote'.
ValidateHandshake(local, remote) ==
    CASE ~IsCompatible(local.wire, remote.wire) ->
            [verdict |-> "rejected", node |-> local.node, reason |-> "protocol"]
      [] IsCompatible(local.wire, remote.wire) /\ local.adapter # remote.adapter ->
            [verdict |-> "rejected", node |-> local.node, reason |-> "adapter"]
      [] OTHER -> [verdict |-> "accepted", node |-> local.node, reason |-> "none"]

\* A rejection needs no identity check: it verifies too.
VerifyPeerIdentity(expected, response) ==
    response.verdict = "accepted" => response.node = expected
=============================================================================
