----------------------------- MODULE Transport -----------------------------
(***************************************************************************)
(* InMemoryTransport with its request table, the BatchedTransportSender    *)
(* and the TransportRegistry in front of it.                               *)
(*                                                                         *)
(* send() holds the routes lock, a fair mutex, until the channel of the    *)
(* target has room: `lock' is the queue of the sends that hold it (the     *)
(* first) or wait for it.  A parcel is what one send() carries: an         *)
(* envelope, or the batch that a sender or a flush took out of a buffer;   *)
(* one without items is a register_node that waits for the lock.           *)
(***************************************************************************)
EXTENDS Naturals, Sequences, SequencesExt, FiniteSets, Functions

CONSTANTS
    Nodes,            \* the nodes sent to
    Envelopes,        \* envelopes, each sent once
    Target,           \* per envelope: its node
    Modes,            \* per envelope: the ways in which it may be sent
    ChannelSize,      \* capacity of a node's channel (256)
    MaxItems,         \* BatchConfig::max_items
    MaxRegistrations  \* bound: register_node calls, per node

ASSUME TransportAssumption ==
    /\ IsFiniteSet(Nodes) /\ Target \in [Envelopes -> Nodes]
    /\ Modes \in [Envelopes -> SUBSET {"tell", "ask", "stream", "batch", "registry"}]
    /\ ChannelSize \in Nat \ {0} /\ MaxItems \in Nat \ {0} /\ MaxRegistrations \in [Nodes -> Nat]

VARIABLES
    route,       \* per node: its registrations; the last one is in the routes
    channel,     \* per registration: whether its receiver exists, what is in it
    lock,        \* parcels whose send() holds or awaits the routes lock
    pending,     \* requests with an entry in the pending table
    env,         \* the envelopes: mode, where they are, the answer to an ask
    buffers,     \* per node: BatchedTransportSender::buffers
    batches,     \* batches taken out of a buffer, whose send() has not begun
    flush,       \* the batches that a flush call has still to send
    registered   \* nodes with a transport in the TransportRegistry

rvars == <<route, channel, lock, pending, env, buffers, batches, flush, registered>>

NewEnvelope == [mode |-> "none", stage |-> "new", reply |-> "none", token |-> FALSE]

\* The channels that there may be, and whether a node's route leads to a receiver.
Links == UNION {{n} \X (1 .. MaxRegistrations[n]) : n \in Nodes}
Link(n) == <<n, route[n]>>
Routed(n) == Link(n) \in Links /\ channel[Link(n)].up

TransportInit ==
    /\ route = [n \in Nodes |-> 0]
    /\ channel = [x \in Links |-> [up |-> FALSE, q |-> <<>>]]
    /\ lock = <<>> /\ pending = {}
    /\ env = [e \in Envelopes |-> NewEnvelope]
    /\ buffers = [n \in Nodes |-> <<>>]
    /\ batches = {} /\ flush = <<>>
    /\ registered = Nodes

Moved(es, stage) == [e \in Envelopes |-> IF e \in es THEN [env[e] EXCEPT !.stage = stage] ELSE env[e]]
Parcel(items, by) == [items |-> items, by |-> by]

\* register_node comes to the lock.  (Bound: one at a time for a node.)
RegisterNode(n) ==
    /\ route[n] < MaxRegistrations[n] /\ \A i \in DOMAIN lock : lock[i].by # n
    /\ lock' = Append(lock, Parcel(<<>>, n))
    /\ UNCHANGED <<route, channel, pending, env, buffers, batches, flush, registered>>

\* With the lock it puts the sender of a new channel in place of the one before, whose
\* receiver keeps what it has.
RouteInserted ==
    LET n == Head(lock).by
    IN  /\ lock # <<>> /\ Head(lock).items = <<>>
        /\ lock' = Tail(lock)
        /\ route' = [route EXCEPT ![n] = @ + 1]
        /\ channel' = [channel EXCEPT ![<<n, route[n] + 1>>].up = TRUE]
        /\ UNCHANGED <<pending, env, buffers, batches, flush, registered>>

\* A receiver is dropped with what is in its channel.
ReceiverGone(x) ==
    /\ channel[x].up
    /\ channel' = [channel EXCEPT ![x] = [up |-> FALSE, q |-> <<>>]]
    /\ env' = Moved(UNION {ToSet(p.items) : p \in ToSet(channel[x].q)}, "lost")
    /\ UNCHANGED <<route, lock, pending, buffers, batches, flush, registered>>

-----------------------------------------------------------------------------
\* What a failed send() does to the envelopes of its parcel.  Only a request has
\* somebody who waits for its own fate; a batch fails as a whole, and whoever sent or
\* flushed it has the error.
Failed(e) ==
    [env[e] EXCEPT !.stage = "failed", !.reply = IF env[e].mode = "ask" THEN "error" ELSE @]
AllFailed(es) == [e \in Envelopes |-> IF e \in es THEN Failed(e) ELSE env[e]]

\* Mutant: the lock is not released when there is no one to send to.
TransportSend_KeepsLock ==
    LET p == Head(lock)
        n == Target[Head(p.items)]
    IN  /\ lock # <<>> /\ p.items # <<>> /\ Routed(n) /\ Len(channel[Link(n)].q) < ChannelSize
        /\ lock' = Tail(lock)
        /\ channel' = [channel EXCEPT ![Link(n)].q = Append(@, p)]
        /\ env' = Moved(ToSet(p.items), "queued")
        /\ UNCHANGED <<route, pending, buffers, batches, flush, registered>>

\* The send that holds the routes lock: no route, or no receiver any more, is an
\* error; into a full channel it waits, and keeps the lock.
TransportSend ==
    LET p == Head(lock)
        n == Target[Head(p.items)]
    IN  /\ lock # <<>> /\ p.items # <<>>
        /\ lock' = Tail(lock)
        /\ \/ /\ Routed(n) /\ Len(channel[Link(n)].q) < ChannelSize
              /\ channel' = [channel EXCEPT ![Link(n)].q = Append(@, p)]
              /\ env' = Moved(ToSet(p.items), "queued")
              /\ UNCHANGED pending
           \/ /\ ~Routed(n)
              /\ env' = AllFailed(ToSet(p.items))
              /\ pending' = pending \ ToSet(p.items)
              /\ UNCHANGED channel
        /\ UNCHANGED <<route, buffers, batches, flush, registered>>

\* A receiver takes an envelope, or unpacks a batch.
Receive(x) ==
    /\ channel[x].q # <<>>
    /\ channel' = [channel EXCEPT ![x].q = Tail(@)]
    /\ env' = Moved(ToSet(Head(channel[x].q).items), "received")
    /\ UNCHANGED <<route, lock, pending, buffers, batches, flush, registered>>

\* complete_request: the entry is taken; the reply goes to whoever still waits for it.
CompleteRequest(e) ==
    /\ env[e].stage = "received" /\ e \in pending
    /\ pending' = pending \ {e}
    /\ env' = [env EXCEPT ![e].stage = IF env[e].reply = "waiting" THEN "replied" ELSE @]
    /\ UNCHANGED <<route, channel, lock, buffers, batches, flush, registered>>

-----------------------------------------------------------------------------
\* Taken out of a buffer, the envelopes of es are on their way.
Taken(e, es) ==
    [x \in Envelopes |->
        IF x = e \/ x \in es
        THEN [env[x] EXCEPT !.mode = "batch", !.stage = IF x \in es THEN "sending" ELSE "buffered"]
        ELSE env[x]]

\* BatchedTransportSender::send, which takes tells only: push, and at max_items take
\* the buffer out; the lock on the buffers is given back before the batch is sent.
\* Mutant: the batch is a copy, and the buffer is left to the next flush.
SendBatched_Copies(e) ==
    LET n == Target[e]
        full == Append(buffers[n], e)
        due  == Len(full) >= MaxItems
    IN  /\ "batch" \in Modes[e] /\ env[e].stage = "new"
        /\ env' = Taken(e, IF due THEN ToSet(full) ELSE {})
        /\ buffers' = [buffers EXCEPT ![n] = full]
        /\ batches' = IF due THEN batches \cup {Parcel(full, e)} ELSE batches
        /\ UNCHANGED <<route, channel, lock, pending, flush, registered>>
SendBatched(e) ==
    LET n == Target[e]
        full == Append(buffers[n], e)
        due  == Len(full) >= MaxItems
    IN  /\ "batch" \in Modes[e] /\ env[e].stage = "new"
        /\ env' = Taken(e, IF due THEN ToSet(full) ELSE {})
        /\ buffers' = [buffers EXCEPT ![n] = IF due THEN <<>> ELSE full]
        /\ batches' = IF due THEN batches \cup {Parcel(full, e)} ELSE batches
        /\ UNCHANGED <<route, channel, lock, pending, flush, registered>>

\* send_batch: the batch is serialized, which may fail, and comes to the transport.
HandToTransport(p) ==
    \/ lock' = Append(lock, p) /\ UNCHANGED env
    \/ env' = AllFailed(ToSet(p.items)) /\ UNCHANGED lock

SendBatch ==
    /\ \E p \in batches : HandToTransport(p) /\ batches' = batches \ {p}
    /\ UNCHANGED <<route, channel, pending, buffers, flush, registered>>

\* flush_node and flush_all take the buffers out and send one batch after the other,
\* all of them whatever becomes of the first (bound: one flush at a time).
Flush(ns) ==
    LET full == {n \in ns : buffers[n] # <<>>}
    IN  /\ flush = <<>> /\ full # {}
        /\ flush' \in {[i \in DOMAIN order |-> buffers[order[i]]] : order \in Bijection(1 .. Cardinality(full), full)}
        /\ buffers' = [n \in Nodes |-> IF n \in full THEN <<>> ELSE buffers[n]]
        /\ env' = Moved(UNION {ToSet(buffers[n]) : n \in full}, "sending")
        /\ UNCHANGED <<route, channel, lock, pending, batches, registered>>

FlushNode(n) == Flush({n})
FlushAll     == Flush(Nodes)

FlushSends ==
    /\ flush # <<>> /\ \A i \in DOMAIN lock : lock[i].by # "flush"
    /\ HandToTransport(Parcel(Head(flush), "flush"))
    /\ flush' = Tail(flush)
    /\ UNCHANGED <<route, channel, pending, buffers, batches, registered>>

-----------------------------------------------------------------------------
\* TransportRegistry: the transport is looked up, then its send() is called.
RegistrySend(e) ==
    /\ "registry" \in Modes[e] /\ env[e].stage = "new"
    /\ env' = [env EXCEPT ![e].mode = "registry",
                          ![e].stage = IF Target[e] \in registered THEN "spawned" ELSE "refused"]
    /\ UNCHANGED <<route, channel, lock, pending, buffers, batches, flush, registered>>

\* (Bound: a node is unregistered once, while it matters to a send to come.)
RegistryUnregister(n) ==
    /\ n \in registered
    /\ \E e \in Envelopes : Target[e] = n /\ "registry" \in Modes[e] /\ env[e].stage = "new"
    /\ registered' = registered \ {n}
    /\ UNCHANGED <<route, channel, lock, pending, env, buffers, batches, flush>>

-----------------------------------------------------------------------------
\* Where an envelope is on its way: its places in the parcels at the lock, the batches,
\* the flush, the buffers and the channels.
PlacesIn(where, items, e) == {<<where, j>> : j \in {k \in DOMAIN items : items[k] = e}}
Places(e) ==
    (UNION {PlacesIn(<<"lock", i>>, lock[i].items, e) : i \in DOMAIN lock})
    \cup (UNION {PlacesIn(<<"batch", p>>, p.items, e) : p \in batches})
    \cup (UNION {PlacesIn(<<"flush", i>>, flush[i], e) : i \in DOMAIN flush})
    \cup (UNION {PlacesIn(<<"buffer", n>>, buffers[n], e) : n \in Nodes})
    \cup (UNION {UNION {PlacesIn(<<"channel", x, i>>, channel[x].q[i].items, e) : i \in DOMAIN channel[x].q} : x \in Links})

\* An envelope that was accepted and has neither arrived nor failed is in exactly
\* one place, else in none, however sends, flushes and failures interleave.
EnvelopesAreConserved ==
    \A e \in Envelopes :
        Cardinality(Places(e)) = IF env[e].stage \in {"buffered", "sending", "queued"} THEN 1 ELSE 0

\* Every send comes back as long as the receivers take what is in their channels, though
\* they all go through one lock that is held while a channel is full.
\* Each envelope is sent a bounded number of times, so all are back when none is out.
SendsReturn ==
    LET out(e) == env[e].stage = "sending"
    IN  (\E e \in Envelopes : out(e)) ~> (\A e \in Envelopes : ~out(e))
=============================================================================
