-------------------------------- MODULE Pool --------------------------------
(***************************************************************************)
(* Worker pools.  A PoolRef picks a worker in the caller's thread; a       *)
(* VirtualPoolRef sends the operation as a closure through a bounded       *)
(* channel to a router task, which picks.  A worker is any ActorRef, local *)
(* or remote (WorkerRef).  Of a local actor only the mailbox is modelled   *)
(* here; to a remote one every call sends an envelope in a task of its     *)
(* own, whatever has become of the actor.                                  *)
(***************************************************************************)
EXTENDS Naturals, Sequences, SequencesExt, FiniteSets

CONSTANTS
    N,         \* pool_size
    Ops,       \* operations on a pool, each made once
    OpKinds,   \* per operation: the ways in which it may be called
    Key,       \* per operation: Keyed::routing_key
    Remotes,   \* the workers that are WorkerRef::Remote
    Routings,  \* PoolRouting values
    Capacity   \* capacity of the router's channel

ASSUME PoolAssumption ==
    /\ N \in Nat \ {0} /\ Capacity \in Nat \ {0} /\ "stop" \notin Ops
    /\ Key \in [Ops -> Nat]
    /\ OpKinds \in [Ops -> SUBSET {"tell", "keyed", "ask", "stream"}]
    /\ Remotes \subseteq 1 .. N

VARIABLES
    pool,   \* kind, routing, counter and, of a virtual pool, alive and the router
    wk,     \* the workers: mailbox (of a remote one: envelopes under way), up
    op,     \* the operations
    queue   \* commands of the router: operations, or "stop"

pvars == <<pool, wk, op, queue>>

PoolWorkers == 1 .. N
Locals == PoolWorkers \ Remotes
NewOp == [kind |-> "none", stage |-> "new", w |-> 0, min |-> 0, reply |-> "none"]

PoolInit ==
    /\ pool \in [kind : {"direct", "virtual"}, routing : Routings, counter : {0}, alive : {TRUE},
                 router : {"idle"}]
    /\ wk = [w \in PoolWorkers |-> [box |-> <<>>, up |-> TRUE]]
    /\ op = [o \in Ops |-> NewOp]
    /\ queue = <<>>

\* pending_messages(): a remote reference always says 0.
PendingMessages(w) == IF w \in Remotes THEN 0 ELSE Len(wk[w].box)
MinLoad == CHOOSE n \in {PendingMessages(w) : w \in PoolWorkers} :
               \A w \in PoolWorkers : n <= PendingMessages(w)

\* The i-th (from 0) of the workers in c, by index.
Nth(c, i) == CHOOSE w \in c : Cardinality({v \in c : v < w}) = i

\* The selections that take one step: round robin (also for the messages of a
\* key-based pool that have no key), a hash of the counter, and the key.
RoundRobinIndex == {(pool.counter % N) + 1}
RandomIndex == PoolWorkers
KeyedIndex(o) == {(Key[o] % N) + 1}

\* A keyed message leaves the counter alone.
\* Mutant: it takes a turn.
Advance_Always(kind) == [pool EXCEPT !.counter = @ + 1]
Advance(kind) == IF kind = "keyed" THEN pool ELSE [pool EXCEPT !.counter = @ + 1]

SelectWorker(o, kind) ==
    IF kind = "keyed" THEN KeyedIndex(o)
    ELSE IF pool.routing = "Random" THEN RandomIndex ELSE RoundRobinIndex

\* The second pass of the least-loaded selection: the workers that have the load
\* found by the first one.
Candidates(min) == {w \in PoolWorkers : PendingMessages(w) = min}

-----------------------------------------------------------------------------
\* PoolRef: the caller selects, then calls the worker.
Expects(kind) == IF kind \in {"ask", "stream"} THEN "waiting" ELSE "none"

PoolSelect(o) ==
    /\ pool.kind = "direct" /\ op[o].stage = "new"
    /\ \E kind \in OpKinds[o] :
          /\ pool.routing # "LeastLoaded" \/ kind = "keyed"
          /\ \E w \in SelectWorker(o, kind) :
                op' = [op EXCEPT ![o].kind = kind, ![o].stage = "selected", ![o].w = w]
          /\ pool' = Advance(kind)
    /\ UNCHANGED <<wk, queue>>

PoolScan(o) ==
    /\ pool.kind = "direct" /\ op[o].stage = "new" /\ pool.routing = "LeastLoaded"
    /\ \E kind \in OpKinds[o] \ {"keyed"} :
          op' = [op EXCEPT ![o].kind = kind, ![o].stage = "scanned", ![o].min = MinLoad]
    /\ UNCHANGED <<pool, wk, queue>>

\* With no candidate left the remainder by zero panics in the caller.
PoolLeastLoaded(o) ==
    LET c == Candidates(op[o].min)
    IN  /\ pool.kind = "direct" /\ op[o].stage = "scanned"
        /\ IF c = {} THEN op' = [op EXCEPT ![o].stage = "panicked"]
           ELSE op' = [op EXCEPT ![o].stage = "selected",
                                 ![o].w = Nth(c, pool.counter % Cardinality(c))]
        /\ pool' = IF Cardinality(c) = 1 THEN pool ELSE [pool EXCEPT !.counter = @ + 1]
        /\ UNCHANGED <<wk, queue>>

\* The worker's own tell, ask, expand, reduce or transform.  A local one fails if the
\* actor is gone.  A remote reference does not know; it fails if an interceptor
\* rejects the message or it cannot be serialized, says Ok to a tell that an
\* interceptor drops, and has no streams yet.
SendOutcomes(w, kind) ==
    IF w \in Locals THEN {IF wk[w].up THEN "delivered" ELSE "refused"}
    ELSE CASE kind = "stream" -> {"refused"}
           [] kind = "ask" -> {"delivered", "refused"}
           [] OTHER -> {"delivered", "refused", "dropped"}

PutInBox(o, w) == [wk EXCEPT ![w].box = Append(@, o)]

PoolDeliver(o) ==
    /\ pool.kind = "direct" /\ op[o].stage = "selected"
    /\ \E r \in SendOutcomes(op[o].w, op[o].kind) :
          /\ wk' = IF r = "delivered" THEN PutInBox(o, op[o].w) ELSE wk
          /\ op' = [op EXCEPT ![o].stage = r,
                              ![o].reply = IF r = "delivered" THEN Expects(op[o].kind) ELSE @]
    /\ UNCHANGED <<pool, queue>>

\* stop() stops every worker; that of a remote one does nothing.
StopWorkers == [w \in PoolWorkers |-> IF w \in Locals THEN [box |-> <<>>, up |-> FALSE] ELSE wk[w]]

\* The requests in the mailboxes of stopped workers get no answer but an error.
DropRequests(os) ==
    [o \in Ops |-> IF o \in os /\ op[o].reply = "waiting" THEN [op[o] EXCEPT !.reply = "error"] ELSE op[o]]
InBoxes == UNION {ToSet(wk[w].box) : w \in Locals}

PoolStop ==
    /\ pool.kind = "direct"
    /\ wk' = StopWorkers
    /\ op' = DropRequests(InBoxes)
    /\ UNCHANGED <<pool, queue>>

-----------------------------------------------------------------------------
\* The channel has room for a command.  The one that the router works on, kept at the
\* head of `queue', is no longer in the channel.
HasRoom == pool.router # "ended" /\ Len(queue) < Capacity + (IF pool.router = "scanned" THEN 1 ELSE 0)

\* VirtualPoolRef: try_send of a closure; the reply comes over a bridge.
VirtualSend(o) ==
    /\ pool.kind = "virtual" /\ op[o].stage = "new"
    /\ \E kind \in OpKinds[o] \ {"keyed"} :
          IF HasRoom
          THEN /\ queue' = Append(queue, o)
               /\ op' = [op EXCEPT ![o].kind = kind, ![o].stage = "queued", ![o].reply = Expects(kind)]
          ELSE /\ op' = [op EXCEPT ![o].stage = "refused"]
               /\ UNCHANGED queue
    /\ UNCHANGED <<pool, wk>>

\* stop() says that the pool is down; the command is lost if the channel is full.  It
\* may be called again.
VirtualStop ==
    /\ pool.kind = "virtual"
    /\ pool' = [pool EXCEPT !.alive = FALSE]
    /\ queue' = IF HasRoom THEN Append(queue, "stop") ELSE queue
    /\ UNCHANGED <<wk, op>>

\* What the caller's end of the bridge makes of an operation that no worker took:
\* that of a tell is only logged, that of an ask is an error, and a stream is an
\* empty one.
BridgeFails(o) ==
    [op[o] EXCEPT !.stage = "lost",
                  !.reply = CASE op[o].kind = "ask" -> "error" [] op[o].kind = "stream" -> "empty"
                              [] OTHER -> @]

\* The router hands the operation to worker w.
HandOver(o, w) ==
    \E r \in SendOutcomes(w, op[o].kind) :
       /\ wk' = IF r = "delivered" THEN PutInBox(o, w) ELSE wk
       /\ op' = [op EXCEPT ![o] = IF r = "refused" THEN [BridgeFails(o) EXCEPT !.w = w]
                                  ELSE [@ EXCEPT !.stage = r, !.w = w]]

RouterIdle == pool.kind = "virtual" /\ pool.router = "idle" /\ queue # <<>>

RouterRoute ==
    /\ RouterIdle /\ Head(queue) # "stop" /\ pool.routing # "LeastLoaded"
    /\ \E w \in SelectWorker(Head(queue), "tell") : HandOver(Head(queue), w)
    /\ pool' = [pool EXCEPT !.counter = @ + 1]
    /\ queue' = Tail(queue)

RouterScan ==
    /\ RouterIdle /\ Head(queue) # "stop" /\ pool.routing = "LeastLoaded"
    /\ op' = [op EXCEPT ![Head(queue)].stage = "scanned", ![Head(queue)].min = MinLoad]
    /\ pool' = [pool EXCEPT !.router = "scanned"]
    /\ UNCHANGED <<wk, queue>>

\* What becomes of the commands left in the channel when the router goes.
DropQueue(q) ==
    [o \in Ops |-> IF o \in ToSet(q) \ {"stop"} THEN BridgeFails(o) ELSE op[o]]

\* With no candidate the panic ends the router; nobody clears the alive flag.
RouterLeastLoaded ==
    LET o == Head(queue)
        c == Candidates(op[o].min)
    IN  /\ pool.router = "scanned"
        /\ IF c = {}
           THEN /\ op' = DropQueue(queue)
                /\ queue' = <<>>
                /\ pool' = [pool EXCEPT !.router = "ended"]
                /\ UNCHANGED wk
           ELSE /\ HandOver(o, Nth(c, pool.counter % Cardinality(c)))
                /\ queue' = Tail(queue)
                /\ pool' = [pool EXCEPT !.router = "idle",
                                        !.counter = IF Cardinality(c) = 1 THEN @ ELSE @ + 1]

RouterStop ==
    /\ RouterIdle /\ Head(queue) = "stop"
    /\ wk' = StopWorkers
    /\ op' = LET rest == DropQueue(Tail(queue)) IN
             [o \in Ops |-> IF o \in InBoxes THEN DropRequests(InBoxes)[o] ELSE rest[o]]
    /\ queue' = <<>>
    /\ pool' = [pool EXCEPT !.router = "ended", !.alive = FALSE]

-----------------------------------------------------------------------------
\* A local worker's actor handles its next message; it may also end on its own.
WorkerHandles(w) ==
    /\ w \in Locals /\ wk[w].up /\ wk[w].box # <<>>
    /\ wk' = [wk EXCEPT ![w].box = Tail(@)]
    /\ LET o == Head(wk[w].box) IN
       op' = [op EXCEPT ![o].stage = "handled", ![o].reply = IF @ = "waiting" THEN "ok" ELSE @]
    /\ UNCHANGED <<pool, queue>>

WorkerEnds(w) ==
    /\ w \in Locals /\ wk[w].up
    /\ wk' = [wk EXCEPT ![w].up = FALSE, ![w].box = <<>>]
    /\ op' = DropRequests(ToSet(wk[w].box))
    /\ UNCHANGED <<pool, queue>>

\* The end of an envelope to a remote worker, in no order: the transport fails and
\* says so; the actor handles it, and the reply may be unreadable; or it is lost with
\* the node's receiver or the actor, or no reply comes, and nobody tells the caller.
EnvelopeEnds(w) ==
    /\ w \in Remotes
    /\ \E i \in DOMAIN wk[w].box, stage \in {"failed", "handled", "astray"}, reply \in {"ok", "error"} :
          /\ stage = "handled" => wk[w].up
          /\ stage = "failed" => reply = "error"
          /\ wk' = [wk EXCEPT ![w].box = RemoveAt(@, i)]
          /\ op' = [op EXCEPT ![wk[w].box[i]].stage = stage,
                              ![wk[w].box[i]].reply = IF @ = "waiting" /\ stage # "astray" THEN reply ELSE @]
    /\ UNCHANGED <<pool, queue>>

RemoteWorkerEnds(w) ==
    /\ w \in Remotes /\ wk[w].up
    /\ wk' = [wk EXCEPT ![w].up = FALSE]
    /\ UNCHANGED <<pool, op, queue>>

PoolStep ==
    \/ \E o \in Ops : PoolLeastLoaded(o) \/ PoolDeliver(o)
    \/ RouterRoute \/ RouterScan \/ RouterLeastLoaded \/ RouterStop
    \/ \E w \in PoolWorkers : WorkerHandles(w) \/ EnvelopeEnds(w)

PoolNext ==
    \/ PoolStep
    \/ \E o \in Ops : PoolSelect(o) \/ PoolScan(o) \/ VirtualSend(o)
    \/ PoolStop \/ VirtualStop
    \/ \E w \in PoolWorkers : WorkerEnds(w) \/ RemoteWorkerEnds(w)

-----------------------------------------------------------------------------
\* Round robin is even: however the callers interleave, no two workers are chosen
\* more than one operation apart; messages with a key do not count.
RoundRobinIsEven ==
    pool.routing = "RoundRobin" =>
        LET chosen(w) == Cardinality({o \in Ops : op[o].w = w /\ op[o].kind # "keyed"})
        IN  \A v, w \in PoolWorkers : chosen(v) <= chosen(w) + 1

\* A caller that waits for an answer of a pool gets one, an error or an empty stream
\* at least: also from a virtual pool whose router stops or dies with its closure, and
\* from a worker that is stopped with the request in its mailbox.  The one exception
\* is a remote worker whose envelope or reply is lost on the way: nothing in the code
\* ends that wait.  Callers wait at most once, so all of them are served when none
\* waits for anything else.
PoolAnswers ==
    LET waits(o) == op[o].reply = "waiting"
        lost(o)  == op[o].w \in Remotes /\ op[o].stage = "astray"
    IN  (\E o \in Ops : waits(o)) ~> (\A o \in Ops : waits(o) => lost(o))
=============================================================================
