# A TLA+ development for dactor

dactor is a Rust library that gives actors one interface over several actor
frameworks. This directory holds TLA+ modules that model its core, the TLC
configurations that check them, and proofs of the results that matter most. Every
definition is a translation of code under `src/`; `PROJECT.json` ("map") says which
lines each one stands for.

## 1. The system

| component | state it keeps | operations | how it interacts |
|---|---|---|---|
| actor task and mailbox (`test_support/test_runtime.rs`) | a channel, `alive`, the message in hand, the phase of the task | spawn, tell, ask, stop, the message loop, on_error, on_stop | one tokio task per actor; users call references concurrently |
| dispatch and cancellation (`dispatch.rs`) | the reply channel and the token of an ask | dispatch, reject, cancel, send_reply | the loop calls them; the caller awaits the reply |
| registry (`registry.rs`) | name to reference | register, lookup, unregister | spawn registers, the ending task unregisters; it holds a sender |
| watching | entries per target, each with a sender of its watcher | watch, unwatch, notification | the ending task takes the entries and sends to other mailboxes |
| stop receivers | a oneshot receiver per actor | await_stop, await_all, cleanup_finished | resolved by the ending task |
| outbound queue (`outbound_queue.rs`) | five lanes or one list, a stream FIFO, counters | push, pop, drain_ordered, clear | one queue per destination node, used by its sender |
| interceptors (`interceptor.rs`, `runtime_support.rs`, `throttle.rs`, `circuit_breaker.rs`, `wire_interceptor.rs`) | counts and windows, the state of a circuit | on_send, on_receive, on_complete | composed in pipelines at the sender, the wire and the loop |
| persistence (`persistence.rs`) | journal, snapshots, saved state; the state and sequence number in memory | persist, persist_batch, snapshot, deletions, save_state, recovery | handlers call storage that may fail; recovery runs at start |
| streams (`stream.rs`, `runtime_support.rs`) | bounded channels, batch buffers, drain tasks | expand, reduce, transform | tasks between caller and actor |
| pools (`pool.rs`, `virtual_pool.rs`, `worker_ref.rs`) | workers, a counter; a command queue and a router task | route by turn, hash, key or load; stop | callers select in their own threads, or send closures to the router |
| broadcast and groups (`broadcast.rs`, `group.rs`) | references, members | fan-out tell and ask with receipts and time limits | one future per member |
| supervision (`supervision.rs`) | restarts in a window, per child or per group | on_child_failed, register_child | asked when a child fails |
| timers (`timer.rs`) | a task per timer | send_after, send_interval, cancel | tells a reference |
| system actors (`system_actors.rs`, `system_router.rs`) | factories and spawned ids, watches, tokens, peers; each once in the runtime and once in a native actor | spawn, watch, cancel, connect, route an envelope | remote nodes route envelopes, the integration layer calls both copies |
| cluster (`cluster.rs`) | subscriptions | subscribe, unsubscribe, emit | the runtime emits, users listen |
| transport (`transport.rs`, `batched_transport.rs`) | routes under one lock, pending requests, buffers | send, send_request, complete_request, flush | between nodes |
| remote references (`remote.rs`, `remote_ref.rs`) | none of their own | tell and ask over the transport, each in a task | interceptors, serializer, then the transport |
| metrics (`metrics.rs`) | counters, buckets of a sliding window | record, snapshot | recorded by an interceptor in the loop |
| adapters (`dactor-ractor`, `dactor-kameo`, `dactor-coerce`) | a framework actor, a front channel and its forwarder | the operations of a reference and of a runtime | a dactor actor inside an actor of the framework |
| test harness (`dactor-test-harness`, `test_node_*.rs`) | a process and a port per node; in a node, actors and watches under a lock each, faults, a count | build, call, shut down, drop; spawn, tell, ask, stop, watch, inject | a test drives processes over gRPC, whose calls run side by side |
| discovery, mock | | | other crates |

What is hard here: users and tasks interleave at every await and every channel; a
cancellation races the handler it cancels; a message may be in a channel, a forwarder,
an inbox or a loop when any of them goes; every manager of the control plane exists
twice; a call is dropped at any await when its client gives up; a task that ends does so in several
steps, each visible to others; mailboxes have limits, and some results of sends are
ignored; counters and windows are kept by hand; storage calls fail or leave their
caller in doubt. The list with lines is in `PROJECT.json` ("hazards").

What makes each component correct: a caller of `ask` is never left waiting and is
told the truth; an actor works on one message at a time and on none after its end;
whoever hears of a termination can rely on it, and whoever asked in time hears of
it; a queue loses nothing and starves nobody; a limiter bounds the load; a circuit
that has opened can close again; what was acknowledged survives a crash; a remote caller
is answered and told what the node did; restarts, ticks and windows are counted exactly.

## 2. Modules

### ActorRuntime, ActorContract, MCActorRuntime

`ActorRuntime` models the runtime in `test_runtime.rs`, whose loop the adapters repeat
inside the actors of their frameworks. An action is what one side does between two
points where another can run.

- *State.* `phase[a]` is the program counter of the task of `a`: `starting` (create,
  on_start), `recv` (waiting for the mailbox), `admitted` (inbound interceptors let
  the message pass), `handling`, `completing` (on_complete done, reply not yet
  sent), `panicked`, `exiting` (alive cleared, on_stop), `notifying` (entries
  taken), `signalled` (stop_tx sent), `ended`, and `unwinding` and `crashed` for a panic
  in create, on_start, an interceptor or on_error (`HookPanics`), which nothing catches
  and which unwinds past all of that (`TaskUnwinds`). `mailbox[a]` holds messages, the stop
  signal (`None`, as in the code) and ChildTerminated notifications (the id of the
  actor that ended). `held`, `registry` and the watch entries are the owners of
  senders: when none is left, `recv` returns `None` (`HasSender`).
- *Users* spawn, drop and look up references, send, cancel, stop, watch, unwatch and
  await. *Tasks* do everything else by themselves.
- Variables marked *history* are not in the code; properties use them.
- Left out: payloads, the type of messages, headers, metrics and the dead letter
  callback; the forwarding task that `ask` adds when there are outbound interceptors
  (it passes on what the reply channel holds); the stream operations, which are in
  `StreamPipeline`.

Watch entries are counted per watcher, since a task notifies all of them and no
property depends on the order. `EndTask` unregisters and drops the mailbox in one
step: a user who sends between the two meets the same mailbox as one who sends before.

`ActorContract` says what users may rely on, in terms of actors that are up or down
and messages that are accepted, running, done or failed. `ActorRuntime` maps its
state to it (`ContractLife`, `ContractBusy`, `ContractState`), and the property
`ImplementsContract` states that it implements it, liveness included. The contract is
split into `Safety`, which is proved of both its implementations, and `Progress`.

### Retain, Sums

`Retain` is `Vec::retain` and its like: the entries at the positions that are kept, by
which storage, supervision and metrics drop what is old, and streams what an interceptor
skips. `Sums` is `Iterator::sum`. Both are recursive functions, so that proofs can unfold
them.

### OutboundQueue, MCOutboundQueue

`OutboundQueue` is `OutboundPriorityQueue` in its four configurations (strict lanes,
fair lanes, priority comparer, ageing comparer), one action per method. The linear
scan of `pop_comparer` and the lane search are given by what they return. Ages
advance by `Tick`. `peek` changes nothing and is left out.

### Interceptors

One actor with the interceptors the library ships: `ActorRateLimiter` and a policy of
the application behind it at the local sender, the body limit and the rate limit at
the wire, the circuit breaker and an interceptor behind it in the loop. An `Instant`
is kept as the number of ticks since it, saturated where the code no longer
distinguishes larger ones.

### Persistence

One persistence id: the in-memory storage, an actor that is event-sourced or keeps a
durable state, and its recovery. The state of the actor is the sequence of events
applied to it. A storage call succeeds, fails, or leaves its caller in doubt (the
storage took the write). A crash is possible between any two steps of recovery.

### StreamPipeline, MCStreamPipeline

One call of `expand`, `reduce` or `transform`, plain or batched, with every task the
runtime spawns for it. The same code stands in several places (three drains, two
wrappers, three writer loops); the model has one set of actions per task and the call
decides which tasks exist and which channels connect them (`Start`, `DrainTo`,
`WriterFrom`, `WrapFrom`).

- *State.* `chan`, `txOpen`, `rxOpen` are the bounded channels: a dropped receiver
  loses the content and makes sends fail, a dropped sender ends the channel once it
  is empty. Each task has a program counter (`drain`, `writer`, `forward`, `wrap`,
  `handler`) and what it holds (`dItem`, `wBuf` and `wOut`, `fBatch`, `xItem` and
  `xBatch`, `hItem`). A send that has to wait for room is a step of its own.
- *Interceptors* pass, drop or reject each item as they like; Delay only postpones the
  send, Retry counts as Drop, as in the code.
- *Users.* The input yields items, ends, or hangs; the caller reads or drops its stream;
  the handler sends nothing or something for each item, returns early, panics, or is
  dropped by the select that watches the token.
- *Time* passes only where it is looked at: while a writer with a part of a batch waits.
- Items are numbered in the order they are produced, so that loss, repetition and
  reordering all show. The notices to the drop observer and the sequence numbers given to
  interceptors are left out.

### AdapterActor; RactorActor, KameoActor, CoerceActor; Adapters, MCAdapters

`AdapterActor` has the pieces the three runtimes share: `act[a]` is the wrapped actor with
its front channel and forwarder (when the mailbox is bounded), the framework's inbox, the
message in hand and the result for `await_stop`; `msg[m]` says how a message was sent, what
became of it, what its caller has and whether it was reported as a dead letter. The three
modules put them together as their runtimes do, and `Adapters` chooses one in `Init`. The
contract is the same `ActorContract` that the test runtime implements, with a mapping of
the same three parts.

What is assumed of the frameworks, whose code is not in this repository:

- *ractor* runs `pre_start` within spawn; a stop is handed over out of band, is looked for
  before the next message, and lets the handler that runs finish.
- *kameo* starts the actor after spawn has returned; `kill` aborts the loop at an await, a
  handler included, and then runs `on_stop`; it does not abort `on_start`.
- *coerce* keeps `notify_stop` in the inbox like any message.
- An inbox is closed some time after its loop was left; until then it takes messages, which
  are dropped with it. Actors are not ended by the drop of references.
- Interceptors and `on_error` do not panic inside the wrapper's `handle`: what a framework
  makes of a panic that the wrapper does not catch is its own affair. `ActorRuntime` has
  such panics.

### SystemActors, SystemNode; RactorNode, KameoNode, CoerceNode; ControlPlane

`SystemActors` defines the managers as values: what each operation makes of them.
`SystemNode` holds them twice, in the runtime (`mgr`) and inside native actors (`workers`,
`native`) with mailboxes, with the router between remote callers (`req`) and the native
ones, the counter of local ids they share, and the emitter of cluster events, whose
callbacks run one at a time. The three node modules say which of the pieces each runtime
has: ractor and coerce forward a factory to their native spawn managers, kameo does not.
The managers share no state except the counter, so a behaviour uses one of them (`part`).
That system actors are started once is a bound: a second `start_system_actors` replaces the
native actors by new ones, which know nothing of the watches, tokens and factories that
were acknowledged by the first, so that `NativeKeepsPromises` and `SpawnsAreSound` speak of
one set of native actors. The decode errors and the missing request id that a route meets
are modelled whether or not they are started.
The emitter is that of the adapters, which catches the panics of subscribers;
`ClusterEventEmitter` in `dactor/src/cluster.rs` is the same loop without the catch.
`connect_peer` does not check compatibility; the calls that connect made the handshake first.

### Pool, Broadcast, Supervision, Timers, Transport, RemoteRef, Metrics, TestHarness, TestNode; Coordination

One module per component, each with its state, actions and properties; `Coordination` sets
them side by side, and a behaviour exercises one of them (`unit`), since they share no
state. `RemoteRef` extends `Transport`, which it uses.

- *Pool.* A direct pool selects in the caller's thread, in two steps where it reads loads
  twice; a virtual pool has a bounded channel and a router. Of a local worker's actor only
  the mailbox is modelled. Calls to a remote worker are accepted whether or not its actor is
  there, its stop does nothing, and its envelopes come to their end in any order: failed in
  the transport, handled, answered unreadably, or lost with nobody told (`EnvelopeEnds`).
- *Broadcast.* A call has one entry per reference: what became of the message and the
  receipt. Members handle, fail, end or stay silent. References in `Relayed` are remote:
  they accept every message, and a failure in the transport as well as a reply that cannot
  be read (`UnreadableReply`) comes back as a send error.
- *Supervision.* The three strategies, with the history of decisions. A child may be
  registered twice, as the code pushes without looking; `MaxRegistered` bounds the list.
- *Timers.* Ticks that were not taken in time come in a burst, as tokio's do by default. A
  tell to a local actor that has ended is refused, one to a remote actor never is.
- *Transport.* A `send` is a parcel (an envelope or a batch) in the queue of the lock on the
  routes, which tokio hands out in order and which is held while the channel of the target
  is full. Receivers are dropped at any time. `register_node` waits for the same lock and puts
  a new channel in place of the old one, which keeps what it has (`route`, `Links`); the
  bounds are one such call at a time per node and `MaxRegistrations` in all.
- *RemoteRef.* Every call goes on in a task of its own, which a cancellation may withdraw
  from wherever it waits. Interceptors reject (an error) or drop (Ok to a tell), and a
  serializer may fail, also that of a batch, which fails the whole batch.
- *Metrics.* Recorders count without a lock and write into buckets under one. A step reads
  one clock, and a snapshot is one step: the code loads the counters before it takes the
  lock, so within one snapshot they may also lag by the records made in between.
- *TestHarness.* A `TestCluster` with its builder against the operating system: processes
  that start, bind a port, crash, are killed and die a moment later. Clusters follow one
  another on the same ports. Every call of a client goes to whoever listens on its port.
- *TestNode.* The service inside one such process over the command handler of the ractor
  node; kameo's and coerce's have the same text. A call is split where it awaits a lock, the
  end of an actor or a reply, and can be dropped there. Counter values, the types of
  messages and the subscribers of events are left out; events are counted where they are sent,
  `actor_spawned` in a step after the one that enters the actor, since the lock on the
  actors is released in between.

## 3. Runs

| run | what it shows |
|---|---|
| `actor_messages` | two actors, mailboxes unbounded and of size one, a tell and an ask with a token, stop, rejection, cancellation, panics of handlers and of hooks: `WaitingIsHeld`, `ReplyIsTruthful`, `AskResolves`, `StopTerminates`, and the refinement |
| `actor_lifecycle` | two actors with one name that watch each other, up to two entries per pair, references that come and go, awaits and clean-up: `TerminationIsFinal`, `AliveWatchIsTold` |
| `outbound_queue` | seven envelopes (two stream items, two in the first lane, one in each of three others), capacity 4, max_consecutive 2, max_age 2: exact count, lane shares, alternation, ageing |
| `interceptors` | limits of one and two per window, mailbox of two: bounds on the load, a healthy closed circuit, the probe |
| `persistence` | three events in batches of one or two, two snapshots, three incarnations, every policy, Retry without a maximum included: exact recovery, no acknowledged event lost, and, that policy excepted, recovery ends |
| `stream_pipeline` | all six kinds of call with three items, channels of one, batches of three, a delay of two ticks: `ItemsConserved`, `BatchWaitBounded`, `TasksEnd` |
| `adapters` | for each framework: an actor with a mailbox of one and one that watches it, an ask with a token and a message sent in any other way, stop, panics, rejection: `CallerIsServed`, `DeadLetterIsUndelivered`, `AdapterStopTerminates`, and the refinement of `ActorContract` |
| `control_plane` | for each framework: three envelopes, a pool of two spawn managers, two watched actors, two peers of differing version and adapter, two subscribers: ids are unique, a registered type is found, the native copies keep what routing promised, events follow the directory, only compatible peers are connected, and every route is answered |
| `coordination` | pools of two workers, one of them remote, with three operations and a command queue of two; broadcasts to up to two references, which may be the same, and one of which is remote; four failures in five ticks; timers with up to three ticks due; three envelopes to two nodes with channels of one and batches of two; two recorders over six ticks; two test clusters in a row of two nodes, some with a shared port or id; four calls of a test node, the stop among them with a client that gives up: `RoundRobinIsEven`, `ReceiptsAreTruthful`, `RestartBudgetIsExact`, `CancelIsHeeded`, `RemoteAskIsSound`, `EnvelopesAreConserved`, `WindowIsSharp`, `ProcessesAreOwned`, `AccountsAreExact`, `StopTellsWatchers`, `CallersAreServed` |
| `transform_complete` | *violation*: a transform cancelled while it waits for input calls `on_transform_complete` |
| `outbound_starvation` | *violation*: one stream item pushed per pop keeps `total` even, and a tell waits for ever |
| `breaker_probe` | *violation*: a cancelled or intercepted probe leaves the circuit half open for ever |

The violations are disagreements between a doc comment and the code, quoted in
`PROJECT.json` ("findings"). Each property of a passing run has a mutant: a plausible
bug in a modelled definition under which TLC reports that property violated.

*Bounds.* Two actors are enough for a watcher and its target, for two that watch each
other and for two that share a name; a mailbox of size one is full after one message, so
that a second one, a stop signal and a notification all meet it. One stop per actor
suffices because a second one only adds a signal behind the first. The messages
instance leaves out watching and references, the lifecycle instance leaves out
messages: a message changes nothing about termination except through a panic, which
leads to the same exit as a stop. Envelopes that left the
queue are pushed again, so the first lane exceeds `max_consecutive` while others wait. In `Interceptors` the limits are small enough to be exceeded within
one window and again in the next. In `Persistence`, three events allow one to be lost
in a snapshot, one in doubt and one after it. In `StreamPipeline` channels of one make
every send wait; three items in flushed batches of one are enough to have one with the
forwarder, one in the channel and one in a blocked writer, which is the deadlock that
the order of the drops in `spawn_reduce_batched_drain` avoids; batches of three leave
room for an item that begins the writer's sleep anew. In `Adapters` a front channel of one
holds one message while another is in the inbox or the loop, so the forwarder, the inbox
and the loop are lost in every order. In `ControlPlane` three envelopes put two requests
into one worker of the pool, so that one is dropped by the panic of the other, and three
calls of the integration layer connect, leave and connect again. In `Coordination` three
operations wrap a pool of two around, three envelopes fill a channel, a batch and the lock
at once, and the clocks run past two windows; a list of two children holds one child twice; a second test cluster meets what the first
left behind, and four calls spawn a watcher and its target, watch, and stop.

*Deadlock* is not checked for the actor runtime and persistence, where users may
simply stop, nor for streams, where a call comes to its end (`TasksEnd` says that it
does), nor for the adapters, the control plane and coordination, whose operations come to
an end; it is checked for the queue and the interceptors.

*Symmetry.* `actor_lifecycle` permutes the two actors; it checks invariants only.

*Fairness.* `ActorRuntime`: weak fairness for the task of each actor, which is what the
tokio scheduler gives a runnable task, together with the assumption that handlers and
hooks return. Users are under no obligation. `OutboundQueue`: the owner pops while
something is queued. `Interceptors`: the loop, the completion of handlers and the clock;
for `breaker_probe` also traffic that does not dry up. `Persistence`: storage calls
return, and the wait between attempts ends. `StreamPipeline`: every spawned task runs
when it can, time passes, handlers go on, and a caller that keeps its stream reads it;
that an input yields is not assumed, nor is any panic, rejection or early return.
`Adapters`: the actor and the forwarder run when they can, handlers return, the abort of a
kameo actor arrives. `ControlPlane`: native actors handle their mailboxes and an emit
finishes. `Coordination`: callers and routers go on, workers of pools handle their messages,
clocks run, tasks of the transport run and nodes take what is in their channels; members of
a broadcast need not answer, nor need nodes that got a request; an envelope of a pool to a
remote worker comes to its end, which may be that it is lost. A killed process dies, but
one that was started need not get ready, nor need an actor that was told to stop end; an
ask of a test node without a time limit may wait for ever.

## 4. Proofs

`ActorRuntimeProofs` proves, for any sets of actors, names and messages and any
capacities (assumption `ConstantsAssumption`):

- `TypeCorrect`: `Spec => []TypeOK`, which includes that a bounded mailbox never
  exceeds its capacity.
- `NobodyWaitsInVain`: `Spec => []WaitingIsHeld`. The invariant is not inductive by
  itself. `HeldInv` adds that a new message is nowhere, so that sending does not
  duplicate one; that a task outside `admitted` .. `completing` has nothing in hand,
  so that the exits lose nothing; and that the caller of a panicked ask is already
  answered, so that `on_error` may drop it. The lemmas `HeldAppend`, `HeldTake`,
  `HeldFinish`, `HeldPhase` and `HeldDrop` say what the five ways to move a message
  preserve; the actions are instances of them.
- `TerminationIsForGood` and `TimelyWatchIsTold`: `Spec => []TerminationIsFinal` and
  `Spec => []AliveWatchIsTold`. Both follow from `EndInv`, which records how far a
  task must be for others to have heard of its end (`ToldPhase`,
  `ReturnedSignalled`), that `alive` stays false once the loop is left
  (`DeadWhenDown`), and where the entry of a watch made in time is at each stage: in
  the map, among the entries still to notify, or told (`OwedIsDue`).
- `RepliesAreTruthful`: `Spec => []ReplyIsTruthful`. What a reply says about a message
  is only as good as the claim that no copy of it is elsewhere. `TruthInv` says that a
  message is in one mailbox or one task's hands (`Letters`, `Hands`), how far its handler
  and its interceptors are in each phase of that task, and that a message which was
  answered is nowhere any more (`Records`).
- `RuntimeFollowsContract`: `Spec => Contract!Safety`. Each action is shown to start or
  end an actor, to accept, begin, finish or fail a message, to fail everything an ending
  actor holds, or to change nothing the contract sees; `TruthInv` provides that the
  messages which fail with a mailbox are those accepted and not begun.

`StreamPipelineProofs` proves, for any calls, number of items, buffer size, `max_items`
and `max_delay` (assumption `StreamAssumption`):

- `TypeCorrect`: `Spec => []TypeOK`. The types say that a task that sends has an item and
  that no batch is empty; without that the head taken by `BatchReader` would be
  undefined.
- `BatchesDoNotLinger`: `Spec => []BatchWaitBounded`. `WaitInv` is the inductive form: a
  buffer with `k` items has waited at most `(k - 1) * max_delay` and the sleep under way,
  and the sleep is never longer than the wait, so that `check_deadline` always finds the
  deadline passed. The documentation of `BatchConfig` promises `max_delay` since the first
  item; this is the bound the code keeps instead.
- `ItemsStayConserved`: `Spec => []ItemsConserved`. An item is moved by up to five tasks
  and is in hand, in a batch or in one of five channels, each with two ends, either of
  which may disappear. `ControlInv` therefore comes first: which tasks a call has and what
  they hold in each state (`NewInv`, `TaskInv`), which channels are empty (`RouteInv`), and
  that an end is gone only after its task (`EndInv`). `ItemInv` then equates, on each side
  of the handler, all that is under way with what the interceptors let pass (`InInv`,
  `OutInv`). Two facts are needed that the property does not mention: once the caller has
  dropped its stream, the wrapping task goes on taking and skipping items, and the
  equation holds up to the items lost with the stream; and items are accepted in the order
  of their numbers (`OrderInv`). Sequences that grow are determined by their entries
  (`SameItems`), which is how a skipped item leaves both sides of an equation at once.

`OutboundQueueProofs` proves, for any envelopes with any priorities, any capacity,
`max_consecutive` and `max_age` (assumption `QueueAssumption`):

- `CountersStayExact`: `Spec => []CountersAreExact`. `QueueInv` adds that the streak of a
  lane is at most `consecutive_from_lane` and belongs to `current_lane` (`TurnInv`).
- `SourcesAlternate`: `Spec => AlternatesBetweenPushes`. While both sources wait, the
  parity of `total` names the source of the last pop (`ParityInv`).
- `AgedGoFirst`: `Spec => AgedIsNotOvertaken`: the comparer puts an aged envelope before
  every later one, and the scan returns a least one.

`InterceptorsProofs` proves, for any rates, windows, threshold and cooldown (assumption
`InterceptorsAssumption`):

- `RateStaysBounded`: `Spec => []RateIsBounded`. `LimiterOK` and `WireOK` relate the
  counter of a window to what passed since it began, and bound what is still in sight of
  the window before.
- `BreakerStaysConsistent`: `Spec => []BreakerIsConsistent`, which is inductive together
  with the types. That pruning loses no recent error is a lemma about `Retain`.

`PersistenceProofs` proves, for any events, policies and bounds (assumption
`PersistenceAssumption`):

- `RecoveryStaysExact`: `Spec => []RecoveryIsExact`. `JournalInv` says that the journal
  holds the last events of the log, numbered by their place in it, and that the latest
  snapshot covers the rest; `RecoveryInv` says how far a recovery under way has come.
- `AckedStaysDurable`: `Spec => []AckedSurvives`. `AckInv`: what was acknowledged can be
  restored from the latest snapshot and the journal behind it, or from the saved state,
  also by an actor whose memory lags behind the journal.

`RetainProofs` has the lemmas for these two and for streams, supervision and metrics: which
entries `Retain` returns, in which order and how many; how `SumOf` unfolds, and that it
grows and adds up with what it sums. They rest on `LeastNat` and `UpTo`, the
least-number principle in a form without operator parameters.

`CoordinationProofs` proves, for any values of the constants that the assumptions of the
component modules allow:

- `CancelStaysHeeded` (timers), `ReceiptsStayTruthful` (broadcast): the properties with
  the states of a timer task and of an entry spelt out. The second says of a dead letter
  that no local member took its message; of a remote member it says only what the code
  keeps, that the message was refused on the way or its reply could not be read.
- `RestartBudgetStaysExact`: `Remembered` relates the timestamps a strategy keeps one to
  one to the restarts in the history that lie within the window.
- `WindowStaysSharp`: `Spec => []WindowIsSharp`. A bucket takes records for
  `bucket_duration`, or until it expires if that is sooner (`Span`); no relation between
  the two durations is assumed, as `ActorMetricsHandle::new` does not check one. Buckets
  stand for disjoint times (`BucketsApart`), each holds what was recorded in its time
  (`BucketsExact`), and whatever was recorded is in a bucket or too old to matter
  (`Covered`), so that the sum over the active buckets is the sum over the times they
  stand for. That the counters lead is a count of the recorders between the atomic and
  the lock (`CountersLead`).
- `RoundRobinStaysEven`: the counter is `N * q + t`, the first `t` workers were chosen
  `q + 1` times and the others `q` times (`Rounds`), and what is queued at a virtual pool
  was not counted yet.
- `RemoteAsksStaySound` and `EnvelopesStayConserved`: `RemoteInv` follows five families
  of lists (parcels at the lock, batches, flushes, buffers, channels). Each holds an
  envelope at most once (`FamiliesOK`), and the stage of an envelope says which family
  has it (`Sites`); lists that leave together are bound for one node (`ListsOK`).
- `ProcessesStayOwned`: every process that runs and is not leaked belongs to the cluster
  (`OwnedBy`), by a handle, as the one being started, or as one still to be closed.
- `AccountsStayExact` and `WatchersStayTold`: `NodeInv` follows every call through its
  program counter, with the locks it holds (`RpcOK`), the instances it has taken out
  (`FreshOK`, `Injective`) and the watches it copied (`NamesOK`).

`AdapterProofs` proves, for any actors, messages, capacities and each of the three
frameworks (assumption `AdapterAssumption`):

- `CallersStayServed` and `DeadLettersStayDead`: `Spec => []CallerIsServed` and
  `Spec => DeadLetterIsUndelivered`. `AInv` has a part per actor (`ActOK`: no queue holds a
  message twice or outlives the task that reads it) and a part per message (`MsgOK`: it is
  in at most one front channel, inbox or hand, in one while its fate is open, and its
  caller waits only then).
- `AdaptersFollowContract`: `Spec => Contract!Safety`, for all three frameworks.

and about the control plane, for any peers, types, watchers, request ids, envelopes, pool
size and subscribers (assumption `SystemNodeAssumption`; `NodeTyped` types every variable,
`NodeSteps` says which steps the three runtimes share):

- `PeersStaySound`: `NodeSpec => []PeersAreSound`. `PeersInv` adds that the news under way is
  what the directory has by now, and that a subscriber which still has a callback to come
  last heard the opposite.
- `PromisesStayKept`: `NodeSpec => []NativeKeepsPromises`. The property speaks of an empty
  mailbox; `ReplayInv` says why it holds: there is a run of states, one per message in the
  mailbox, that leads from the managers as they are to what was promised. A routed envelope
  extends that run at its end, a handled message takes its first step, so later promises
  never change what an earlier message will do (`ReplayAppend`, `ReplayTail`). Each cancel
  in the mailbox is due the answer of its own place in the run.
- `SpawnsStaySound`: `NodeSpec => []SpawnsAreSound`. Every id on record is below the shared
  counter (`IdsApart`), which makes the next one new to all managers at once. That a
  registered type is found depends on the order of a worker's mailbox (`BoxOK`): a spawn
  that was routed when its type was known has the factory in place or ahead of it. The
  invariant fails for kameo, which does not tell its workers, and is claimed for the other
  two only.

Only model-checked: everything under fairness, which the prover does not cover
(`AskResolves`, `StopTerminates`, `ProbeDecides`, `RecoveryEnds`, `TasksEnd`,
`AdapterStopTerminates`, `RouteIsAnswered`, `CallersAreServed`, and the `Progress` part of
the two refinements). Every invariant and every action property of a passing run is
also proved.

## 5. Where docs and code disagree

The three violations above are kept as runs. Modelling met further disagreements; the
models follow the code, and no property claims what the docs say:

- `stop()` of the test runtime on a full bounded mailbox is lost
  (`test_runtime.rs:103`; lines 92-93: "Used for stop signals that must not be dropped"),
  and so is that of a virtual pool with a full command queue (`virtual_pool.rs:248`).
- `Disposition::Delay` ends the outbound pipeline, and tell and ask do not delay
  (`runtime_support.rs:115`, `test_runtime.rs:266`; `interceptor.rs:65`: "Delay the message").
- `SkipAndStart` after a failed replay keeps the state of the snapshot
  (`persistence.rs:652`; line 104: "start with default state").
- `Retry` without `max_attempts` makes three attempts (`persistence.rs:638` and `:716`; line 99:
  "None = unlimited"). The model makes the three; `RecoveryEnds` leaves this policy out,
  since by its doc a recovery that keeps failing does not end.
- A broadcast reports a message that a remote member has handled as undelivered, in a dead
  letter and a `SendError`, when the reply cannot be read (`broadcast.rs:280`,
  `remote_ref.rs:415`; `broadcast.rs:54`: "prevented delivery to the actor"). And a
  `ReplyError` (line 61: "The actor processed the message") is also what a message gets that
  was dropped with its mailbox.
- A timer's interval to a remote actor does not end with it, since `tell` of a remote
  reference returns Ok (`remote_ref.rs:236`; `timer.rs:42`: "or when the actor is no longer
  reachable"), and `stop` of a pool does not reach remote workers (`remote_ref.rs:226`).
- A batch may wait longer than `max_delay` (`runtime_support.rs:468`).
- A bounded mailbox of an adapter holds more than its capacity, since the forwarder empties
  it into an unbounded inbox.
- A panic in `on_stop` reaches watchers as a reason with ractor only.
- Factories registered before `start_system_actors` do not reach the native spawn managers,
  with kameo none do.
- The least-loaded selection may find no candidate and divide by zero (`pool.rs:229`).
- Of the spawn managers of a pool, "each instance shares a single `TypeRegistry`"
  (`system_actors.rs:678`); in the adapters each has its own, and a factory is sent to all.
- The duration and the count of an injected fault are stored and never looked at
  (`dactor-test-harness/src/fault.rs:22`), and a forwarded increment passes a partition of
  its target, as only the addressee is checked (`node.rs:245`).
- The entry of a cancelled remote ask stays in the pending table, and a remote ask whose
  envelope was dropped with the receiver of its node has no time limit of its own, directly
  or through a pool.

## 6. Not modelled, and the work ahead

Not modelled: serialization, versions beyond the handshake, protobuf formats and type tables
(conversions without behaviour over time); the handlers for dead letters (they log or
collect; where they are called is in `AdapterActor` and `Broadcast`); linking, connecting and
handshaking of the in-memory transport and the fields of remote envelopes; the registry and
percentiles of metrics; `on_reply` and `wrap_handler` of interceptors; the cluster operations
of the test runtime, which are those of the adapters; panics of subscribers in
`ClusterEventEmitter`, and of interceptors and `on_error` inside the adapters' wrappers; discovery (queries to cloud services);
the streams of events of the test harness behind the channel they are sent to; the mock
cluster (a map of the managers that `SystemActors` defines, driven by one thread) and the
conformance suite (tests).

Ahead is wider modelling of these parts: the invariants of the parts that are modelled are
proved, and what is left to the runs is their liveness.
