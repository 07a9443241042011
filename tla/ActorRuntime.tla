---------------------------- MODULE ActorRuntime ----------------------------
(***************************************************************************)
(* The local actor runtime of dactor: the reference implementation in      *)
(* dactor/src/test_support/test_runtime.rs.  Every actor is one tokio task *)
(* that owns the receiving end of a mailbox channel.  The user side holds  *)
(* references (TestActorRef), spawns, sends, stops, watches and awaits     *)
(* concurrently with the tasks.  An action is what one side does between   *)
(* two points where another task can run.                                  *)
(*                                                                         *)
(* Messages are identities: a tell, or an ask with its reply channel.  In  *)
(* a mailbox, `None' is the stop signal (the code sends Option::None) and  *)
(* an actor t is the ChildTerminated notification about t.                 *)
(***************************************************************************)
EXTENDS Naturals, Sequences

CONSTANTS
    Actors,         \* actor ids, each spawned at most once
    Names,          \* names under which actors are spawned
    Tells,          \* fire-and-forget messages, each sent at most once
    Asks,           \* request messages, each sent at most once
    Cancellable,    \* the asks that carry a CancellationToken
    Capacity,       \* per actor: mailbox capacity, 0 for MailboxConfig::Unbounded
    Strategies,     \* the OverflowStrategy values a bounded mailbox is spawned with
    HooksMayPanic,  \* can A::create, on_start, on_error or an interceptor panic?
    UserOps,        \* the optional operations users of this instance call
    WatchPairs,     \* bound: the <<watcher, target>> pairs users ask for
    MaxStops,       \* bound: calls of stop() per actor
    MaxWatches,     \* bound: watch entries per target and watcher
    None

Msgs  == Tells \cup Asks
Items == {None} \cup Msgs \cup Actors

OverflowStrategy == {"RejectWithError", "DropNewest", "Block"}

ASSUME ConstantsAssumption ==
    /\ Actors \cap Msgs = {}
    /\ Tells \cap Asks = {}
    /\ None \notin Actors \cup Msgs \cup Names
    /\ Cancellable \subseteq Asks
    /\ Capacity \in [Actors -> Nat]
    /\ Strategies \subseteq OverflowStrategy
    /\ HooksMayPanic \in BOOLEAN
    /\ UserOps \subseteq {"refs", "watch", "await"}
    /\ WatchPairs \subseteq Actors \X Actors
    /\ MaxStops \in Nat
    /\ MaxWatches \in Nat

VARIABLES
    phase,      \* where the task of each actor is
    alive,      \* the shared AtomicBool behind is_alive()
    mailbox,    \* the channel: a queue of Items
    cur,        \* the item the loop is working on
    name,       \* the name the actor was spawned under
    overflow,   \* the overflow strategy of its mailbox
    held,       \* does user code hold a TestActorRef of the actor?
    registry,   \* ActorRegistry: name -> actor
    watchers,   \* the runtime's WatcherMap: target -> how many entries each watcher has
    entries,    \* the watch entries a terminating task took out of the map
    due,        \* those of them it has still to notify
    stopRx,     \* the runtime's stop receiver of the actor
    stopCalls,  \* history: how often stop() was called
    fate,       \* what became of each message
    reply,      \* what the reply channel of each ask holds
    cancelled,  \* asks whose token is cancelled
    started,    \* history: messages whose handler was entered
    completed,  \* history: per message, on_complete calls of the last interceptor
    owed,       \* history: <<w, t>> for each watch made while t was alive
    told        \* history: <<w, t>> for each ChildTerminated accepted by w

taskVars == <<phase, alive, mailbox, cur>>
refVars  == <<name, overflow, held, registry>>
stopVars == <<watchers, entries, due, stopRx, stopCalls, owed, told>>
msgVars  == <<fate, reply, cancelled, started, completed>>
vars     == <<phase, alive, mailbox, cur, name, overflow, held, registry, watchers, entries,
              due, stopRx, stopCalls, fate, reply, cancelled, started,
              completed, owed, told>>

Phases == {"unborn", "starting", "recv", "admitted", "handling", "panicked",
           "completing", "exiting", "notifying", "signalled", "ended", "unwinding", "crashed"}

\* The task has left its message loop for good.
Terminal == {"exiting", "notifying", "signalled", "ended", "unwinding", "crashed"}

Fates   == {"new", "queued", "current", "handled", "panicked", "aborted", "cancelled",
            "rejected", "intercepted", "refusedFull", "refusedStopped", "lost"}
Replies == {"none", "waiting", "ok", "cancelled", "rejected", "closed"}

\* Watch entries are counted per watcher: the order in which a task notifies its
\* watchers is left open.
NoEntries == [w \in Actors |-> 0]

\* The distinct elements of a queue.
Elems(q) == {q[i] : i \in DOMAIN q}

-----------------------------------------------------------------------------
(***************************************************************************)
(* The mailbox channel (MailboxSender, tokio mpsc).                        *)
(***************************************************************************)

\* The receiver is dropped when the task is gone.
IsClosed(a) == phase[a] \in {"unborn", "ended", "crashed"}

IsFull(a) == Capacity[a] > 0 /\ Len(mailbox[a]) >= Capacity[a]

\* MailboxSender::send: what the sender learns.
SendResult(a) ==
    IF IsClosed(a) THEN "stopped"
    ELSE IF ~IsFull(a) THEN "ok"
    ELSE IF overflow[a] = "DropNewest" THEN "dropped" ELSE "full"

\* The channel has a sender as long as a reference, the registry or a watch
\* entry (WatchEntry::notify captures the watcher's sender) holds a clone.
HasSender(a) ==
    \/ held[a]
    \/ \E n \in Names : registry[n] = a
    \/ \E t \in Actors : watchers[t][a] > 0 \/ entries[t][a] > 0

Spawned(a) == phase[a] # "unborn"

\* TestActorRef::is_alive.
IsAlive(a) == alive[a] /\ ~IsClosed(a)

TaskType ==
    /\ phase \in [Actors -> Phases]
    /\ alive \in [Actors -> BOOLEAN]
    /\ mailbox \in [Actors -> Seq(Items)]
    /\ \A a \in Actors : Capacity[a] > 0 => Len(mailbox[a]) <= Capacity[a]
    /\ cur \in [Actors -> Items]

RefType ==
    /\ name \in [Actors -> Names \cup {None}]
    /\ overflow \in [Actors -> Strategies \cup {None}]
    /\ held \in [Actors -> BOOLEAN]
    /\ registry \in [Names -> Actors \cup {None}]

StopType ==
    /\ watchers \in [Actors -> [Actors -> Nat]]
    /\ entries \in [Actors -> [Actors -> Nat]]
    /\ due \in [Actors -> [Actors -> Nat]]
    /\ stopRx \in [Actors -> {"none", "stored", "awaiting", "returned", "dropped"}]
    /\ stopCalls \in [Actors -> Nat]
    /\ owed \subseteq Actors \X Actors
    /\ told \subseteq Actors \X Actors

MsgType ==
    /\ fate \in [Msgs -> Fates]
    /\ reply \in [Asks -> Replies]
    /\ cancelled \subseteq Asks
    /\ started \subseteq Msgs
    /\ completed \in [Msgs -> Nat]

TypeOK == TaskType /\ RefType /\ StopType /\ MsgType

Init ==
    /\ phase = [a \in Actors |-> "unborn"]
    /\ alive = [a \in Actors |-> FALSE]
    /\ mailbox = [a \in Actors |-> <<>>]
    /\ cur = [a \in Actors |-> None]
    /\ name = [a \in Actors |-> None]
    /\ overflow = [a \in Actors |-> None]
    /\ held = [a \in Actors |-> FALSE]
    /\ registry = [n \in Names |-> None]
    /\ watchers = [a \in Actors |-> NoEntries]
    /\ entries = [a \in Actors |-> NoEntries]
    /\ due = [a \in Actors |-> NoEntries]
    /\ stopRx = [a \in Actors |-> "none"]
    /\ stopCalls = [a \in Actors |-> 0]
    /\ fate = [m \in Msgs |-> "new"]
    /\ reply = [m \in Asks |-> "none"]
    /\ cancelled = {}
    /\ started = {}
    /\ completed = [m \in Msgs |-> 0]
    /\ owed = {}
    /\ told = {}

-----------------------------------------------------------------------------
(***************************************************************************)
(* The user side: references, the runtime handle, cancellation tokens.     *)
(***************************************************************************)

\* TestRuntime::spawn_internal, the part that runs in the caller.
Spawn(a, n, o) ==
    /\ ~Spawned(a)
    /\ Capacity[a] = 0 <=> o = None
    /\ overflow' = [overflow EXCEPT ![a] = o]
    /\ phase' = [phase EXCEPT ![a] = "starting"]
    /\ alive' = [alive EXCEPT ![a] = TRUE]
    /\ name' = [name EXCEPT ![a] = n]
    /\ held' = [held EXCEPT ![a] = TRUE]
    /\ registry' = [registry EXCEPT ![n] = a]
    /\ stopRx' = [stopRx EXCEPT ![a] = "stored"]
    /\ UNCHANGED <<mailbox, cur, watchers, entries, due, stopCalls, owed, told>>
    /\ UNCHANGED msgVars

\* User code drops every reference it has to a.
DropRefs(a) ==
    /\ held[a]
    /\ held' = [held EXCEPT ![a] = FALSE]
    /\ UNCHANGED <<name, overflow, registry>>
    /\ UNCHANGED taskVars /\ UNCHANGED stopVars /\ UNCHANGED msgVars

\* ActorRegistry::lookup clones the registered reference.
Lookup(n) ==
    /\ registry[n] # None
    /\ held' = [held EXCEPT ![registry[n]] = TRUE]
    /\ UNCHANGED <<name, overflow, registry>>
    /\ UNCHANGED taskVars /\ UNCHANGED stopVars /\ UNCHANGED msgVars

\* ActorRegistry::unregister, called by user code.
Unregister(n) ==
    /\ registry[n] # None
    /\ registry' = [registry EXCEPT ![n] = None]
    /\ UNCHANGED <<name, overflow, held>>
    /\ UNCHANGED taskVars /\ UNCHANGED stopVars /\ UNCHANGED msgVars

\* The reply channel of ask m is resolved with r; a tell has none.
Resolve(m, r) == IF m \in Asks THEN [reply EXCEPT ![m] = r] ELSE reply

\* An outbound interceptor drops or rejects m: a tell returns Ok, an ask an
\* already resolved reply.
OutboundStop(a, m) ==
    /\ held[a] /\ fate[m] = "new"
    /\ fate' = [fate EXCEPT ![m] = "intercepted"]
    /\ reply' = Resolve(m, "rejected")
    /\ UNCHANGED <<cancelled, started, completed>>
    /\ UNCHANGED taskVars /\ UNCHANGED refVars /\ UNCHANGED stopVars

\* A bounded mailbox that takes one message too many.
Send_OverCapacity(a, m) ==
    /\ held[a] /\ fate[m] = "new"
    /\ ~IsClosed(a)
    /\ mailbox' = [mailbox EXCEPT ![a] = Append(@, m)]
    /\ fate' = [fate EXCEPT ![m] = "queued"]
    /\ reply' = Resolve(m, "waiting")
    /\ UNCHANGED <<phase, alive, cur, cancelled, started, completed>>
    /\ UNCHANGED refVars /\ UNCHANGED stopVars

\* TestActorRef::tell and ask, past the outbound pipeline.  A refused message
\* goes to the dead letter handler and the caller gets the error; a message
\* dropped by DropNewest takes its reply channel with it.
Send(a, m) ==
    /\ held[a] /\ fate[m] = "new"
    /\ \/ /\ SendResult(a) = "ok"
          /\ mailbox' = [mailbox EXCEPT ![a] = Append(@, m)]
          /\ fate' = [fate EXCEPT ![m] = "queued"]
          /\ reply' = Resolve(m, "waiting")
       \/ /\ SendResult(a) = "dropped"
          /\ fate' = [fate EXCEPT ![m] = "lost"]
          /\ reply' = Resolve(m, "closed")
          /\ UNCHANGED mailbox
       \/ /\ SendResult(a) = "full"
          /\ fate' = [fate EXCEPT ![m] = "refusedFull"]
          /\ UNCHANGED <<mailbox, reply>>
       \/ /\ SendResult(a) = "stopped"
          /\ fate' = [fate EXCEPT ![m] = "refusedStopped"]
          /\ UNCHANGED <<mailbox, reply>>
    /\ UNCHANGED <<phase, alive, cur, cancelled, started, completed>>
    /\ UNCHANGED refVars /\ UNCHANGED stopVars

\* The caller cancels the token it gave to ask m.
Cancel(m) ==
    /\ m \in Cancellable \ cancelled
    /\ cancelled' = cancelled \cup {m}
    /\ UNCHANGED <<fate, reply, started, completed>>
    /\ UNCHANGED taskVars /\ UNCHANGED refVars /\ UNCHANGED stopVars

\* stop() that only marks the actor dead.
Stop_NoSignal(a) ==
    /\ held[a] /\ stopCalls[a] < MaxStops
    /\ stopCalls' = [stopCalls EXCEPT ![a] = @ + 1]
    /\ alive' = [alive EXCEPT ![a] = FALSE]
    /\ UNCHANGED <<phase, mailbox, cur, watchers, entries, due, stopRx, owed, told>>
    /\ UNCHANGED refVars /\ UNCHANGED msgVars

\* TestActorRef::stop: alive is cleared first, then force_send(None), whose
\* try_send is ignored when the mailbox is full or closed.
Stop(a) ==
    /\ held[a] /\ stopCalls[a] < MaxStops
    /\ stopCalls' = [stopCalls EXCEPT ![a] = @ + 1]
    /\ alive' = [alive EXCEPT ![a] = FALSE]
    /\ mailbox' = [mailbox EXCEPT ![a] = IF IsClosed(a) \/ IsFull(a) THEN @ ELSE Append(@, None)]
    /\ UNCHANGED <<phase, cur, watchers, entries, due, stopRx, owed, told>>
    /\ UNCHANGED refVars /\ UNCHANGED msgVars

\* TestRuntime::watch: w is to be told when t terminates.
Watch(w, t) ==
    /\ held[w] /\ Spawned(t)
    /\ watchers[t][w] < MaxWatches
    /\ watchers' = [watchers EXCEPT ![t][w] = @ + 1]
    /\ owed' = IF IsAlive(t) THEN owed \cup {<<w, t>>} ELSE owed
    /\ UNCHANGED <<entries, due, stopRx, stopCalls, told>>
    /\ UNCHANGED taskVars /\ UNCHANGED refVars /\ UNCHANGED msgVars

\* TestRuntime::unwatch removes every entry of w for t.
Unwatch(w, t) ==
    /\ watchers[t][w] > 0
    /\ watchers' = [watchers EXCEPT ![t][w] = 0]
    /\ owed' = owed \ {<<w, t>>}
    /\ UNCHANGED <<entries, due, stopRx, stopCalls, told>>
    /\ UNCHANGED taskVars /\ UNCHANGED refVars /\ UNCHANGED msgVars

\* await_stop takes the stop receiver of a out of the map.  (For an id without a
\* stored receiver it returns Ok at once and changes nothing.)
AwaitStop(a) ==
    /\ stopRx[a] = "stored"
    /\ stopRx' = [stopRx EXCEPT ![a] = "awaiting"]
    /\ UNCHANGED <<watchers, entries, due, stopCalls, owed, told>>
    /\ UNCHANGED taskVars /\ UNCHANGED refVars /\ UNCHANGED msgVars

\* await_all drains the map and awaits every receiver.
AwaitAll ==
    /\ \E a \in Actors : stopRx[a] = "stored"
    /\ stopRx' = [a \in Actors |-> IF stopRx[a] = "stored" THEN "awaiting" ELSE stopRx[a]]
    /\ UNCHANGED <<watchers, entries, due, stopCalls, owed, told>>
    /\ UNCHANGED taskVars /\ UNCHANGED refVars /\ UNCHANGED msgVars

\* The oneshot behind the receiver is resolved: a result was sent, or its
\* sender was dropped by a task that a panic unwound.
StopSignalled(a) == phase[a] \in {"signalled", "ended", "crashed"}

AwaitReturns(a) ==
    /\ stopRx[a] = "awaiting" /\ StopSignalled(a)
    /\ stopRx' = [stopRx EXCEPT ![a] = "returned"]
    /\ UNCHANGED <<watchers, entries, due, stopCalls, owed, told>>
    /\ UNCHANGED taskVars /\ UNCHANGED refVars /\ UNCHANGED msgVars

\* cleanup_finished keeps only the receivers that are still empty.
CleanupFinished ==
    /\ \E a \in Actors : stopRx[a] = "stored" /\ StopSignalled(a)
    /\ stopRx' = [a \in Actors |->
                     IF stopRx[a] = "stored" /\ StopSignalled(a) THEN "dropped" ELSE stopRx[a]]
    /\ UNCHANGED <<watchers, entries, due, stopCalls, owed, told>>
    /\ UNCHANGED taskVars /\ UNCHANGED refVars /\ UNCHANGED msgVars

-----------------------------------------------------------------------------
(***************************************************************************)
(* The task of an actor.                                                   *)
(***************************************************************************)

\* The task ends and drops its receiver: what is still queued is dropped
\* without a dead letter, and the callers of the asks see a closed channel.
DropMailbox(a) ==
    /\ mailbox' = [mailbox EXCEPT ![a] = <<>>]
    /\ fate' = [m \in Msgs |-> IF m \in Elems(mailbox[a]) THEN "lost" ELSE fate[m]]
    /\ reply' = [m \in Asks |-> IF m \in Elems(mailbox[a]) THEN "closed" ELSE reply[m]]

\* A::create and on_start.
StartOk(a) ==
    /\ phase[a] = "starting"
    /\ phase' = [phase EXCEPT ![a] = "recv"]
    /\ UNCHANGED <<alive, mailbox, cur>>
    /\ UNCHANGED refVars /\ UNCHANGED stopVars /\ UNCHANGED msgVars

\* A panic there unwinds the whole task, as one in a later hook does: the receiver
\* goes and none of the clean-up below runs.
TaskUnwinds(a) ==
    /\ phase[a] = "unwinding" \/ (phase[a] = "starting" /\ HooksMayPanic)
    /\ phase' = [phase EXCEPT ![a] = "crashed"]
    /\ DropMailbox(a)
    /\ UNCHANGED <<alive, cur, cancelled, started, completed>>
    /\ UNCHANGED refVars /\ UNCHANGED stopVars

\* Leaving the loop: alive is cleared before on_stop runs.
LeaveLoop_StillAlive(a) ==
    /\ phase' = [phase EXCEPT ![a] = "exiting"]
    /\ UNCHANGED alive

LeaveLoop(a) ==
    /\ phase' = [phase EXCEPT ![a] = "exiting"]
    /\ alive' = [alive EXCEPT ![a] = FALSE]

\* rx.recv() yields the stop signal, or all senders are gone.
ReceiveStop(a) ==
    /\ phase[a] = "recv"
    /\ \/ /\ mailbox[a] # <<>> /\ Head(mailbox[a]) = None
          /\ mailbox' = [mailbox EXCEPT ![a] = Tail(@)]
       \/ /\ mailbox[a] = <<>> /\ ~HasSender(a)
          /\ UNCHANGED mailbox
    /\ LeaveLoop(a)
    /\ UNCHANGED cur
    /\ UNCHANGED refVars /\ UNCHANGED stopVars /\ UNCHANGED msgVars

\* An interceptor stops the message, and the caller is not told.
Reject_NoReply(a) ==
    /\ phase[a] = "recv" /\ mailbox[a] # <<>> /\ Head(mailbox[a]) # None
    /\ mailbox' = [mailbox EXCEPT ![a] = Tail(@)]
    /\ fate' = IF Head(mailbox[a]) \in Msgs THEN [fate EXCEPT ![Head(mailbox[a])] = "rejected"]
                                            ELSE fate
    /\ UNCHANGED <<phase, alive, cur, reply, cancelled, started, completed>>
    /\ UNCHANGED refVars /\ UNCHANGED stopVars

\* rx.recv() yields a message that an inbound interceptor drops, rejects or
\* asks to retry: dispatch.reject tells the caller.
Reject(a) ==
    /\ phase[a] = "recv" /\ mailbox[a] # <<>> /\ Head(mailbox[a]) # None
    /\ mailbox' = [mailbox EXCEPT ![a] = Tail(@)]
    /\ fate' = IF Head(mailbox[a]) \in Msgs THEN [fate EXCEPT ![Head(mailbox[a])] = "rejected"]
                                            ELSE fate
    /\ reply' = Resolve(Head(mailbox[a]), "rejected")
    /\ UNCHANGED <<phase, alive, cur, cancelled, started, completed>>
    /\ UNCHANGED refVars /\ UNCHANGED stopVars

\* rx.recv() yields a message that every inbound interceptor lets pass
\* (Continue or Delay: the loop sleeps before it goes on).
Admit(a) ==
    /\ phase[a] = "recv" /\ mailbox[a] # <<>> /\ Head(mailbox[a]) # None
    /\ mailbox' = [mailbox EXCEPT ![a] = Tail(@)]
    /\ cur' = [cur EXCEPT ![a] = Head(mailbox[a])]
    /\ phase' = [phase EXCEPT ![a] = "admitted"]
    /\ fate' = IF Head(mailbox[a]) \in Msgs THEN [fate EXCEPT ![Head(mailbox[a])] = "current"]
                                            ELSE fate
    /\ UNCHANGED <<alive, reply, cancelled, started, completed>>
    /\ UNCHANGED refVars /\ UNCHANGED stopVars

\* The loop is done with its item, whose message fares as f.
Finish(a, f) ==
    /\ cur' = [cur EXCEPT ![a] = None]
    /\ fate' = IF cur[a] \in Msgs THEN [fate EXCEPT ![cur[a]] = f] ELSE fate

\* A handler that is entered before the token is looked at.
Dispatch_CheckLate(a) ==
    /\ phase[a] = "admitted"
    /\ started' = (started \cup {cur[a]}) \cap Msgs
    /\ IF cur[a] \in cancelled
       THEN /\ Finish(a, "cancelled")
            /\ phase' = [phase EXCEPT ![a] = "recv"]
            /\ reply' = Resolve(cur[a], "cancelled")
       ELSE /\ phase' = [phase EXCEPT ![a] = "handling"]
            /\ UNCHANGED <<cur, fate, reply>>
    /\ UNCHANGED <<alive, mailbox, cancelled, completed>>
    /\ UNCHANGED refVars /\ UNCHANGED stopVars

\* The check before dispatch: a cancelled ask is answered with
\* RuntimeError::Cancelled, anything else enters its handler.
Dispatch(a) ==
    /\ phase[a] = "admitted"
    /\ IF cur[a] \in cancelled
       THEN /\ Finish(a, "cancelled")
            /\ phase' = [phase EXCEPT ![a] = "recv"]
            /\ reply' = Resolve(cur[a], "cancelled")
            /\ UNCHANGED started
       ELSE /\ phase' = [phase EXCEPT ![a] = "handling"]
            /\ started' = (started \cup {cur[a]}) \cap Msgs
            /\ UNCHANGED <<cur, fate, reply>>
    /\ UNCHANGED <<alive, mailbox, cancelled, completed>>
    /\ UNCHANGED refVars /\ UNCHANGED stopVars

\* The select! around the handler finds the token cancelled before the handler is
\* done: the handler's future is dropped with the reply sender in it, and the loop
\* goes on without calling on_complete.
AbortHandler(a) ==
    /\ phase[a] = "handling" /\ cur[a] \in cancelled
    /\ Finish(a, "aborted")
    /\ phase' = [phase EXCEPT ![a] = "recv"]
    /\ reply' = Resolve(cur[a], "closed")
    /\ UNCHANGED <<alive, mailbox, cancelled, started, completed>>
    /\ UNCHANGED refVars /\ UNCHANGED stopVars

\* on_complete of an inbound interceptor for item i.
OnComplete(i) == IF i \in Msgs THEN [completed EXCEPT ![i] = @ + 1] ELSE completed

\* The handler returns and the interceptors see the reply ...
HandlerReturns(a) ==
    /\ phase[a] = "handling"
    /\ phase' = [phase EXCEPT ![a] = "completing"]
    /\ completed' = OnComplete(cur[a])
    /\ UNCHANGED <<alive, mailbox, cur, fate, reply, cancelled, started>>
    /\ UNCHANGED refVars /\ UNCHANGED stopVars

\* ... before DispatchResult::send_reply hands it to the caller.
SendReply(a) ==
    /\ phase[a] = "completing"
    /\ Finish(a, "handled")
    /\ phase' = [phase EXCEPT ![a] = "recv"]
    /\ reply' = Resolve(cur[a], "ok")
    /\ UNCHANGED <<alive, mailbox, cancelled, started, completed>>
    /\ UNCHANGED refVars /\ UNCHANGED stopVars

\* The handler (or a wrap_handler scope around it) panics; unwinding drops the
\* reply sender.
HandlerPanics(a) ==
    /\ phase[a] = "handling"
    /\ phase' = [phase EXCEPT ![a] = "panicked"]
    /\ reply' = Resolve(cur[a], "closed")
    /\ UNCHANGED <<alive, mailbox, cur, fate, cancelled, started, completed>>
    /\ UNCHANGED refVars /\ UNCHANGED stopVars

\* Actor::on_error decides.  Restart is treated as Resume, Escalate as Stop.
OnError(a) ==
    /\ phase[a] = "panicked"
    /\ Finish(a, "panicked")
    /\ completed' = OnComplete(cur[a])
    /\ \/ /\ phase' = [phase EXCEPT ![a] = "recv"]      \* Resume, Restart
          /\ UNCHANGED alive
       \/ LeaveLoop(a)                                  \* Stop, Escalate
    /\ UNCHANGED <<mailbox, reply, cancelled, started>>
    /\ UNCHANGED refVars /\ UNCHANGED stopVars

\* Nothing catches the panic of an interceptor (on_receive or wrap_handler before the
\* handler is entered, on_complete after it) or of on_error: the message in hand is
\* dropped with its reply sender, then the rest of the task.
HookPanics(a) ==
    /\ HooksMayPanic /\ phase[a] \in {"admitted", "handling", "panicked"}
    /\ Finish(a, "panicked")
    /\ phase' = [phase EXCEPT ![a] = "unwinding"]
    /\ reply' = Resolve(cur[a], "closed")
    /\ UNCHANGED <<alive, mailbox, cancelled, started, completed>>
    /\ UNCHANGED refVars /\ UNCHANGED stopVars

\* on_stop returns or panics (the panic is caught and only becomes the result of
\* await_stop), then the watch entries are taken out of the map under its lock.
RunOnStop(a) ==
    /\ phase[a] = "exiting"
    /\ entries' = [entries EXCEPT ![a] = watchers[a]]
    /\ due' = [due EXCEPT ![a] = watchers[a]]
    /\ watchers' = [watchers EXCEPT ![a] = NoEntries]
    /\ phase' = [phase EXCEPT ![a] = "notifying"]
    /\ UNCHANGED <<alive, mailbox, cur, stopRx, stopCalls, owed, told>>
    /\ UNCHANGED refVars /\ UNCHANGED msgVars

\* Notify a watcher through its mailbox; a refused send is ignored.
NotifyWatcher(a, w) ==
    /\ phase[a] = "notifying" /\ due[a][w] > 0
    /\ due' = [due EXCEPT ![a][w] = @ - 1]
    /\ IF SendResult(w) = "ok"
       THEN /\ mailbox' = [mailbox EXCEPT ![w] = Append(@, a)]
            /\ told' = told \cup {<<w, a>>}
       ELSE UNCHANGED <<mailbox, told>>
    /\ UNCHANGED <<phase, alive, cur, watchers, entries, stopRx, stopCalls, owed>>
    /\ UNCHANGED refVars /\ UNCHANGED msgVars

\* stop_tx.send(result).
SignalStop(a) ==
    /\ phase[a] = "notifying" /\ due[a] = NoEntries
    /\ phase' = [phase EXCEPT ![a] = "signalled"]
    /\ UNCHANGED <<alive, mailbox, cur>>
    /\ UNCHANGED refVars /\ UNCHANGED stopVars /\ UNCHANGED msgVars

\* A task that keeps serving its mailbox after it told everyone it stopped.
EndTask_Restart(a) ==
    /\ phase[a] = "signalled"
    /\ phase' = [phase EXCEPT ![a] = "recv"]
    /\ entries' = [entries EXCEPT ![a] = NoEntries]
    /\ UNCHANGED <<alive, mailbox, cur, watchers, due, stopRx, stopCalls, owed, told>>
    /\ UNCHANGED refVars
    /\ UNCHANGED msgVars

\* A task whose queued messages stay in limbo when it ends.
EndTask_KeepMailbox(a) ==
    /\ phase[a] = "signalled"
    /\ phase' = [phase EXCEPT ![a] = "ended"]
    /\ registry' = [registry EXCEPT ![name[a]] = None]
    /\ entries' = [entries EXCEPT ![a] = NoEntries]
    /\ mailbox' = [mailbox EXCEPT ![a] = <<>>]
    /\ UNCHANGED <<alive, cur, name, overflow, held, watchers, due, stopRx, stopCalls, owed, told>>
    /\ UNCHANGED msgVars

\* registry.unregister(name), then the task returns and drops what it owns.
EndTask(a) ==
    /\ phase[a] = "signalled"
    /\ phase' = [phase EXCEPT ![a] = "ended"]
    /\ registry' = [registry EXCEPT ![name[a]] = None]
    /\ entries' = [entries EXCEPT ![a] = NoEntries]
    /\ DropMailbox(a)
    /\ UNCHANGED <<alive, cur, name, overflow, held, watchers, due, stopRx, stopCalls, owed, told,
                   cancelled, started, completed>>

\* What the task of a does by itself.
TaskStep(a) ==
    \/ StartOk(a) \/ TaskUnwinds(a)
    \/ ReceiveStop(a) \/ Reject(a) \/ Admit(a)
    \/ Dispatch(a) \/ AbortHandler(a) \/ HandlerReturns(a) \/ SendReply(a)
    \/ HandlerPanics(a) \/ OnError(a) \/ HookPanics(a)
    \/ RunOnStop(a) \/ (\E w \in Actors : NotifyWatcher(a, w)) \/ SignalStop(a) \/ EndTask(a)

UserStep ==
    \/ \E a \in Actors, n \in Names, o \in Strategies \cup {None} : Spawn(a, n, o)
    \/ \E a \in Actors, m \in Msgs : OutboundStop(a, m) \/ Send(a, m)
    \/ \E m \in Msgs : Cancel(m)
    \/ \E a \in Actors : Stop(a)
    \/ /\ "refs" \in UserOps
       /\ \/ \E a \in Actors : DropRefs(a)
          \/ \E n \in Names : Lookup(n) \/ Unregister(n)
    \/ /\ "watch" \in UserOps
       /\ \E w, t \in Actors : <<w, t>> \in WatchPairs /\ (Watch(w, t) \/ Unwatch(w, t))
    \/ /\ "await" \in UserOps
       /\ \/ \E a \in Actors : AwaitStop(a) \/ AwaitReturns(a)
          \/ AwaitAll
          \/ CleanupFinished

Next == UserStep \/ \E a \in Actors : TaskStep(a)

\* The tokio scheduler runs every task that can run; handlers and hooks return.
Fairness == \A a \in Actors : WF_vars(TaskStep(a))

Spec == Init /\ [][Next]_vars /\ Fairness

-----------------------------------------------------------------------------
(***************************************************************************)
(* The runtime implements ActorContract: a message is running while its    *)
(* handler is entered and the loop still has it in hand.                   *)
(***************************************************************************)

ContractLife ==
    [a \in Actors |-> IF phase[a] = "unborn" THEN "none"
                      ELSE IF phase[a] \in Terminal THEN "down" ELSE "up"]

ContractBusy ==
    [a \in Actors |-> IF phase[a] \in {"handling", "panicked", "completing"} /\ cur[a] \in Msgs
                      THEN cur[a] ELSE None]

ContractState ==
    [m \in Msgs |-> CASE fate[m] = "new" -> "new"
                      [] fate[m] = "queued" -> "accepted"
                      [] fate[m] = "current" -> IF m \in started THEN "running" ELSE "accepted"
                      [] fate[m] = "handled" -> "done"
                      [] OTHER -> "failed"]

Contract == INSTANCE ActorContract
                WITH life <- ContractLife, busy <- ContractBusy, state <- ContractState

-----------------------------------------------------------------------------
(***************************************************************************)
(* Properties.                                                             *)
(***************************************************************************)

\* No caller waits for nobody: while the reply channel of an ask is open and
\* empty, some actor whose task still runs has the message in its mailbox or in
\* hand.  About every path of the loop that drops a message (reject, cancel,
\* abort, panic, end of task): each must resolve or drop the reply sender.
WaitingIsHeld ==
    \A m \in Asks : reply[m] = "waiting" =>
        \E a \in Actors : /\ ~IsClosed(a)
                          /\ m \in Elems(mailbox[a]) \cup {cur[a]}

\* What an error tells the caller: after RuntimeError::Cancelled or a rejection
\* the handler did not run and no interceptor saw it complete, so the request
\* may be repeated; after a success every interceptor has seen the reply, once.
ReplyIsTruthful ==
    \A m \in Asks :
        /\ reply[m] \in {"cancelled", "rejected"} => m \notin started /\ completed[m] = 0
        /\ reply[m] = "ok" => m \in started /\ completed[m] = 1

\* Termination is final for whoever hears of it: once a ChildTerminated about t
\* is under way, or an await_stop on t returned, the task of t is out of its
\* message loop and no reference reports t to be alive.
TerminationIsFinal ==
    \A t \in Actors :
        (stopRx[t] = "returned" \/ \E w \in Actors : <<w, t>> \in told)
            => phase[t] \in Terminal /\ ~IsAlive(t)

\* A watch made while the target reports is_alive() is never missed: when the
\* target's task has ended, the watcher was told, unless it withdrew, is gone
\* itself, or has a bounded mailbox that may have been full.  (A task that a panic
\* outside of the handler unwound tells nobody.)  This rests on the loop clearing
\* `alive' before it takes the entries out of the WatcherMap.
AliveWatchIsTold ==
    \A w, t \in Actors :
        (<<w, t>> \in owed /\ phase[t] = "ended" /\ Capacity[w] = 0)
            => <<w, t>> \in told \/ IsClosed(w)

\* The runtime implements the contract of an actor: one message at a time, none
\* after termination, each at most once, and all of them come to an end.
ImplementsContract == Contract!Spec

\* Every accepted request is answered or its channel closed, whatever is
\* stopped, cancelled or panics meanwhile.
AskResolves == \A m \in Asks : (reply[m] = "waiting") ~> (reply[m] # "waiting")

\* stop() terminates an actor with an unbounded mailbox, whatever is queued.
StopTerminates ==
    \A a \in Actors : (stopCalls[a] > 0 /\ Capacity[a] = 0) ~> (phase[a] \in {"ended", "crashed"})
=============================================================================
