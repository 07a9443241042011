---------------------------- MODULE AdapterActor ----------------------------
(***************************************************************************)
(* What the runtimes of dactor-ractor, dactor-kameo and dactor-coerce have *)
(* in common: a dactor actor lives inside an actor of the framework.  The  *)
(* framework's inbox is unbounded; an actor spawned with a bounded mailbox *)
(* has a bounded channel in front of it, which a forwarder task drains     *)
(* into the inbox.  Notifications of terminated actors, and the framework's *)
(* own stop, do not go through that channel.                               *)
(*                                                                         *)
(* The operators below are the pieces that the three runtimes put together *)
(* in RactorActor, KameoActor and CoerceActor.  In an inbox, `None' is the *)
(* framework's stop message and an actor t the ChildTerminated about t.    *)
(***************************************************************************)
EXTENDS Naturals, Sequences, SequencesExt, FiniteSets

CONSTANTS
    Actors,       \* actor ids, each spawned at most once
    Msgs,         \* messages, each sent at most once
    KindsOf,      \* bound: per actor and message, the ways in which it may be sent
    Cancellable,  \* the messages that carry a CancellationToken
    Capacity,     \* per actor: MailboxConfig::Bounded capacity, 0 for Unbounded
    Strategies,   \* the OverflowStrategy values of the bounded mailboxes
    WatchPairs,   \* bound: the <<watcher, target>> pairs users ask for
    MaxWatches,   \* bound: watch entries per target and watcher
    Awaited,      \* bound: the actors whose end users await
    Stoppable,    \* bound: the actors on which users call stop()
    None

SendModes == {"tell", "ask", "expand", "reduce", "transform"}

ASSUME AdapterAssumption ==
    /\ Actors \cap Msgs = {} /\ None \notin Actors \cup Msgs
    /\ KindsOf \in [Actors \X Msgs -> SUBSET SendModes]
    /\ Cancellable \subseteq Msgs
    /\ Capacity \in [Actors -> Nat]
    /\ Strategies \subseteq {"RejectWithError", "DropNewest", "Block"}
    /\ WatchPairs \subseteq Actors \X Actors
    /\ MaxWatches \in Nat
    /\ Awaited \subseteq Actors /\ Stoppable \subseteq Actors

VARIABLES
    adapter,    \* which of the runtimes this is
    act,        \* the actors: wrapper, inbox, front channel and forwarder
    msg,        \* the messages: how they were sent and what became of them
    cancelled,  \* messages whose token is cancelled
    watchers,   \* WatcherMap: target -> how many entries each watcher has
    stopRx,     \* stop_receivers: the receiver of each actor
    told        \* history: <<w, t, reason>> for each ChildTerminated accepted by w

avars == <<adapter, act, msg, cancelled, watchers, stopRx, told>>

Phases == {"unborn", "starting", "recv", "admitted", "handling", "exiting", "ended", "crashed"}
Items  == {None} \cup Actors \cup Msgs

ActorState ==
    [phase : Phases, cur : Items, front : Seq(Msgs), inbox : Seq(Items), open : BOOLEAN,
     fwd : {"none", "up", "down"}, halt : BOOLEAN, overflow : Strategies \cup {None},
     reason : {"none", "failed"}, signal : {"none", "ok", "err", "dropped"}]

MsgState ==
    [chan : {"none", "oneshot", "stream"},
     fate : {"new", "queued", "current", "entered", "handled", "failed"},
     reply : {"none", "waiting", "ok", "error", "closed"},
     dead : BOOLEAN]

NoEntries == [w \in Actors |-> 0]

AInit(ad) ==
    /\ adapter = ad
    /\ act = [a \in Actors |->
                 [phase |-> "unborn", cur |-> None, front |-> <<>>, inbox |-> <<>>, open |-> FALSE,
                  fwd |-> "none", halt |-> FALSE, overflow |-> None, reason |-> "none",
                  signal |-> "none"]]
    /\ msg = [m \in Msgs |-> [chan |-> "none", fate |-> "new", reply |-> "none", dead |-> FALSE]]
    /\ cancelled = {}
    /\ watchers = [a \in Actors |-> NoEntries]
    /\ stopRx = [a \in Actors |-> "none"]
    /\ told = {}

Down == {"exiting", "ended", "crashed"}
Spawned(a) == act[a].phase # "unborn"

\* What the caller is left with: nothing, a reply channel or an output stream.
ChannelOf(mode) ==
    CASE mode = "tell" -> "none"
      [] mode \in {"ask", "reduce"} -> "oneshot"
      [] OTHER -> "stream"

\* What becomes of the caller's end of m when the dispatch is answered with r, or
\* dropped (r = "closed"): a tell has no reply, and a stream can only end.
Answer(s, r) ==
    CASE s.chan = "none" -> s.reply
      [] s.chan = "oneshot" -> r
      [] OTHER -> IF r = "error" THEN "closed" ELSE r

\* The dispatch goes on to f with answer r; with its end it gives up its channel.
Settle(s, f, r) ==
    [s EXCEPT !.fate = f, !.reply = Answer(s, r), !.chan = IF f = "queued" THEN @ ELSE "none"]

\* The messages of M are dropped with the queue that held them.
DropAll(M) == [m \in Msgs |-> IF m \in M THEN Settle(msg[m], "failed", "closed") ELSE msg[m]]

-----------------------------------------------------------------------------
(***************************************************************************)
(* Sending.                                                                *)
(***************************************************************************)

\* What BoundedMailboxSender::try_send, or the framework's own send, says.
SendResult(a) ==
    IF act[a].fwd = "none" THEN IF act[a].open THEN "ok" ELSE "stopped"
    ELSE IF act[a].fwd = "down" THEN "stopped"
    ELSE IF Len(act[a].front) < Capacity[a] THEN "ok"
    ELSE IF act[a].overflow = "DropNewest" THEN "dropped" ELSE "full"

\* send_dispatch: the front channel if there is one, else the inbox.
Enqueue(a, i) ==
    IF act[a].fwd = "none" THEN [act EXCEPT ![a].inbox = Append(@, i)]
                           ELSE [act EXCEPT ![a].front = Append(@, i)]

\* tell, ask, expand, reduce and transform past their outbound pipeline.  Only a
\* refused tell or ask is reported to the dead letter handler.
SendDispatch(a, m, mode) ==
    LET s == [msg[m] EXCEPT !.chan = ChannelOf(mode)]
        r == SendResult(a)
    IN  /\ Spawned(a) /\ msg[m].fate = "new" /\ mode \in KindsOf[<<a, m>>]
        /\ act' = IF r = "ok" THEN Enqueue(a, m) ELSE act
        /\ msg' = [msg EXCEPT ![m] =
                      CASE r = "ok"      -> Settle(s, "queued", "waiting")
                        [] r = "dropped" -> Settle(s, "failed", "closed")
                        [] OTHER         -> [msg[m] EXCEPT !.fate = "failed",
                                                           !.dead = mode \in {"tell", "ask"}]]
        /\ UNCHANGED <<adapter, cancelled, watchers, stopRx, told>>

\* An outbound interceptor stops the message: a tell returns Ok, an ask an error in
\* its reply, an expand an error.  reduce and transform do not ask on_send.
Intercepted(a, m, mode) ==
    /\ Spawned(a) /\ msg[m].fate = "new" /\ mode \in KindsOf[<<a, m>>] \cap {"tell", "ask", "expand"}
    /\ msg' = [msg EXCEPT ![m].fate = "failed", ![m].reply = IF mode = "ask" THEN "error" ELSE @]
    /\ UNCHANGED <<adapter, act, cancelled, watchers, stopRx, told>>

\* The caller cancels the token it passed with m.
CancelToken(m) ==
    /\ m \in Cancellable \ cancelled /\ msg[m].fate # "new"
    /\ cancelled' = cancelled \cup {m}
    /\ UNCHANGED <<adapter, act, msg, watchers, stopRx, told>>

\* A forwarder that ends and leaves its messages to nobody.
Forward_KeepsRest(a) ==
    /\ act[a].fwd = "up" /\ act[a].front # <<>>
    /\ IF act[a].open
       THEN act' = [act EXCEPT ![a].front = Tail(@), ![a].inbox = Append(@, Head(act[a].front))]
       ELSE act' = [act EXCEPT ![a].front = <<>>, ![a].fwd = "down"]
    /\ UNCHANGED <<adapter, msg, cancelled, watchers, stopRx, told>>

\* The forwarder task: brx.recv(), then the framework's send; when that fails the
\* task ends and drops what is left in the channel.
Forward(a) ==
    /\ act[a].fwd = "up" /\ act[a].front # <<>>
    /\ IF act[a].open
       THEN /\ act' = [act EXCEPT ![a].front = Tail(@), ![a].inbox = Append(@, Head(act[a].front))]
            /\ UNCHANGED msg
       ELSE /\ act' = [act EXCEPT ![a].front = <<>>, ![a].fwd = "down"]
            /\ msg' = DropAll(ToSet(act[a].front))
    /\ UNCHANGED <<adapter, cancelled, watchers, stopRx, told>>

-----------------------------------------------------------------------------
(***************************************************************************)
(* The life of an actor.                                                   *)
(***************************************************************************)

\* spawn_internal: the framework actor, the front channel with its forwarder, and
\* the stop receiver.
Begin(a, o, phase) ==
    /\ ~Spawned(a) /\ act[a].signal = "none" /\ (Capacity[a] = 0 <=> o = None)
    /\ act' = [act EXCEPT ![a].phase = phase, ![a].open = TRUE, ![a].overflow = o,
                          ![a].fwd = IF Capacity[a] = 0 THEN "none" ELSE "up"]
    /\ stopRx' = [stopRx EXCEPT ![a] = IF a \in Awaited THEN "stored" ELSE "none"]
    /\ UNCHANGED <<adapter, msg, cancelled, watchers, told>>

\* on_start returns.
Started(a) ==
    /\ act[a].phase = "starting"
    /\ act' = [act EXCEPT ![a].phase = "recv"]
    /\ UNCHANGED <<adapter, msg, cancelled, watchers, stopRx, told>>

\* create or on_start panics in the framework's task: there is no actor to run
\* on_stop, the stop notifier is dropped, and the inbox with it.
StartFails(a) ==
    /\ act[a].phase = "starting"
    /\ act' = [act EXCEPT ![a].phase = "crashed", ![a].open = FALSE, ![a].inbox = <<>>,
                          ![a].signal = "dropped"]
    /\ msg' = DropAll(ToSet(act[a].inbox) \cap Msgs)
    /\ UNCHANGED <<adapter, cancelled, watchers, stopRx, told>>

\* A rejection without the early return: the message is reported and handled.
Reject_GoesOn(a) ==
    /\ act[a].phase = "recv" /\ act[a].inbox # <<>> /\ Head(act[a].inbox) # None
    /\ LET m == Head(act[a].inbox) IN
       /\ act' = [act EXCEPT ![a].inbox = Tail(@), ![a].cur = m, ![a].phase = "admitted"]
       /\ msg' = IF m \in Msgs THEN [msg EXCEPT ![m].fate = "current", ![m].dead = TRUE] ELSE msg
    /\ UNCHANGED <<adapter, cancelled, watchers, stopRx, told>>

\* The framework hands the next message to `handle', and the inbound interceptors
\* stop it: dispatch.reject, and a dead letter if it is dropped.
Reject(a) ==
    /\ act[a].phase = "recv" /\ act[a].inbox # <<>> /\ Head(act[a].inbox) # None
    /\ act' = [act EXCEPT ![a].inbox = Tail(@)]
    /\ LET m == Head(act[a].inbox) IN
       IF m \notin Msgs THEN UNCHANGED msg
       ELSE \E d \in BOOLEAN : msg' = [msg EXCEPT ![m] = [Settle(@, "failed", "error") EXCEPT !.dead = d]]
    /\ UNCHANGED <<adapter, cancelled, watchers, stopRx, told>>

\* They let it pass, at once or after a delay.
Admit(a) ==
    /\ act[a].phase = "recv" /\ act[a].inbox # <<>> /\ Head(act[a].inbox) # None
    /\ LET m == Head(act[a].inbox) IN
       /\ act' = [act EXCEPT ![a].inbox = Tail(@), ![a].cur = m, ![a].phase = "admitted"]
       /\ msg' = IF m \in Msgs THEN [msg EXCEPT ![m].fate = "current"] ELSE msg
    /\ UNCHANGED <<adapter, cancelled, watchers, stopRx, told>>

\* `handle' returns with the message settled (f, r), in phase p of the actor.
Done(a, f, r, p) ==
    /\ act' = [act EXCEPT ![a].cur = None, ![a].phase = p]
    /\ msg' = IF act[a].cur \in Msgs THEN [msg EXCEPT ![act[a].cur] = Settle(@, f, r)] ELSE msg
    /\ UNCHANGED <<adapter, cancelled, watchers, stopRx, told>>

\* The token is looked at before the handler is entered ...
Dispatch(a) ==
    /\ act[a].phase = "admitted"
    /\ IF act[a].cur \in cancelled THEN Done(a, "failed", "error", "recv")
       ELSE /\ act' = [act EXCEPT ![a].phase = "handling"]
            /\ msg' = IF act[a].cur \in Msgs THEN [msg EXCEPT ![act[a].cur].fate = "entered"] ELSE msg
            /\ UNCHANGED <<adapter, cancelled, watchers, stopRx, told>>

\* ... and again by the select! around it, which drops the handler's future.
Abort(a) ==
    /\ act[a].phase = "handling" /\ act[a].cur \in cancelled
    /\ Done(a, "failed", "closed", "recv")

\* The handler returns, the interceptors see the outcome, the reply is sent.
Complete(a) == act[a].phase = "handling" /\ Done(a, "handled", "ok", "recv")

\* The handler panics, and on_error says Resume or Restart ...
PanicResumes(a) == act[a].phase = "handling" /\ Done(a, "failed", "closed", "recv")

\* ... or Stop or Escalate: the stop reason is set and the framework told to stop
\* (halt), or made to leave its loop at once (phase p).  on_error itself and the
\* interceptors are taken not to panic here: what a framework makes of a panic that
\* leaves the wrapper's handle is not in this code.
PanicStops(a, p, halt) ==
    /\ act[a].phase = "handling"
    /\ act' = [act EXCEPT ![a].cur = None, ![a].phase = p, ![a].halt = halt, ![a].reason = "failed"]
    /\ msg' = IF act[a].cur \in Msgs THEN [msg EXCEPT ![act[a].cur] = Settle(@, "failed", "closed")]
                                     ELSE msg
    /\ UNCHANGED <<adapter, cancelled, watchers, stopRx, told>>

\* The framework's inbox is closed some time after the actor has left its loop.
CloseInbox(a) ==
    /\ act[a].phase \in {"exiting", "ended"} /\ act[a].open
    /\ act' = [act EXCEPT ![a].open = FALSE, ![a].inbox = <<>>]
    /\ msg' = DropAll(ToSet(act[a].inbox) \cap Msgs)
    /\ UNCHANGED <<adapter, cancelled, watchers, stopRx, told>>

\* on_stop is run with its panics caught; entries with the actor as target are
\* taken out, those with it as watcher removed; the watchers are told the reason
\* why, through the framework; and the await_stop waiter gets its result.
StopHook(a, panicked, why) ==
    LET tell == {w \in Actors : watchers[a][w] > 0 /\ act[w].open}
        notified(w) == IF w \in tell THEN [act[w] EXCEPT !.inbox = @ \o [i \in 1..watchers[a][w] |-> a]]
                                  ELSE act[w]
    IN  /\ act[a].phase = "exiting"
        /\ act' = [w \in Actors |->
                      IF w # a THEN notified(w)
                      ELSE [notified(a) EXCEPT !.phase = "ended", !.reason = why,
                                            !.signal = IF panicked THEN "err" ELSE "ok"]]
        /\ watchers' = [t \in Actors |-> IF t = a THEN NoEntries ELSE [watchers[t] EXCEPT ![a] = 0]]
        /\ told' = told \cup {<<w, a, why>> : w \in tell}
        /\ UNCHANGED <<adapter, msg, cancelled, stopRx>>

-----------------------------------------------------------------------------
(***************************************************************************)
(* The runtime handle.                                                     *)
(***************************************************************************)

WatchEntry(w, t) ==
    /\ Spawned(w) /\ Spawned(t) /\ watchers[t][w] < MaxWatches
    /\ watchers' = [watchers EXCEPT ![t][w] = @ + 1]
    /\ UNCHANGED <<adapter, act, msg, cancelled, stopRx, told>>

UnwatchEntries(w, t) ==
    /\ watchers[t][w] > 0
    /\ watchers' = [watchers EXCEPT ![t][w] = 0]
    /\ UNCHANGED <<adapter, act, msg, cancelled, stopRx, told>>

\* Take the receivers of A out of the map to await them ...
TakeReceivers(A) ==
    /\ \E a \in A : stopRx[a] = "stored"
    /\ stopRx' = [a \in Actors |-> IF a \in A /\ stopRx[a] = "stored" THEN "awaiting" ELSE stopRx[a]]
    /\ UNCHANGED <<adapter, act, msg, cancelled, watchers, told>>

\* ... which returns what the notifier sent, or an error if it was dropped.
AwaitReturns(a) ==
    /\ stopRx[a] = "awaiting" /\ act[a].signal # "none"
    /\ stopRx' = [stopRx EXCEPT ![a] = IF act[a].signal = "ok" THEN "returned ok" ELSE "returned err"]
    /\ UNCHANGED <<adapter, act, msg, cancelled, watchers, told>>

\* Drop the receivers that have something to say.
DropFinished ==
    /\ \E a \in Actors : stopRx[a] = "stored" /\ act[a].signal # "none"
    /\ stopRx' = [a \in Actors |-> IF stopRx[a] = "stored" /\ act[a].signal # "none"
                                   THEN "dropped" ELSE stopRx[a]]
    /\ UNCHANGED <<adapter, act, msg, cancelled, watchers, told>>

ATypeOK ==
    /\ act \in [Actors -> ActorState]
    /\ \A a \in Actors : Capacity[a] > 0 => Len(act[a].front) <= Capacity[a]
    /\ msg \in [Msgs -> MsgState]
    /\ cancelled \subseteq Cancellable
    /\ watchers \in [Actors -> [Actors -> Nat]]
    /\ stopRx \in [Actors -> {"none", "stored", "awaiting", "returned ok", "returned err", "dropped"}]
    /\ told \subseteq Actors \X Actors \X {"none", "failed"}
=============================================================================
