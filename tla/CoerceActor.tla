---------------------------- MODULE CoerceActor ----------------------------
(***************************************************************************)
(* The actors of dactor-coerce.  The actor is created by the caller of     *)
(* spawn and started in its task; stop() is a message in the inbox like    *)
(* any other, so what was sent to the inbox before it is handled first.    *)
(***************************************************************************)
EXTENDS AdapterActor

CoerceSpawn(a, o) == Begin(a, o, "starting")
CoerceStarted(a)  == Started(a) \/ StartFails(a)

\* CoerceActorRef::send_dispatch, and notify_dead_letter if it fails.
CoerceSendDispatch(a, m, mode) == SendDispatch(a, m, mode)

CoerceTell(a, m)      == CoerceSendDispatch(a, m, "tell") \/ Intercepted(a, m, "tell")
CoerceAsk(a, m)       == CoerceSendDispatch(a, m, "ask") \/ Intercepted(a, m, "ask")
CoerceExpand(a, m)    == CoerceSendDispatch(a, m, "expand") \/ Intercepted(a, m, "expand")
CoerceReduce(a, m)    == CoerceSendDispatch(a, m, "reduce")
CoerceTransform(a, m) == CoerceSendDispatch(a, m, "transform")
CoerceForward(a)      == Forward(a)

\* A stop that is lost when the front channel is full.
CoerceStop_TrySend(a) ==
    /\ a \in Stoppable /\ act[a].open /\ ~act[a].halt
    /\ act' = [act EXCEPT ![a].halt = TRUE,
                          ![a].inbox = IF SendResult(a) = "ok" THEN Append(@, None) ELSE @]
    /\ UNCHANGED <<adapter, msg, cancelled, watchers, stopRx, told>>

\* CoerceActorRef::stop is inner.notify_stop().
CoerceStop(a) ==
    /\ a \in Stoppable /\ act[a].open /\ ~act[a].halt
    /\ act' = [act EXCEPT ![a].halt = TRUE, ![a].inbox = Append(@, None)]
    /\ UNCHANGED <<adapter, msg, cancelled, watchers, stopRx, told>>

\* coerce comes to the stop message.
CoerceLeaves(a) ==
    /\ act[a].phase = "recv" /\ act[a].inbox # <<>> /\ Head(act[a].inbox) = None
    /\ act' = [act EXCEPT ![a].inbox = Tail(@), ![a].phase = "exiting"]
    /\ UNCHANGED <<adapter, msg, cancelled, watchers, stopRx, told>>

CoerceReceive(a)  == Reject(a) \/ Admit(a)
CoerceDispatch(a) == Dispatch(a) \/ Abort(a)
CoerceComplete(a) == Complete(a)

\* Stop and Escalate: coerce_ctx.stop(None) ends the loop after this message.
CoerceOnError(a)  == PanicResumes(a) \/ PanicStops(a, "exiting", act[a].halt)

\* stopped: a panic of on_stop is reported to await_stop only.
CoerceStopped(a) == \E p \in BOOLEAN : StopHook(a, p, act[a].reason)

CoerceWatch(w, t)     == WatchEntry(w, t)
CoerceUnwatch(w, t)   == UnwatchEntries(w, t)
CoerceAwaitStop(a)    == TakeReceivers({a}) \/ AwaitReturns(a)
CoerceAwaitAll        == TakeReceivers(Actors)
CoerceCleanupFinished == DropFinished

CoerceActorStep(a) ==
    \/ CoerceStarted(a) \/ CoerceReceive(a) \/ CoerceDispatch(a) \/ CoerceComplete(a)
    \/ CoerceOnError(a) \/ CoerceLeaves(a) \/ CoerceStopped(a)

CoerceUserStep ==
    \/ \E a \in Actors, o \in Strategies \cup {None} : CoerceSpawn(a, o)
    \/ \E a \in Actors : CoerceStop(a) \/ CoerceAwaitStop(a)
    \/ \E a \in Actors, m \in Msgs :
          \/ CoerceTell(a, m) \/ CoerceAsk(a, m) \/ CoerceExpand(a, m)
          \/ CoerceReduce(a, m) \/ CoerceTransform(a, m)
    \/ \E w, t \in Actors : <<w, t>> \in WatchPairs /\ (CoerceWatch(w, t) \/ CoerceUnwatch(w, t))
    \/ CoerceAwaitAll \/ CoerceCleanupFinished
=============================================================================
