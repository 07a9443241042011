---------------------------- MODULE RactorActor ----------------------------
(***************************************************************************)
(* The actors of dactor-ractor.  ractor runs pre_start within spawn, hands *)
(* a stop over out of band and ahead of the messages, and lets the handler *)
(* that runs come to its end first.                                        *)
(***************************************************************************)
EXTENDS AdapterActor

\* spawn_internal awaits pre_start (create and on_start) before it returns.
RactorSpawn(a, o) == Begin(a, o, "recv")

\* A panic there is RuntimeError::SpawnFailed: no reference, no stop receiver.
RactorSpawnFails(a) ==
    /\ ~Spawned(a) /\ act[a].signal = "none"
    /\ act' = [act EXCEPT ![a].signal = "dropped"]
    /\ UNCHANGED <<adapter, msg, cancelled, watchers, stopRx, told>>

\* RactorActorRef::send_dispatch, and notify_dead_letter if it fails.
RactorSendDispatch(a, m, mode) == SendDispatch(a, m, mode)

RactorTell(a, m)      == RactorSendDispatch(a, m, "tell") \/ Intercepted(a, m, "tell")
RactorAsk(a, m)       == RactorSendDispatch(a, m, "ask") \/ Intercepted(a, m, "ask")
RactorExpand(a, m)    == RactorSendDispatch(a, m, "expand") \/ Intercepted(a, m, "expand")
RactorReduce(a, m)    == RactorSendDispatch(a, m, "reduce")
RactorTransform(a, m) == RactorSendDispatch(a, m, "transform")
RactorForward(a)      == Forward(a)

\* RactorActorRef::stop is inner.stop(None).
RactorStop(a) ==
    /\ a \in Stoppable /\ act[a].open /\ ~act[a].halt
    /\ act' = [act EXCEPT ![a].halt = TRUE]
    /\ UNCHANGED <<adapter, msg, cancelled, watchers, stopRx, told>>

\* ractor looks for a stop before it takes a message.
RactorLeaves(a) ==
    /\ act[a].phase = "recv" /\ act[a].halt
    /\ act' = [act EXCEPT ![a].phase = "exiting"]
    /\ UNCHANGED <<adapter, msg, cancelled, watchers, stopRx, told>>

RactorReceive(a)  == ~act[a].halt /\ (Reject(a) \/ Admit(a))
RactorDispatch(a) == Dispatch(a) \/ Abort(a)
RactorComplete(a) == Complete(a)
RactorOnError(a)  == PanicResumes(a) \/ PanicStops(a, "recv", TRUE)

\* post_stop: a panic of on_stop becomes the stop reason if there is none yet.
RactorPostStop(a) ==
    \E p \in BOOLEAN : StopHook(a, p, IF p THEN "failed" ELSE act[a].reason)

RactorWatch(w, t)     == WatchEntry(w, t)
RactorUnwatch(w, t)   == UnwatchEntries(w, t)
RactorAwaitStop(a)    == TakeReceivers({a}) \/ AwaitReturns(a)
RactorAwaitAll        == TakeReceivers(Actors)
RactorCleanupFinished == DropFinished

RactorActorStep(a) ==
    \/ RactorReceive(a) \/ RactorDispatch(a) \/ RactorComplete(a) \/ RactorOnError(a)
    \/ RactorLeaves(a) \/ RactorPostStop(a)

RactorUserStep ==
    \/ \E a \in Actors, o \in Strategies \cup {None} : RactorSpawn(a, o)
    \/ \E a \in Actors : RactorSpawnFails(a) \/ RactorStop(a) \/ RactorAwaitStop(a)
    \/ \E a \in Actors, m \in Msgs :
          \/ RactorTell(a, m) \/ RactorAsk(a, m) \/ RactorExpand(a, m)
          \/ RactorReduce(a, m) \/ RactorTransform(a, m)
    \/ \E w, t \in Actors : <<w, t>> \in WatchPairs /\ (RactorWatch(w, t) \/ RactorUnwatch(w, t))
    \/ RactorAwaitAll \/ RactorCleanupFinished
=============================================================================
