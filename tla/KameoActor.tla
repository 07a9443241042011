----------------------------- MODULE KameoActor -----------------------------
(***************************************************************************)
(* The actors of dactor-kameo.  kameo's spawn returns before on_start has  *)
(* run; stop() is kill(), which aborts the message loop wherever it waits, *)
(* a handler included, and then runs on_stop.                              *)
(***************************************************************************)
EXTENDS AdapterActor

KameoSpawn(a, o) == Begin(a, o, "starting")
KameoOnStart(a)  == Started(a) \/ StartFails(a)

\* KameoActorRef::send_dispatch, and notify_dead_letter if it fails.
KameoSendDispatch(a, m, mode) == SendDispatch(a, m, mode)

KameoTell(a, m)      == KameoSendDispatch(a, m, "tell") \/ Intercepted(a, m, "tell")
KameoAsk(a, m)       == KameoSendDispatch(a, m, "ask") \/ Intercepted(a, m, "ask")
KameoExpand(a, m)    == KameoSendDispatch(a, m, "expand") \/ Intercepted(a, m, "expand")
KameoReduce(a, m)    == KameoSendDispatch(a, m, "reduce")
KameoTransform(a, m) == KameoSendDispatch(a, m, "transform")
KameoForward(a)      == Forward(a)

\* KameoActorRef::stop is inner.kill() ...
KameoStop(a) ==
    /\ a \in Stoppable /\ act[a].open /\ ~act[a].halt
    /\ act' = [act EXCEPT ![a].halt = TRUE]
    /\ UNCHANGED <<adapter, msg, cancelled, watchers, stopRx, told>>

\* An abort that leaves the message in hand with nobody.
KameoAborted_KeepsMessage(a) ==
    /\ act[a].halt /\ act[a].phase \in {"recv", "admitted", "handling"}
    /\ act' = [act EXCEPT ![a].cur = None, ![a].phase = "exiting"]
    /\ UNCHANGED <<adapter, msg, cancelled, watchers, stopRx, told>>

\* ... and the loop is aborted at an await: in recv, in the delay of an
\* interceptor or in a handler, whose future is dropped with the reply sender.
KameoAborted(a) ==
    /\ act[a].halt /\ act[a].phase \in {"recv", "admitted", "handling"}
    /\ Done(a, "failed", "closed", "exiting")

KameoReceive(a)  == Reject(a) \/ Admit(a)
KameoDispatch(a) == Dispatch(a) \/ Abort(a)
KameoComplete(a) == Complete(a)

\* Stop and Escalate: resume_unwind lets kameo see the panic and stop the actor.
KameoOnError(a)  == PanicResumes(a) \/ PanicStops(a, "exiting", act[a].halt)

\* on_stop: a panic of the hook is reported to await_stop only.
KameoOnStop(a) == \E p \in BOOLEAN : StopHook(a, p, act[a].reason)

KameoWatch(w, t)     == WatchEntry(w, t)
KameoUnwatch(w, t)   == UnwatchEntries(w, t)
KameoAwaitStop(a)    == TakeReceivers({a}) \/ AwaitReturns(a)
KameoAwaitAll        == TakeReceivers(Actors)
KameoCleanupFinished == DropFinished

KameoActorStep(a) ==
    \/ KameoOnStart(a) \/ KameoReceive(a) \/ KameoDispatch(a) \/ KameoComplete(a)
    \/ KameoOnError(a) \/ KameoAborted(a) \/ KameoOnStop(a)

KameoUserStep ==
    \/ \E a \in Actors, o \in Strategies \cup {None} : KameoSpawn(a, o)
    \/ \E a \in Actors : KameoStop(a) \/ KameoAwaitStop(a)
    \/ \E a \in Actors, m \in Msgs :
          \/ KameoTell(a, m) \/ KameoAsk(a, m) \/ KameoExpand(a, m)
          \/ KameoReduce(a, m) \/ KameoTransform(a, m)
    \/ \E w, t \in Actors : <<w, t>> \in WatchPairs /\ (KameoWatch(w, t) \/ KameoUnwatch(w, t))
    \/ KameoAwaitAll \/ KameoCleanupFinished
=============================================================================
