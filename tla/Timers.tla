------------------------------- MODULE Timers -------------------------------
(***************************************************************************)
(* send_after and send_interval: tasks that tell an actor a message later, *)
(* once or until the token is cancelled or a tell fails.                   *)
(***************************************************************************)
EXTENDS Naturals

CONSTANTS MaxDue  \* bound: ticks that have come and were not yet taken

ASSUME TimersAssumption == MaxDue \in Nat \ {0}

VARIABLES
    timer,      \* kind, whether its reference is remote, where its task is, ticks due, the token
    reachable,  \* the actor lives
    late        \* messages told after the token was cancelled (or the task aborted)

tvars == <<timer, reachable, late>>

TimersInit ==
    /\ timer \in [kind : {"after", "interval"}, remote : BOOLEAN, at : {"select"}, due : {0},
                  cancelled : {FALSE}]
    /\ reachable = TRUE
    /\ late = 0

\* Time passes.  The first tick of an interval comes at once, and ticks that the
\* task did not take in time are delivered in a burst.
TimerTick ==
    /\ timer.at # "done" /\ timer.due < (IF timer.kind = "after" THEN 1 ELSE MaxDue)
    /\ timer' = [timer EXCEPT !.due = @ + 1]
    /\ UNCHANGED <<reachable, late>>

\* For send_after the handle of the task is aborted, which ends it where it waits.
TimerCancel ==
    /\ timer.at # "done" /\ ~timer.cancelled
    /\ timer' = [timer EXCEPT !.cancelled = TRUE]
    /\ UNCHANGED <<reachable, late>>

\* The biased select: cancellation first, then a tick.
\* Mutant: an unbiased select, which may take a tick of a cancelled timer.
TimerSelect_Unbiased ==
    /\ timer.at = "select"
    /\ \/ timer.cancelled /\ timer' = [timer EXCEPT !.at = "done"]
       \/ timer.due > 0 /\ timer' = [timer EXCEPT !.at = "tell", !.due = @ - 1]
    /\ UNCHANGED <<reachable, late>>
TimerSelect ==
    /\ timer.at = "select"
    /\ \/ timer.cancelled /\ timer' = [timer EXCEPT !.at = "done"]
       \/ ~timer.cancelled /\ timer.due > 0 /\ timer' = [timer EXCEPT !.at = "tell", !.due = @ - 1]
    /\ UNCHANGED <<reachable, late>>

\* A local tell() fails if the actor is gone, and also if its mailbox is full for the
\* moment; a RemoteActorRef's fails only in its own pipeline and knows nothing of the
\* actor.  A failed tell ends an interval for good.
TimerTell ==
    /\ timer.at = "tell"
    /\ \E accepted \in IF reachable \/ timer.remote THEN BOOLEAN ELSE {FALSE} :
          /\ late' = IF accepted /\ timer.cancelled THEN late + 1 ELSE late
          /\ timer' = [timer EXCEPT !.at = IF timer.kind = "after" \/ ~accepted THEN "done" ELSE "select"]
    /\ UNCHANGED reachable

TargetEnds == reachable /\ reachable' = FALSE /\ UNCHANGED <<timer, late>>

TimerStep == TimerTick \/ TimerSelect \/ TimerTell
TimersNext == TimerStep \/ TimerCancel \/ TargetEnds

-----------------------------------------------------------------------------
\* After cancel() at most the message that was already being told still goes out,
\* though ticks may be due: the select looks at the token first.
CancelIsHeeded == late <= 1

\* A timer that sends once, whose token is cancelled, or whose local actor is gone, ends:
\* no task is left behind.  An interval that tells a remote actor goes on when that is gone.
TimerEnds ==
    (timer.kind = "after" \/ timer.cancelled \/ (~reachable /\ ~timer.remote)) ~> timer.at = "done"
=============================================================================
