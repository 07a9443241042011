---------------------------- MODULE Interceptors ----------------------------
(***************************************************************************)
(* The interceptors dactor ships, on the way of a message to one actor:    *)
(*                                                                         *)
(*   local sender:  ActorRateLimiter (throttle.rs), then a policy of the   *)
(*                  application, run by OutboundPipeline::run_on_send;     *)
(*   remote sender: MaxBodySizeInterceptor, then RateLimitWireInterceptor, *)
(*                  run by WireInterceptorPipeline;                        *)
(*   actor loop:    CircuitBreakerInterceptor (circuit_breaker.rs), then   *)
(*                  an inbound interceptor of the application, the handler *)
(*                  and on_complete.                                       *)
(*                                                                         *)
(* Time passes in ticks.  An Instant is kept as the number of ticks since  *)
(* then, saturated where the code no longer tells larger ones apart.       *)
(***************************************************************************)
EXTENDS Naturals, Sequences, FiniteSets, Retain

CONSTANTS
    MaxRate, Window,            \* ActorRateLimiter::new(max_rate, window)
    MaxPerWindow, WireWindow,   \* RateLimitWireInterceptor::new
    ErrorThreshold, ErrorWindow, Cooldown,  \* CircuitBreakerInterceptor::new
    MaxQueue                    \* bound: messages waiting in the mailbox

ASSUME InterceptorsAssumption ==
    /\ MaxRate \in Nat \ {0} /\ Window \in Nat
    /\ MaxPerWindow \in Nat /\ WireWindow \in Nat \ {0}
    /\ ErrorThreshold \in Nat \ {0} /\ ErrorWindow \in Nat /\ Cooldown \in Nat \ {0}
    /\ MaxQueue \in Nat \ {0}

VARIABLES
    limiter,    \* the limiter's entry for the actor: [count, age of the window]
    wire,       \* RateLimitState: [count, age of the window]
    mailbox,    \* what waits for the actor, in order
    hand,       \* what the actor's loop is doing: "idle" or "handling"
    cb,         \* CircuitBreakerState of the actor
    probeLost,  \* history: a probe left the loop without on_complete
    sent,       \* history: sent[k]: messages the limiter let pass k ticks ago
    received    \* history: received[k]: envelopes the wire accepted k ticks ago

vars == <<limiter, wire, mailbox, hand, cb, probeLost, sent, received>>

\* A message of the local sender that its policy allows or refuses; an envelope.
Kinds == {"allowed", "refused", "envelope"}

CircuitState == {"Closed", "Open", "HalfOpen"}

Least(i, j) == IF i < j THEN i ELSE j

TypeOK ==
    /\ limiter \in [count : 0..(2 * MaxRate + 1), age : 0..(Window + 1)]
    /\ wire \in [count : 0..(MaxPerWindow + 1), age : 0..WireWindow]
    /\ mailbox \in Seq(Kinds)
    /\ hand \in {"idle", "handling"}
    /\ cb \in [state : CircuitState, errors : Seq(0..(ErrorWindow + 1)),
               opened : 0..Cooldown, probe : BOOLEAN]
    /\ probeLost \in BOOLEAN
    /\ sent \in [0..Window -> Nat]
    /\ received \in [0..(WireWindow - 1) -> Nat]

Init ==
    /\ limiter = [count |-> 0, age |-> 0]
    /\ wire = [count |-> 0, age |-> 0]
    /\ mailbox = <<>>
    /\ hand = "idle"
    /\ cb = [state |-> "Closed", errors |-> <<>>, opened |-> 0, probe |-> FALSE]
    /\ probeLost = FALSE
    /\ sent = [k \in 0..Window |-> 0]
    /\ received = [k \in 0..(WireWindow - 1) |-> 0]

-----------------------------------------------------------------------------
(***************************************************************************)
(* The local sender.                                                       *)
(***************************************************************************)

\* The window restarts without counting the message that restarted it.
CountSend_Uncounted ==
    IF limiter.age > Window
    THEN [count |-> 0, age |-> 0]
    ELSE [limiter EXCEPT !.count = Least(@ + 1, 2 * MaxRate + 1)]

\* ActorRateLimiter::on_send, its entry: a window that is over is replaced; any
\* other message counts, those that will be rejected too.  A count of 0 is an
\* entry that does not exist yet.
CountSend ==
    IF limiter.age > Window
    THEN [count |-> 1, age |-> 0]
    ELSE [limiter EXCEPT !.count = Least(@ + 1, 2 * MaxRate + 1)]

\* ... and its decision.
LimiterDisposition(count) ==
    IF count > 2 * MaxRate THEN "Reject" ELSE IF count > MaxRate THEN "Delay" ELSE "Continue"

\* run_on_send returns the first disposition other than Continue: the policy
\* comes second and is asked only after a Continue.
RunOnSend(kind) ==
    LET d == LimiterDisposition(CountSend.count) IN
    IF d = "Continue" /\ kind = "refused" THEN "Reject" ELSE d

\* tell and ask: Delay is treated like Continue, and the message is sent at once.
Send(kind) ==
    /\ kind \in {"allowed", "refused"} /\ Len(mailbox) < MaxQueue
    /\ limiter' = CountSend
    /\ mailbox' = IF RunOnSend(kind) = "Reject" THEN mailbox ELSE Append(mailbox, kind)
    /\ sent' = IF LimiterDisposition(CountSend.count) = "Reject" THEN sent
               ELSE [sent EXCEPT ![0] = @ + 1]
    /\ UNCHANGED <<wire, hand, cb, probeLost, received>>

-----------------------------------------------------------------------------
(***************************************************************************)
(* The wire.                                                               *)
(***************************************************************************)

\* RateLimitWireInterceptor::on_receive, its state.
CountEnvelope ==
    LET open == IF wire.age >= WireWindow THEN [count |-> 0, age |-> 0] ELSE wire IN
    [open EXCEPT !.count = Least(@ + 1, MaxPerWindow + 1)]

\* WireInterceptorPipeline::process: an oversized envelope is rejected by the
\* first interceptor and not seen by the second.
ReceiveEnvelope(oversized) ==
    /\ Len(mailbox) < MaxQueue
    /\ IF oversized
       THEN UNCHANGED <<wire, mailbox, received>>
       ELSE /\ wire' = CountEnvelope
            /\ IF CountEnvelope.count > MaxPerWindow
               THEN UNCHANGED <<mailbox, received>>
               ELSE /\ mailbox' = Append(mailbox, "envelope")
                    /\ received' = [received EXCEPT ![0] = @ + 1]
    /\ UNCHANGED <<limiter, hand, cb, probeLost, sent>>

-----------------------------------------------------------------------------
(***************************************************************************)
(* The actor's loop and the circuit breaker.                               *)
(***************************************************************************)

\* CircuitBreakerInterceptor::on_receive lets the message pass.
Admits(c) ==
    \/ c.state = "Closed"
    \/ c.state = "Open" /\ c.opened >= Cooldown
    \/ c.state = "HalfOpen" /\ ~c.probe

OnReceive(c) ==
    IF Admits(c) /\ c.state # "Closed" THEN [c EXCEPT !.state = "HalfOpen", !.probe = TRUE] ELSE c

\* The breaker stops the message, or passes it to the interceptor behind it,
\* which may stop it too (no on_complete then), or to the handler.
Receive ==
    /\ hand = "idle" /\ mailbox # <<>>
    /\ mailbox' = Tail(mailbox)
    /\ cb' = OnReceive(cb)
    /\ \/ /\ ~Admits(cb)
          /\ UNCHANGED <<hand, probeLost>>
       \/ /\ Admits(cb)
          /\ probeLost' = (probeLost \/ OnReceive(cb).state = "HalfOpen")
          /\ UNCHANGED hand
       \/ /\ Admits(cb)
          /\ hand' = "handling"
          /\ UNCHANGED probeLost
    /\ UNCHANGED <<limiter, wire, sent, received>>

\* error_timestamps.push_back(now), then prune_errors.
AddError(errors) == Append(Retain(errors, {i \in DOMAIN errors : errors[i] <= ErrorWindow}), 0)

\* A probe that succeeds closes the circuit and leaves the old errors in place.
OnSuccess_KeepErrors(c) ==
    IF c.state = "HalfOpen" THEN [c EXCEPT !.state = "Closed", !.opened = 0, !.probe = FALSE] ELSE c

\* CircuitBreakerInterceptor::on_complete for Outcome::TellSuccess, AskSuccess, ...
OnSuccess(c) ==
    IF c.state = "HalfOpen"
    THEN [state |-> "Closed", errors |-> <<>>, opened |-> 0, probe |-> FALSE]
    ELSE c

\* A failed probe is counted but the circuit stays half open.
OnFailure_StayHalfOpen(c) ==
    LET errors == AddError(c.errors)
        trips  == c.state = "Closed" /\ Len(errors) >= ErrorThreshold
    IN  IF trips THEN [state |-> "Open", errors |-> errors, opened |-> 0, probe |-> FALSE]
                 ELSE [c EXCEPT !.errors = errors]

\* ... and for Outcome::HandlerError.
OnFailure(c) ==
    LET errors == AddError(c.errors)
        trips  == \/ c.state = "Closed" /\ Len(errors) >= ErrorThreshold
                  \/ c.state = "HalfOpen"
    IN  IF trips THEN [state |-> "Open", errors |-> errors, opened |-> 0, probe |-> FALSE]
                 ELSE [c EXCEPT !.errors = errors]

\* The handler returns or panics, and on_complete is called.
Complete ==
    /\ hand = "handling"
    /\ hand' = "idle"
    /\ cb' \in {OnSuccess(cb), OnFailure(cb)}
    /\ UNCHANGED <<limiter, wire, mailbox, probeLost, sent, received>>

\* The caller cancels the ask while its handler runs: the loop drops the handler
\* and goes on without on_complete.
Abort ==
    /\ hand = "handling"
    /\ hand' = "idle"
    /\ probeLost' = (probeLost \/ cb.state = "HalfOpen")
    /\ UNCHANGED <<limiter, wire, mailbox, cb, sent, received>>

-----------------------------------------------------------------------------

\* What happened k ticks ago happened k + 1 ticks ago.
Shift(h) == [k \in DOMAIN h |-> IF k = 0 THEN 0 ELSE h[k - 1]]

\* The clock.  Once every age is saturated and no history is left, a further
\* tick changes nothing.
Tick ==
    /\ limiter' = IF limiter.count = 0 THEN limiter
                  ELSE [limiter EXCEPT !.age = Least(@ + 1, Window + 1)]
    /\ wire' = [wire EXCEPT !.age = Least(@ + 1, WireWindow)]
    /\ cb' = [cb EXCEPT
                !.errors = [i \in DOMAIN @ |-> Least(@[i] + 1, ErrorWindow + 1)],
                !.opened = IF cb.state = "Open" THEN Least(@ + 1, Cooldown) ELSE @]
    /\ sent' = Shift(sent)
    /\ received' = Shift(received)
    /\ UNCHANGED <<mailbox, hand, probeLost>>

Next ==
    \/ \E kind \in Kinds : Send(kind)
    \/ \E oversized \in BOOLEAN : ReceiveEnvelope(oversized)
    \/ Receive
    \/ Complete
    \/ Abort
    \/ Tick

\* The loop runs when it can, time passes, and handlers come to an end.
Fairness == WF_vars(Receive) /\ WF_vars(Complete) /\ WF_vars(Tick)

Spec == Init /\ [][Next]_vars /\ Fairness

\* Traffic that goes on: whenever the mailbox has room, an envelope comes.
TrafficSpec == Spec /\ WF_vars(ReceiveEnvelope(FALSE))

-----------------------------------------------------------------------------
(***************************************************************************)
(* Properties.                                                             *)
(***************************************************************************)

\* The running totals of a history: what happened at most k ticks ago, for each k.
Total(h) ==
    LET total[k \in DOMAIN h] == h[k] + (IF k = 0 THEN 0 ELSE total[k - 1])
    IN  total

\* The load an actor can see from its local senders: over any stretch of Window
\* ticks, wherever it lies across the tumbling windows of the limiter, fewer than
\* two windows' worth of twice the rate get past it.
SentIsBounded == Total(sent)[Window] < 4 * MaxRate

\* The same for the wire's fixed window: over any stretch shorter than the
\* window, at most two windows' worth of envelopes are accepted.
ReceivedIsBounded == Total(received)[WireWindow - 1] <= 2 * MaxPerWindow

\* The load that gets past the limiters over any stretch of time is bounded, wherever
\* it lies across their windows (throttle.rs, wire_interceptor.rs).
RateIsBounded == SentIsBounded /\ ReceivedIsBounded

\* While the circuit is closed, fewer than error_threshold errors lie within the
\* error window: no burst of errors, and no error left from before a recovery,
\* goes unnoticed or is counted twice.
ClosedIsHealthy ==
    cb.state = "Closed" =>
        Cardinality({i \in DOMAIN cb.errors : cb.errors[i] <= ErrorWindow}) < ErrorThreshold

\* The comment in on_complete: it "shouldn't normally" be called while the circuit
\* is open.  With a loop that takes one message at a time it is not: whatever is
\* being handled was let through by a circuit that has not opened since.
OpenSeesNoCompletion == hand = "handling" => cb.state # "Open"

\* While the circuit is half open a probe is accounted for: it is in the hands of
\* the handler, unless a cancellation or a later interceptor took it away.  (And a
\* half-open circuit without a probe in flight does not occur.)
ProbeIsAccountedFor ==
    cb.state = "HalfOpen" => cb.probe /\ (hand = "handling" \/ probeLost)

\* The breaker is consistent with its history and with what the loop is doing, in
\* each of its states.
BreakerIsConsistent == TypeOK /\ ClosedIsHealthy /\ OpenSeesNoCompletion /\ ProbeIsAccountedFor

\* A probe that is not taken away decides: the circuit closes or opens again.
ProbeDecides == (cb.state = "HalfOpen") ~> (cb.state # "HalfOpen" \/ probeLost)

\* The doc of the breaker: "If the probe succeeds the circuit closes; if it fails
\* the circuit re-opens."  Either way the circuit does not stay half open while
\* traffic goes on.
HalfOpenEnds == (cb.state = "HalfOpen") ~> (cb.state # "HalfOpen")
=============================================================================
