---------------------------- MODULE StreamPipeline ----------------------------
(***************************************************************************)
(* One streaming call on an actor: expand (one message, many replies),     *)
(* reduce (many inputs, one reply) or transform (many inputs, many         *)
(* outputs), with the tasks the runtime spawns around the handler          *)
(* (dactor/src/runtime_support.rs, stream.rs, dispatch.rs and the calls in *)
(* test_support/test_runtime.rs):                                          *)
(*                                                                         *)
(*   reduce     input -> drain -> [writer -> forward ->] handler           *)
(*   expand     handler -> [writer ->] wrap -> caller                      *)
(*   transform  input -> drain -> handler -> [writer ->] wrap -> caller    *)
(*                                                                         *)
(* The stages in brackets exist when the call is batched.  Every arrow is  *)
(* a bounded tokio channel that loses its content when its receiver is     *)
(* dropped and ends, once empty, when its sender is dropped.  Items are    *)
(* numbers in the order in which they are produced; Final is what          *)
(* on_transform_complete may add.                                          *)
(***************************************************************************)
EXTENDS Integers, Sequences, SequencesExt, Retain

CONSTANTS
    Calls,      \* the calls to consider: <<mode, batched, token>>
    Items,      \* how many items the input or the expand handler may produce
    Buffer,     \* capacity of every channel
    MaxItems,   \* BatchConfig.max_items
    MaxDelay    \* BatchConfig.max_delay, in ticks

Modes == {"expand", "reduce", "transform"}
Final == Items + 1

ASSUME StreamAssumption ==
    /\ Calls \subseteq Modes \X BOOLEAN \X BOOLEAN
    /\ Items \in Nat
    /\ Buffer \in Nat
    /\ MaxItems \in Nat \ {0}
    /\ MaxDelay \in Nat

Channels == {"mid", "batch", "item", "out", "caller"}

VARIABLES
    call,           \* <<mode, batched, token>>; never changes
    chan,           \* content of each channel; batch holds sequences of items
    txOpen, rxOpen, \* whether the sender and the receiver of each channel live
    cancelled,      \* the CancellationToken of the call
    produced,       \* items the input stream has yielded
    hung,           \* the input stream will never be ready again
    drain, dItem,   \* the drain task: where it is, what it is sending
    drainEnd,       \* history: why the drain task ended
    writer,         \* the batch writer task
    wBuf, wOut,     \* BatchWriter.buffer, and the batch being sent
    wAge, wSleep,   \* ticks since the first item of wBuf; since the sleep began
    forward, fBatch,\* stage 3 of a batched reduce: what is left of its batch
    wrap, xItem, xBatch, \* the interception task and its BatchReader
    handler, hItem, \* the actor's side of the call, and what it is sending
    reply,          \* what the AskReply of a reduce resolves to
    consumed,       \* history: what the handler has received
    accepted,       \* history: what StreamSender::send has taken
    got,            \* what the caller has read
    skipIn, skipOut \* history: items an interceptor dropped or rejected

chanVars    == <<chan, txOpen, rxOpen>>
drainVars   == <<produced, drain, dItem, drainEnd, skipIn>>
writerVars  == <<writer, wBuf, wOut, wAge, wSleep>>
forwardVars == <<forward, fBatch>>
wrapVars    == <<wrap, xItem, xBatch, skipOut>>
handlerVars == <<handler, hItem, reply, consumed, accepted>>
userVars    == <<call, cancelled, hung, got>>
vars == <<chanVars, drainVars, writerVars, forwardVars, wrapVars, handlerVars, userVars>>

Mode     == call[1]
Batched  == call[2]
HasToken == call[3]

AllItems == 1..Final
NoItem   == 0
Handling == {"recv", "emit", "send", "ended", "completing"}

\* The batch channel holds batches, the others hold items.
Batch    == Seq(AllItems) \ {<<>>}
Content(c) == IF c = "batch" THEN Batch ELSE AllItems

ChanType ==
    /\ DOMAIN chan = Channels
    /\ \A c \in Channels : chan[c] \in Seq(Content(c))
    /\ txOpen \in [Channels -> BOOLEAN] /\ rxOpen \in [Channels -> BOOLEAN]
DrainType ==
    /\ produced \in 0..Items
    /\ drain \in {"idle", "next", "send", "done"}
    /\ dItem \in 0..Items /\ (drain = "send" => dItem # NoItem)
    /\ drainEnd \in {"none", "end", "closed", "rejected", "cancelled"}
    /\ skipIn \subseteq AllItems
WriterType ==
    /\ writer \in {"idle", "recv", "flush", "last", "done"}
    /\ wBuf \in Seq(AllItems)
    /\ wOut \in Seq(AllItems) /\ (writer \in {"flush", "last"} => wOut \in Batch)
    /\ wAge \in Nat /\ wSleep \in Nat
ForwardType ==
    /\ forward \in {"idle", "recv", "join", "done"}
    /\ fBatch \in Seq(AllItems)
WrapType ==
    /\ wrap \in {"idle", "recv", "send", "done"}
    /\ xItem \in 0..Final /\ (wrap = "send" => xItem # NoItem)
    /\ xBatch \in Seq(AllItems)
    /\ skipOut \subseteq AllItems
HandlerType ==
    /\ handler \in {"new", "queued", "done"} \cup Handling
    /\ hItem \in 0..Final /\ (handler = "send" => hItem # NoItem)
    /\ reply \in {"none", "waiting", "ok", "closed", "cancelled", "rejected"}
    /\ consumed \in Seq(AllItems) /\ accepted \in Seq(AllItems)
UserType ==
    /\ call \in Calls
    /\ cancelled \in BOOLEAN /\ hung \in BOOLEAN
    /\ got \in Seq(AllItems)

\* Every variable has its type; a task that is sending has something to send, and
\* no batch is empty, so that BatchReader never yields the head of nothing.
TypeOK == ChanType /\ DrainType /\ WriterType /\ ForwardType /\ WrapType /\ HandlerType
          /\ UserType

Init ==
    /\ call \in Calls
    /\ chan = [c \in Channels |-> <<>>]
    /\ txOpen = [c \in Channels |-> TRUE] /\ rxOpen = [c \in Channels |-> TRUE]
    /\ cancelled = FALSE /\ hung = FALSE
    /\ produced = 0
    /\ drain = "idle" /\ dItem = NoItem /\ drainEnd = "none"
    /\ writer = "idle" /\ wBuf = <<>> /\ wOut = <<>> /\ wAge = 0 /\ wSleep = 0
    /\ forward = "idle" /\ fBatch = <<>>
    /\ wrap = "idle" /\ xItem = NoItem /\ xBatch = <<>>
    /\ handler = "new" /\ hItem = NoItem /\ reply = "none"
    /\ consumed = <<>> /\ accepted = <<>> /\ got = <<>>
    /\ skipIn = {} /\ skipOut = {}

-----------------------------------------------------------------------------
(* A tokio mpsc channel of one sender and one receiver.                    *)

CanSend(c)  == rxOpen[c] /\ Len(chan[c]) < Buffer
SendFails(c) == ~rxOpen[c]
CanRecv(c)  == chan[c] # <<>>
SeesEnd(c)  == chan[c] = <<>> /\ ~txOpen[c]

Put(c, v)    == chan' = [chan EXCEPT ![c] = Append(@, v)]
Take(c)      == chan' = [chan EXCEPT ![c] = Tail(@)]
\* Ends of channels that a task drops when it ends.
Drop(tx, rx) ==
    /\ txOpen' = [c \in Channels |-> txOpen[c] /\ c \notin tx]
    /\ rxOpen' = [c \in Channels |-> rxOpen[c] /\ c \notin rx]
    /\ chan' = [c \in Channels |-> IF c \in rx THEN <<>> ELSE chan[c]]
Ends == UNCHANGED <<txOpen, rxOpen>>

HasInput  == Mode \in {"reduce", "transform"}
HasOutput == Mode \in {"expand", "transform"}
DrainTo   == IF Mode = "reduce" /\ Batched THEN "mid" ELSE "item"
WriterFrom == IF Mode = "reduce" THEN "mid" ELSE "out"
WrapFrom  == IF Batched THEN "batch" ELSE "out"

-----------------------------------------------------------------------------
(* The call.                                                               *)

\* The call returns Err: an outbound interceptor dropped, rejected or wanted to
\* retry the message of an expand, or the mailbox of the actor is closed.
Refused ==
    /\ handler = "new"
    /\ handler' = "done"
    /\ drain' = "done" /\ writer' = "done" /\ forward' = "done" /\ wrap' = "done"
    /\ Drop(Channels, {})
    /\ UNCHANGED <<produced, dItem, drainEnd, skipIn, wBuf, wOut, wAge, wSleep, fBatch,
                   xItem, xBatch, skipOut, hItem, reply, consumed, accepted, userVars>>

\* expand, reduce, transform: the dispatch is in the mailbox and the tasks of
\* this kind of call are spawned.
Start ==
    /\ handler = "new"
    /\ handler' = "queued"
    /\ reply' = IF Mode = "reduce" THEN "waiting" ELSE "none"
    /\ drain' = IF HasInput THEN "next" ELSE "done"
    /\ writer' = IF Batched THEN "recv" ELSE "done"
    /\ forward' = IF Mode = "reduce" /\ Batched THEN "recv" ELSE "done"
    /\ wrap' = IF HasOutput THEN "recv" ELSE "done"
    /\ UNCHANGED <<chanVars, produced, dItem, drainEnd, skipIn, wBuf, wOut, wAge, wSleep,
                   fBatch, xItem, xBatch, skipOut, hItem, consumed, accepted, userVars>>

Cancel ==
    /\ HasToken /\ ~cancelled /\ handler # "new"
    /\ cancelled' = TRUE
    /\ UNCHANGED <<chanVars, drainVars, writerVars, forwardVars, wrapVars, handlerVars,
                   call, hung, got>>

\* The caller's input stream stays pending for ever.
InputHangs ==
    /\ HasInput /\ ~hung /\ drain # "done"
    /\ hung' = TRUE
    /\ UNCHANGED <<chanVars, drainVars, writerVars, forwardVars, wrapVars, handlerVars,
                   call, cancelled, got>>

CallerReads ==
    /\ rxOpen["caller"] /\ CanRecv("caller")
    /\ got' = Append(got, Head(chan["caller"]))
    /\ Take("caller") /\ Ends
    /\ UNCHANGED <<drainVars, writerVars, forwardVars, wrapVars, handlerVars,
                   call, cancelled, hung>>

\* The caller drops the BoxStream.
CallerDrops ==
    /\ HasOutput /\ handler # "new" /\ rxOpen["caller"]
    /\ Drop({}, {"caller"})
    /\ UNCHANGED <<drainVars, writerVars, forwardVars, wrapVars, handlerVars, userVars>>

-----------------------------------------------------------------------------
(* The drain task: spawn_reduce_drain, spawn_transform_drain and stage 1   *)
(* of spawn_reduce_batched_drain.                                          *)

DrainEnds(why) ==
    /\ drain' = "done"
    /\ drainEnd' = why
    /\ dItem' = NoItem
    /\ Drop({DrainTo}, {})

\* The biased select sees the token before it polls the input.
DrainCancelled ==
    /\ drain = "next" /\ cancelled
    /\ DrainEnds("cancelled")
    /\ UNCHANGED <<produced, skipIn, writerVars, forwardVars, wrapVars, handlerVars, userVars>>

\* As DrainTakes, but the input is polled again after its last item.
DrainTakesPastEnd ==
    /\ drain = "next" /\ ~cancelled /\ ~hung
    /\ produced <= Items
    /\ produced' = produced + 1
    /\ drain' = "send" /\ dItem' = produced'
    /\ UNCHANGED <<drainEnd, skipIn, chanVars>>
    /\ UNCHANGED <<writerVars, forwardVars, wrapVars, handlerVars, userVars>>

\* input.next() is Some: the item is intercepted.  A delay only postpones the send.
DrainTakes ==
    /\ drain = "next" /\ ~cancelled /\ ~hung
    /\ produced < Items
    /\ produced' = produced + 1
    /\ \/ /\ drain' = "send" /\ dItem' = produced'          \* Continue, Delay
          /\ UNCHANGED <<drainEnd, skipIn, chanVars>>
       \/ /\ skipIn' = skipIn \cup {produced'}              \* Drop, Retry
          /\ UNCHANGED <<drain, dItem, drainEnd, chanVars>>
       \/ /\ skipIn' = skipIn \cup {produced'}              \* Reject
          /\ DrainEnds("rejected")
    /\ UNCHANGED <<writerVars, forwardVars, wrapVars, handlerVars, userVars>>

\* input.next() is None; an input stream that panics ends the task in the same way.
DrainSeesEnd ==
    /\ drain = "next" /\ ~cancelled /\ ~hung
    /\ DrainEnds("end")
    /\ UNCHANGED <<produced, skipIn, writerVars, forwardVars, wrapVars, handlerVars, userVars>>

\* As DrainSends, but with try_send, whose Full nobody looks at.
DrainTriesToSend ==
    /\ drain = "send"
    /\ \/ /\ rxOpen[DrainTo]
          /\ IF CanSend(DrainTo) THEN Put(DrainTo, dItem) ELSE UNCHANGED chan
          /\ Ends
          /\ drain' = "next" /\ dItem' = NoItem
          /\ UNCHANGED drainEnd
       \/ /\ SendFails(DrainTo)
          /\ DrainEnds("closed")
    /\ UNCHANGED <<produced, skipIn, writerVars, forwardVars, wrapVars, handlerVars, userVars>>

DrainSends ==
    /\ drain = "send"
    /\ \/ /\ CanSend(DrainTo)
          /\ Put(DrainTo, dItem) /\ Ends
          /\ drain' = "next" /\ dItem' = NoItem
          /\ UNCHANGED drainEnd
       \/ /\ SendFails(DrainTo)
          /\ DrainEnds("closed")
    /\ UNCHANGED <<produced, skipIn, writerVars, forwardVars, wrapVars, handlerVars, userVars>>

-----------------------------------------------------------------------------
(* The batch writer task: BatchWriter and the loop around it.              *)

\* flush, up to the send: an empty buffer has nothing to send.
Flush(buf, next) ==
    /\ wOut' = buf
    /\ wBuf' = <<>>
    /\ wAge' = 0
    /\ writer' = next

WriterEnds == Drop({"batch"}, {WriterFrom})

\* recv, then push: the first item of a batch sets the deadline, the last one
\* flushes.  The loop then begins a new sleep of max_delay.
WriterPushes ==
    /\ writer = "recv" /\ CanRecv(WriterFrom)
    /\ LET buf == Append(wBuf, Head(chan[WriterFrom]))
       IN  IF Len(buf) >= MaxItems THEN Flush(buf, "flush")
           ELSE /\ wBuf' = buf
                /\ UNCHANGED <<writer, wOut, wAge>>
    /\ wSleep' = 0
    /\ Take(WriterFrom) /\ Ends
    /\ UNCHANGED <<drainVars, forwardVars, wrapVars, handlerVars, userVars>>

\* The channel ended: the loop breaks and flushes what is left.
WriterSeesEnd ==
    /\ writer = "recv" /\ SeesEnd(WriterFrom)
    /\ IF wBuf # <<>> THEN Flush(wBuf, "last") /\ UNCHANGED chanVars
       ELSE /\ writer' = "done" /\ WriterEnds
            /\ UNCHANGED <<wBuf, wOut, wAge>>
    /\ wSleep' = 0
    /\ UNCHANGED <<drainVars, forwardVars, wrapVars, handlerVars, userVars>>

\* As CheckDeadline, with > for >=.
CheckDeadlineLate ==
    /\ writer = "recv" /\ wBuf # <<>>
    /\ ~CanRecv(WriterFrom) /\ ~SeesEnd(WriterFrom)
    /\ wSleep >= MaxDelay
    /\ IF wAge > MaxDelay THEN Flush(wBuf, "flush")
       ELSE UNCHANGED <<writer, wBuf, wOut, wAge>>
    /\ wSleep' = 0
    /\ UNCHANGED <<chanVars, drainVars, forwardVars, wrapVars, handlerVars, userVars>>

\* The sleep of the select is over and nothing can be received: check_deadline
\* flushes if max_delay has passed since the first item.
CheckDeadline ==
    /\ writer = "recv" /\ wBuf # <<>>
    /\ ~CanRecv(WriterFrom) /\ ~SeesEnd(WriterFrom)
    /\ wSleep >= MaxDelay
    /\ IF wAge >= MaxDelay THEN Flush(wBuf, "flush")
       ELSE UNCHANGED <<writer, wBuf, wOut, wAge>>
    /\ wSleep' = 0
    /\ UNCHANGED <<chanVars, drainVars, forwardVars, wrapVars, handlerVars, userVars>>

\* The send of flush.  When it fails the loop breaks and there is nothing left to flush.
WriterSends ==
    /\ writer \in {"flush", "last"}
    /\ \/ /\ CanSend("batch")
          /\ wOut' = <<>>
          /\ IF writer = "flush"
             THEN Put("batch", wOut) /\ Ends /\ writer' = "recv"
             ELSE /\ txOpen' = [txOpen EXCEPT !["batch"] = FALSE]
                  /\ rxOpen' = [rxOpen EXCEPT ![WriterFrom] = FALSE]
                  /\ Put("batch", wOut)
                  /\ writer' = "done"
       \/ /\ SendFails("batch")
          /\ WriterEnds
          /\ writer' = "done" /\ wOut' = <<>>
    /\ UNCHANGED <<wBuf, wAge, wSleep>>
    /\ UNCHANGED <<drainVars, forwardVars, wrapVars, handlerVars, userVars>>

\* Time passes while the writer waits for more items.  A task that can go on does
\* so within the tick.
Tick ==
    /\ writer = "recv" /\ wBuf # <<>>
    /\ ~CanRecv(WriterFrom) /\ ~SeesEnd(WriterFrom)
    /\ wSleep < MaxDelay
    /\ wSleep' = wSleep + 1 /\ wAge' = wAge + 1
    /\ UNCHANGED <<writer, wBuf, wOut>>
    /\ UNCHANGED <<chanVars, drainVars, forwardVars, wrapVars, handlerVars, userVars>>

-----------------------------------------------------------------------------
(* Stage 3 of spawn_reduce_batched_drain: unbatch and forward to the actor.*)

ForwardTakes ==
    /\ forward = "recv" /\ fBatch = <<>> /\ CanRecv("batch")
    /\ fBatch' = Head(chan["batch"])
    /\ Take("batch") /\ Ends
    /\ UNCHANGED <<forward, drainVars, writerVars, wrapVars, handlerVars, userVars>>

\* As ForwardStops, but batch_rx lives until the handles have been awaited.
ForwardStopsHolding ==
    /\ forward' = "join" /\ fBatch' = <<>>
    /\ Drop({"item"}, {})

\* drop(batch_rx), drop(item_tx): before the handles are awaited.
ForwardStops ==
    /\ forward' = "join" /\ fBatch' = <<>>
    /\ Drop({"item"}, {"batch"})

ForwardSends ==
    /\ forward = "recv" /\ fBatch # <<>>
    /\ \/ /\ CanSend("item")
          /\ Put("item", Head(fBatch)) /\ Ends
          /\ fBatch' = Tail(fBatch)
          /\ UNCHANGED forward
       \/ /\ SendFails("item")
          /\ ForwardStops
    /\ UNCHANGED <<drainVars, writerVars, wrapVars, handlerVars, userVars>>

ForwardSeesEnd ==
    /\ forward = "recv" /\ fBatch = <<>> /\ SeesEnd("batch")
    /\ ForwardStops
    /\ UNCHANGED <<drainVars, writerVars, wrapVars, handlerVars, userVars>>

ForwardJoins ==
    /\ forward = "join" /\ writer = "done" /\ drain = "done"
    /\ forward' = "done"
    /\ UNCHANGED <<chanVars, fBatch, drainVars, writerVars, wrapVars, handlerVars, userVars>>

-----------------------------------------------------------------------------
(* wrap_stream_with_interception and wrap_batched_stream_with_interception.*)

WrapEnds ==
    /\ wrap' = "done" /\ xItem' = NoItem /\ xBatch' = <<>>
    /\ Drop({"caller"}, {WrapFrom})

\* What the interceptors make of one item; rest is what BatchReader still holds.
Intercept(item, rest) ==
    \/ /\ wrap' = "send" /\ xItem' = item /\ xBatch' = rest   \* Continue, Delay
       /\ UNCHANGED skipOut
    \/ /\ xBatch' = rest                                      \* Drop, Retry
       /\ skipOut' = skipOut \cup {item}
       /\ UNCHANGED <<wrap, xItem>>

\* stream.next(): from the channel, or from BatchReader::recv, which takes a
\* new batch when the current one is used up.
WrapTakes ==
    /\ wrap = "recv"
    /\ \/ /\ xBatch # <<>>
          /\ Intercept(Head(xBatch), Tail(xBatch))
          /\ UNCHANGED chanVars
       \/ /\ xBatch = <<>> /\ CanRecv(WrapFrom)
          /\ LET head == Head(chan[WrapFrom])
             IN  IF Batched THEN Intercept(Head(head), Tail(head)) ELSE Intercept(head, <<>>)
          /\ Take(WrapFrom) /\ Ends
    /\ UNCHANGED <<drainVars, writerVars, forwardVars, handlerVars, userVars>>

\* Reject: the task ends, the item and everything behind it are lost.
WrapRejects ==
    /\ wrap = "recv"
    /\ xBatch # <<>> \/ CanRecv(WrapFrom)
    /\ WrapEnds
    /\ UNCHANGED <<skipOut, drainVars, writerVars, forwardVars, handlerVars, userVars>>

WrapSeesEnd ==
    /\ wrap = "recv" /\ xBatch = <<>> /\ SeesEnd(WrapFrom)
    /\ WrapEnds
    /\ UNCHANGED <<skipOut, drainVars, writerVars, forwardVars, handlerVars, userVars>>

WrapSends ==
    /\ wrap = "send"
    /\ \/ /\ CanSend("caller")
          /\ Put("caller", xItem) /\ Ends
          /\ wrap' = "recv" /\ xItem' = NoItem
          /\ UNCHANGED xBatch
       \/ /\ SendFails("caller")
          /\ WrapEnds
    /\ UNCHANGED <<skipOut, drainVars, writerVars, forwardVars, handlerVars, userVars>>

-----------------------------------------------------------------------------
(* The actor's side: the mailbox loop around ExpandDispatch, ReduceDispatch*)
(* and TransformDispatch, and the user's handler.                          *)

\* The dispatch is gone, with the channel ends and the reply sender it owns.
DispatchGone(answer) ==
    /\ handler' = "done" /\ hItem' = NoItem
    /\ reply' = IF reply = "waiting" THEN answer ELSE reply
    /\ Drop({"out"}, {"item"})

\* The dispatch is rejected by an inbound interceptor, or dropped with the mailbox.
NeverDispatched ==
    /\ handler = "queued"
    /\ \E answer \in {"rejected", "closed"} : DispatchGone(answer)
    /\ UNCHANGED <<consumed, accepted, drainVars, writerVars, forwardVars, wrapVars, userVars>>

\* A token that is already cancelled stops the dispatch before it begins.
Dispatch ==
    /\ handler = "queued"
    /\ IF cancelled
       THEN DispatchGone("cancelled")
       ELSE /\ handler' = IF Mode = "expand" THEN "emit" ELSE "recv"
            /\ UNCHANGED <<chanVars, hItem, reply>>
    /\ UNCHANGED <<consumed, accepted, drainVars, writerVars, forwardVars, wrapVars, userVars>>

\* handle_expand sends its next item.
HandlerEmits ==
    /\ handler = "emit"
    /\ hItem' = IF accepted = <<>> THEN 1 ELSE accepted[Len(accepted)] + 1
    /\ hItem' <= Items
    /\ handler' = "send"
    /\ UNCHANGED <<reply, consumed, accepted>>
    /\ UNCHANGED <<chanVars, drainVars, writerVars, forwardVars, wrapVars, userVars>>

\* StreamReceiver::recv in handle_reduce.
ReduceRecv ==
    /\ Mode = "reduce" /\ handler = "recv" /\ CanRecv("item")
    /\ consumed' = Append(consumed, Head(chan["item"]))
    /\ Take("item") /\ Ends
    /\ UNCHANGED <<handler, hItem, reply, accepted>>
    /\ UNCHANGED <<drainVars, writerVars, forwardVars, wrapVars, userVars>>

ReduceSeesEnd ==
    /\ Mode = "reduce" /\ handler = "recv" /\ SeesEnd("item")
    /\ handler' = "ended"
    /\ UNCHANGED <<chanVars, hItem, reply, consumed, accepted>>
    /\ UNCHANGED <<drainVars, writerVars, forwardVars, wrapVars, userVars>>

\* TransformDispatch::dispatch: the token is checked for every item received; the
\* handler of an item sends nothing, or one item.
TransformRecv ==
    /\ Mode = "transform" /\ handler = "recv" /\ CanRecv("item")
    /\ IF cancelled
       THEN /\ DispatchGone("closed")
            /\ UNCHANGED consumed
       ELSE /\ consumed' = Append(consumed, Head(chan["item"]))
            /\ \/ UNCHANGED <<handler, hItem>>
               \/ handler' = "send" /\ hItem' = Head(chan["item"])
            /\ Take("item") /\ Ends
            /\ UNCHANGED reply
    /\ UNCHANGED <<accepted, drainVars, writerVars, forwardVars, wrapVars, userVars>>

\* recv returned None, so cancelled is false: on_transform_complete is called.
TransformComplete ==
    /\ Mode = "transform" /\ handler = "recv" /\ SeesEnd("item")
    /\ handler' = "completing"
    /\ UNCHANGED <<chanVars, hItem, reply, consumed, accepted>>
    /\ UNCHANGED <<drainVars, writerVars, forwardVars, wrapVars, userVars>>

\* on_transform_complete adds an item.
CompleteEmits ==
    /\ handler = "completing"
    /\ handler' = "send" /\ hItem' = Final
    /\ UNCHANGED <<chanVars, reply, consumed, accepted>>
    /\ UNCHANGED <<drainVars, writerVars, forwardVars, wrapVars, userVars>>

\* StreamSender::send; a handler whose consumer is gone returns or goes on to its
\* next item.
HandlerSends ==
    /\ handler = "send"
    /\ \/ /\ CanSend("out")
          /\ Put("out", hItem) /\ Ends
          /\ accepted' = Append(accepted, hItem)
          /\ hItem' = NoItem
          /\ handler' = CASE Mode = "expand" -> "emit"
                          [] hItem = Final   -> "ended"
                          [] OTHER           -> "recv"
          /\ UNCHANGED reply
       \/ /\ SendFails("out") /\ Mode = "transform" /\ hItem # Final
          /\ handler' = "recv" /\ hItem' = NoItem
          /\ UNCHANGED <<chanVars, reply, accepted>>
       \/ /\ SendFails("out") /\ (Mode = "expand" \/ hItem = Final)
          /\ DispatchGone("closed")
          /\ UNCHANGED accepted
    /\ UNCHANGED <<consumed, drainVars, writerVars, forwardVars, wrapVars, userVars>>

\* The handler returns; a reduce handler may do so before its input has ended.
HandlerReturns ==
    /\ \/ handler \in {"emit", "ended", "completing"}
       \/ handler = "recv" /\ Mode = "reduce"
    /\ DispatchGone("ok")
    /\ UNCHANGED <<consumed, accepted, drainVars, writerVars, forwardVars, wrapVars, userVars>>

HandlerPanics ==
    /\ handler \in Handling
    /\ DispatchGone("closed")
    /\ UNCHANGED <<consumed, accepted, drainVars, writerVars, forwardVars, wrapVars, userVars>>

\* The select around the dispatch: its future is polled first, and dropped when it is
\* pending and the token is cancelled.  A handler may be pending at any of its awaits.
HandlerCancelled ==
    /\ handler \in Handling /\ cancelled
    /\ DispatchGone("closed")
    /\ UNCHANGED <<consumed, accepted, drainVars, writerVars, forwardVars, wrapVars, userVars>>

-----------------------------------------------------------------------------

DrainStep   == DrainCancelled \/ DrainTakes \/ DrainSeesEnd \/ DrainSends
WriterStep  == WriterPushes \/ WriterSeesEnd \/ CheckDeadline \/ WriterSends
ForwardStep == ForwardTakes \/ ForwardSends \/ ForwardSeesEnd \/ ForwardJoins
WrapStep    == WrapTakes \/ WrapRejects \/ WrapSeesEnd \/ WrapSends
HandlerStep == \/ NeverDispatched \/ Dispatch \/ HandlerEmits \/ ReduceRecv \/ ReduceSeesEnd
               \/ TransformRecv \/ TransformComplete \/ CompleteEmits \/ HandlerSends
               \/ HandlerReturns \/ HandlerPanics \/ HandlerCancelled
UserStep    == Refused \/ Start \/ Cancel \/ InputHangs \/ CallerReads \/ CallerDrops

Next == DrainStep \/ WriterStep \/ ForwardStep \/ WrapStep \/ HandlerStep \/ UserStep \/ Tick

\* What the actor's task does without a choice of the user's: to panic, to reject
\* the message or to leave a reduce early is never forced.
HandlerRuns == \/ Dispatch \/ HandlerEmits \/ ReduceRecv \/ ReduceSeesEnd \/ TransformRecv
               \/ TransformComplete \/ CompleteEmits \/ HandlerSends \/ HandlerCancelled
               \/ HandlerReturns /\ handler # "recv"

\* Every task that tokio has spawned runs when it can, time passes, and the caller
\* reads its stream as long as it has not dropped it.
Fairness ==
    /\ WF_vars(DrainStep) /\ WF_vars(WriterStep) /\ WF_vars(ForwardStep)
    /\ WF_vars(WrapStep) /\ WF_vars(HandlerRuns)
    /\ WF_vars(Start) /\ WF_vars(CallerReads) /\ WF_vars(Tick)

Spec == Init /\ [][Next]_vars /\ Fairness

-----------------------------------------------------------------------------

OneIf(item) == IF item = NoItem THEN <<>> ELSE <<item>>
Without(s, skipped) == Retain(s, {i \in DOMAIN s : s[i] \notin skipped})

\* What the writer and the channels around it hold, oldest first.
InBatches == FlattenSeq(chan["batch"]) \o wOut \o wBuf

\* Between the input stream and the handler no item is lost, duplicated or
\* overtaken: what the handler has received and what is under way are together the
\* items that the interceptors let pass, in the order of the input, and once the
\* handler has let go of its receiver it has seen a prefix of them
\* (runtime_support.rs: the drain tasks; stream.rs: BatchWriter).
InputConserved ==
    LET passed == Without([i \in 1..produced |-> i], skipIn)
    IN  IF HasInput /\ rxOpen["item"]
        THEN consumed \o chan["item"] \o fBatch
             \o (IF Mode = "reduce" THEN InBatches ELSE <<>>)
             \o chan["mid"] \o OneIf(dItem) = passed
        ELSE IsPrefix(consumed, passed)

\* Between StreamSender::send and the caller no item is lost, duplicated or
\* overtaken either, even when the handler panics, is cancelled or returns: every item
\* the sender has taken is read, under way or was dropped by an interceptor, in
\* order, unless the caller drops the stream or an interceptor rejects an item
\* (runtime_support.rs: wrap_stream_with_interception and its batched form).
OutputConserved ==
    LET passed == Without(accepted, skipOut)
        read   == got \o chan["caller"]
    IN  IF HasOutput /\ rxOpen["caller"] /\ wrap # "done"
        THEN read \o OneIf(xItem) \o xBatch \o InBatches \o chan["out"] = passed
        ELSE IsPrefix(read, passed)

\* Items are neither lost, duplicated nor reordered, on either side of the handler.
ItemsConserved == InputConserved /\ OutputConserved

\* A batch waits at most max_delay for each further item that it could still take:
\* every item that arrives begins the sleep anew, so the wait of the first one is
\* bounded by (max_items - 1) * max_delay, not by the max_delay "since the first item"
\* that the documentation of BatchConfig promises (test_runtime.rs and
\* runtime_support.rs: the select of the writer loops).
BatchWaitBounded == wBuf # <<>> => wAge <= (MaxItems - 1) * MaxDelay

\* dispatch.rs: "Only call on_transform_complete if the stream ended normally (not
\* cancelled)": the input that the handler saw ending was not cut short by the token.
CompleteOnlyIfNotCancelled == ~(handler = "completing" /\ drainEnd = "cancelled")

\* Whatever the order in which its input, its handler, its token and its caller stop,
\* a call comes to its end: every task returns, the reply of a reduce is answered and
\* the caller's stream is read to its end.  The one exception is an input stream that
\* stays pending and whose call is not cancelled (runtime_support.rs: all tasks).
Finished ==
    /\ handler = "done" /\ drain = "done" /\ writer = "done" /\ forward = "done"
    /\ wrap = "done"
    /\ reply # "waiting"
    /\ chan["caller"] = <<>>
TasksEnd == <>[](Finished \/ (hung /\ ~cancelled))
=============================================================================
