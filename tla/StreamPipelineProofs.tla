------------------------ MODULE StreamPipelineProofs ------------------------
(***************************************************************************)
(* Theorems about StreamPipeline, for calls of every kind, any number of   *)
(* items and any buffer size, max_items and max_delay.                     *)
(***************************************************************************)
EXTENDS StreamPipeline, RetainProofs

-----------------------------------------------------------------------------
(***************************************************************************)
(* What the operations on channels do to the type of their content.        *)
(***************************************************************************)

LEMMA ItemsAreItems ==
    /\ 1..Items \subseteq AllItems /\ 0..Items \subseteq 0..Final
    /\ Final \in AllItems /\ NoItem \in 0..Items /\ NoItem \in 0..Final
    /\ \A i \in 0..Final : i # NoItem => i \in AllItems
    /\ \A i \in AllItems : i \in 0..Final /\ i # NoItem
  BY StreamAssumption DEF AllItems, Final, NoItem

\* The channels that the tasks read and write.
LEMMA Ways ==
    /\ DrainTo \in {"mid", "item"} /\ WriterFrom \in {"mid", "out"}
    /\ (Batched /\ WrapFrom = "batch") \/ (~Batched /\ WrapFrom = "out")
    /\ Content("mid") = AllItems /\ Content("item") = AllItems /\ Content("out") = AllItems
    /\ Content("caller") = AllItems /\ Content("batch") = Batch
    /\ Channels = {"mid", "batch", "item", "out", "caller"}
  BY DEF DrainTo, WriterFrom, WrapFrom, Content, Channels

LEMMA PutType ==
    ASSUME ChanType, NEW c \in Channels, NEW v \in Content(c), Put(c, v),
           txOpen' \in [Channels -> BOOLEAN], rxOpen' \in [Channels -> BOOLEAN]
    PROVE  ChanType'
  <1>1. chan[c] \in Seq(Content(c))
    BY DEF ChanType
  <1>2. Append(chan[c], v) \in Seq(Content(c))
    BY <1>1
  <1> QED
    BY <1>2 DEF ChanType, Put

LEMMA TakeType ==
    ASSUME ChanType, NEW c \in Channels, CanRecv(c)
    PROVE  /\ Head(chan[c]) \in Content(c)
           /\ Take(c) /\ Ends => ChanType'
  <1>1. chan[c] \in Seq(Content(c)) /\ chan[c] # <<>>
    BY DEF ChanType, CanRecv
  <1>2. Head(chan[c]) \in Content(c) /\ Tail(chan[c]) \in Seq(Content(c))
    BY <1>1
  <1> QED
    BY <1>2 DEF ChanType, Take, Ends

LEMMA DropType ==
    ASSUME ChanType, NEW tx, NEW rx, Drop(tx, rx)
    PROVE  ChanType'
  <1>1. \A c \in Channels : chan'[c] \in Seq(Content(c))
    BY DEF ChanType, Drop
  <1>2. DOMAIN chan' = Channels
    BY DEF Drop
  <1>3. txOpen' \in [Channels -> BOOLEAN] /\ rxOpen' \in [Channels -> BOOLEAN]
    BY DEF ChanType, Drop
  <1> QED
    BY <1>1, <1>2, <1>3 DEF ChanType

\* A group of variables that a step leaves alone keeps its type.
LEMMA Unchanged ==
    /\ ChanType /\ UNCHANGED chanVars => ChanType'
    /\ DrainType /\ UNCHANGED drainVars => DrainType'
    /\ WriterType /\ UNCHANGED writerVars => WriterType'
    /\ ForwardType /\ UNCHANGED forwardVars => ForwardType'
    /\ WrapType /\ UNCHANGED wrapVars => WrapType'
    /\ HandlerType /\ UNCHANGED handlerVars => HandlerType'
    /\ UserType /\ UNCHANGED userVars => UserType'
  <1>1. ChanType /\ UNCHANGED chanVars => ChanType'
    BY DEF ChanType, chanVars
  <1>2. DrainType /\ UNCHANGED drainVars => DrainType'
    BY DEF DrainType, drainVars
  <1>3. WriterType /\ UNCHANGED writerVars => WriterType'
    BY DEF WriterType, writerVars
  <1>4. ForwardType /\ UNCHANGED forwardVars => ForwardType'
    BY DEF ForwardType, forwardVars
  <1>5. WrapType /\ UNCHANGED wrapVars => WrapType'
    BY DEF WrapType, wrapVars
  <1>6. HandlerType /\ UNCHANGED handlerVars => HandlerType'
    BY DEF HandlerType, handlerVars
  <1>7. UserType /\ UNCHANGED userVars => UserType'
    BY DEF UserType, userVars
  <1> QED
    BY <1>1, <1>2, <1>3, <1>4, <1>5, <1>6, <1>7

-----------------------------------------------------------------------------
(***************************************************************************)
(* Type correctness, task by task.                                         *)
(***************************************************************************)

LEMMA UserSteps == TypeOK /\ UserStep => TypeOK'
  <1> SUFFICES ASSUME TypeOK, UserStep PROVE TypeOK'
    OBVIOUS
  <1> USE Unchanged, ItemsAreItems DEF TypeOK
  <1>1. CASE Refused
    <2>1. ChanType'
      BY <1>1, DropType DEF Refused
    <2>2. DrainType' /\ WriterType' /\ ForwardType' /\ WrapType' /\ HandlerType'
      BY <1>1 DEF Refused, DrainType, WriterType, ForwardType, WrapType, HandlerType
    <2> QED
      BY <1>1, <2>1, <2>2 DEF Refused
  <1>2. CASE Start
    <2>1. DrainType' /\ WriterType' /\ ForwardType' /\ WrapType' /\ HandlerType'
      BY <1>2 DEF Start, DrainType, WriterType, ForwardType, WrapType, HandlerType
    <2> QED
      BY <1>2, <2>1 DEF Start
  <1>3. CASE Cancel
    <2>1. UserType'
      BY <1>3 DEF Cancel, UserType
    <2> QED
      BY <1>3, <2>1 DEF Cancel
  <1>4. CASE InputHangs
    <2>1. UserType'
      BY <1>4 DEF InputHangs, UserType
    <2> QED
      BY <1>4, <2>1 DEF InputHangs
  <1>5. CASE CallerReads
    <2>1. Head(chan["caller"]) \in AllItems /\ ChanType'
      BY <1>5, TakeType, Ways DEF CallerReads
    <2>2. UserType'
      BY <1>5, <2>1 DEF CallerReads, UserType
    <2> QED
      BY <1>5, <2>1, <2>2 DEF CallerReads
  <1>6. CASE CallerDrops
    <2>1. ChanType'
      BY <1>6, DropType DEF CallerDrops
    <2> QED
      BY <1>6, <2>1 DEF CallerDrops
  <1> QED
    BY <1>1, <1>2, <1>3, <1>4, <1>5, <1>6 DEF UserStep

LEMMA DrainSteps == TypeOK /\ DrainStep => TypeOK'
  <1> SUFFICES ASSUME TypeOK, DrainStep PROVE ChanType' /\ DrainType'
    BY Unchanged DEF TypeOK, DrainStep, DrainCancelled, DrainTakes, DrainSeesEnd, DrainSends
  <1> USE Unchanged, ItemsAreItems, StreamAssumption DEF TypeOK
  <1>0. \A why \in {"end", "closed", "rejected", "cancelled"} :
          DrainEnds(why) => /\ ChanType'
                            /\ drain' = "done" /\ drainEnd' = why /\ dItem' = NoItem
    BY DropType DEF DrainEnds
  <1>1. CASE DrainCancelled
    BY <1>0, <1>1 DEF DrainCancelled, DrainType
  <1>2. CASE DrainTakes
    <2>1. produced' \in 1..Items
      BY <1>2 DEF DrainTakes, DrainType
    <2>2. skipIn \cup {produced'} \subseteq AllItems
      BY <2>1 DEF DrainType
    <2>3. CASE drain' = "send" /\ dItem' = produced' /\ UNCHANGED <<drainEnd, skipIn, chanVars>>
      BY <2>1, <2>3 DEF DrainType, NoItem
    <2>4. CASE /\ skipIn' = skipIn \cup {produced'}
               /\ UNCHANGED <<drain, dItem, drainEnd, chanVars>>
      BY <2>1, <2>2, <2>4 DEF DrainType
    <2>5. CASE skipIn' = skipIn \cup {produced'} /\ DrainEnds("rejected")
      BY <1>0, <2>1, <2>2, <2>5 DEF DrainType
    <2> QED
      BY <1>2, <2>3, <2>4, <2>5 DEF DrainTakes
  <1>3. CASE DrainSeesEnd
    BY <1>0, <1>3 DEF DrainSeesEnd, DrainType
  <1>4. CASE DrainSends
    <2>1. CASE SendFails(DrainTo) /\ DrainEnds("closed")
      BY <1>0, <1>4, <2>1 DEF DrainSends, DrainType
    <2>2. CASE /\ CanSend(DrainTo) /\ Put(DrainTo, dItem) /\ Ends
               /\ drain' = "next" /\ dItem' = NoItem /\ UNCHANGED drainEnd
      <3>1. dItem \in AllItems
        BY <1>4 DEF DrainSends, DrainType
      <3>2. DrainTo \in Channels /\ Content(DrainTo) = AllItems
        BY Ways
      <3>3. ChanType'
        BY <2>2, <3>1, <3>2, PutType DEF Ends, ChanType
      <3> QED
        BY <1>4, <2>2, <3>3 DEF DrainSends, DrainType
    <2> QED
      BY <1>4, <2>1, <2>2 DEF DrainSends
  <1> QED
    BY <1>1, <1>2, <1>3, <1>4 DEF DrainStep

LEMMA WriterSteps == TypeOK /\ (WriterStep \/ Tick) => TypeOK'
  <1> SUFFICES ASSUME TypeOK, WriterStep \/ Tick PROVE ChanType' /\ WriterType'
    BY Unchanged DEF TypeOK, WriterStep, WriterPushes, WriterSeesEnd, CheckDeadline,
       WriterSends, Tick
  <1> USE Unchanged DEF TypeOK
  <1>0. \A buf \in Batch, next \in {"flush", "last"} :
          Flush(buf, next) /\ wSleep' \in Nat => WriterType'
    BY DEF Flush, WriterType, Batch
  <1>1. CASE WriterPushes
    <2>1. WriterFrom \in Channels /\ Content(WriterFrom) = AllItems
      BY Ways
    <2>2. Head(chan[WriterFrom]) \in AllItems /\ ChanType'
      BY <1>1, <2>1, TakeType DEF WriterPushes
    <2> DEFINE buf == Append(wBuf, Head(chan[WriterFrom]))
    <2>3. buf \in Batch
      BY <2>2 DEF WriterType, Batch
    <2>4. CASE Len(buf) >= MaxItems
      BY <1>0, <1>1, <2>2, <2>3, <2>4 DEF WriterPushes
    <2>5. CASE ~(Len(buf) >= MaxItems)
      BY <1>1, <2>2, <2>3, <2>5 DEF WriterPushes, WriterType, Batch
    <2> QED
      BY <2>4, <2>5
  <1>2. CASE WriterSeesEnd
    <2>1. CASE wBuf # <<>>
      <3>1. wBuf \in Batch
        BY <2>1 DEF WriterType, Batch
      <3> QED
        BY <1>0, <1>2, <2>1, <3>1 DEF WriterSeesEnd
    <2>2. CASE wBuf = <<>>
      <3>1. ChanType'
        BY <1>2, <2>2, DropType DEF WriterSeesEnd, WriterEnds
      <3> QED
        BY <1>2, <2>2, <3>1 DEF WriterSeesEnd, WriterType
    <2> QED
      BY <2>1, <2>2
  <1>3. CASE CheckDeadline
    <2>1. wBuf \in Batch
      BY <1>3 DEF CheckDeadline, WriterType, Batch
    <2>2. CASE wAge >= MaxDelay
      BY <1>0, <1>3, <2>1, <2>2 DEF CheckDeadline
    <2>3. CASE ~(wAge >= MaxDelay)
      BY <1>3, <2>3 DEF CheckDeadline, WriterType
    <2> QED
      BY <1>3, <2>2, <2>3
  <1>4. CASE WriterSends
    <2>1. wOut \in Batch
      BY <1>4 DEF WriterSends, WriterType
    <2>2. WriterType'
      <3>1. wOut' = <<>> /\ writer' \in {"recv", "done"} /\ UNCHANGED <<wBuf, wAge, wSleep>>
        BY <1>4 DEF WriterSends
      <3> QED
        BY <3>1 DEF WriterType
    <2>3. ChanType'
      <3>1. CASE CanSend("batch") /\ Put("batch", wOut) /\ Ends
        BY <2>1, <3>1, PutType, Ways DEF Ends, ChanType
      <3>2. CASE /\ CanSend("batch") /\ Put("batch", wOut)
                 /\ txOpen' = [txOpen EXCEPT !["batch"] = FALSE]
                 /\ rxOpen' = [rxOpen EXCEPT ![WriterFrom] = FALSE]
        <4>1. txOpen' \in [Channels -> BOOLEAN] /\ rxOpen' \in [Channels -> BOOLEAN]
          BY <3>2 DEF ChanType
        <4> QED
          BY <2>1, <3>2, <4>1, PutType, Ways
      <3>3. CASE WriterEnds
        BY <3>3, DropType DEF WriterEnds
      <3> QED
        BY <1>4, <3>1, <3>2, <3>3 DEF WriterSends
    <2> QED
      BY <2>2, <2>3
  <1>5. CASE Tick
    BY <1>5 DEF Tick, WriterType
  <1> QED
    BY <1>1, <1>2, <1>3, <1>4, <1>5 DEF WriterStep

LEMMA ForwardSteps == TypeOK /\ ForwardStep => TypeOK'
  <1> SUFFICES ASSUME TypeOK, ForwardStep PROVE ChanType' /\ ForwardType'
    BY Unchanged DEF TypeOK, ForwardStep, ForwardTakes, ForwardSends, ForwardSeesEnd,
       ForwardJoins
  <1> USE Unchanged DEF TypeOK
  <1>0. ForwardStops => ChanType' /\ ForwardType'
    BY DropType DEF ForwardStops, ForwardType
  <1>1. CASE ForwardTakes
    <2>1. Head(chan["batch"]) \in Batch /\ ChanType'
      BY <1>1, TakeType, Ways DEF ForwardTakes
    <2> QED
      BY <1>1, <2>1 DEF ForwardTakes, ForwardType, Batch
  <1>2. CASE ForwardSends
    <2>1. CASE CanSend("item") /\ Put("item", Head(fBatch)) /\ Ends
               /\ fBatch' = Tail(fBatch) /\ UNCHANGED forward
      <3>1. Head(fBatch) \in AllItems /\ Tail(fBatch) \in Seq(AllItems)
        BY <1>2 DEF ForwardSends, ForwardType
      <3>2. ChanType'
        BY <2>1, <3>1, PutType, Ways DEF Ends, ChanType
      <3> QED
        BY <2>1, <3>1, <3>2 DEF ForwardType
    <2> QED
      BY <1>0, <1>2, <2>1 DEF ForwardSends
  <1>3. CASE ForwardSeesEnd
    BY <1>0, <1>3 DEF ForwardSeesEnd
  <1>4. CASE ForwardJoins
    BY <1>4 DEF ForwardJoins, ForwardType
  <1> QED
    BY <1>1, <1>2, <1>3, <1>4 DEF ForwardStep

LEMMA WrapSteps == TypeOK /\ WrapStep => TypeOK'
  <1> SUFFICES ASSUME TypeOK, WrapStep PROVE ChanType' /\ WrapType'
    BY Unchanged DEF TypeOK, WrapStep, WrapTakes, WrapRejects, WrapSeesEnd, WrapSends
  <1> USE Unchanged, ItemsAreItems DEF TypeOK
  <1>0. WrapEnds /\ UNCHANGED skipOut => ChanType' /\ WrapType'
    BY DropType DEF WrapEnds, WrapType
  <1>1. CASE WrapTakes
    <2>1. ASSUME NEW item \in AllItems, NEW rest \in Seq(AllItems), Intercept(item, rest)
          PROVE  WrapType'
      BY <1>1, <2>1 DEF Intercept, WrapTakes, WrapType
    <2>2. CASE xBatch # <<>> /\ Intercept(Head(xBatch), Tail(xBatch)) /\ UNCHANGED chanVars
      <3>1. Head(xBatch) \in AllItems /\ Tail(xBatch) \in Seq(AllItems)
        BY <2>2 DEF WrapType
      <3> QED
        BY <2>1, <2>2, <3>1
    <2>3. CASE /\ CanRecv(WrapFrom) /\ Take(WrapFrom) /\ Ends
               /\ IF Batched THEN Intercept(Head(Head(chan[WrapFrom])),
                             Tail(Head(chan[WrapFrom])))
                  ELSE Intercept(Head(chan[WrapFrom]), <<>>)
      <3>1. WrapFrom \in Channels
        BY Ways
      <3>2. Head(chan[WrapFrom]) \in Content(WrapFrom) /\ ChanType'
        BY <2>3, <3>1, TakeType
      <3>3. CASE Batched
        <4>1. Head(chan[WrapFrom]) \in Batch
          BY <3>2, <3>3, Ways
        <4>2. /\ Head(Head(chan[WrapFrom])) \in AllItems
              /\ Tail(Head(chan[WrapFrom])) \in Seq(AllItems)
          BY <4>1 DEF Batch
        <4> QED
          BY <2>1, <2>3, <3>2, <3>3, <4>2
      <3>4. CASE ~Batched
        <4>1. Head(chan[WrapFrom]) \in AllItems /\ <<>> \in Seq(AllItems)
          BY <3>2, <3>4, Ways
        <4> QED
          BY <2>1, <2>3, <3>2, <3>4, <4>1
      <3> QED
        BY <3>3, <3>4
    <2> QED
      BY <1>1, <2>2, <2>3 DEF WrapTakes
  <1>2. CASE WrapRejects
    BY <1>0, <1>2 DEF WrapRejects
  <1>3. CASE WrapSeesEnd
    BY <1>0, <1>3 DEF WrapSeesEnd
  <1>4. CASE WrapSends
    <2>1. CASE CanSend("caller") /\ Put("caller", xItem) /\ Ends
               /\ wrap' = "recv" /\ xItem' = NoItem /\ UNCHANGED xBatch
      <3>1. xItem \in AllItems
        BY <1>4 DEF WrapSends, WrapType
      <3>2. ChanType'
        BY <2>1, <3>1, PutType, Ways DEF Ends, ChanType
      <3> QED
        BY <1>4, <2>1, <3>2 DEF WrapSends, WrapType
    <2> QED
      BY <1>0, <1>4, <2>1 DEF WrapSends
  <1> QED
    BY <1>1, <1>2, <1>3, <1>4 DEF WrapStep

LEMMA HandlerSteps == TypeOK /\ HandlerStep => TypeOK'
  <1> SUFFICES ASSUME TypeOK, HandlerStep PROVE ChanType' /\ HandlerType'
    BY Unchanged DEF TypeOK, HandlerStep, NeverDispatched, Dispatch, HandlerEmits, ReduceRecv,
       ReduceSeesEnd, TransformRecv, TransformComplete, CompleteEmits, HandlerSends,
       HandlerReturns, HandlerPanics, HandlerCancelled
  <1> USE Unchanged, ItemsAreItems DEF TypeOK
  <1>0. \A answer \in {"ok", "closed", "cancelled", "rejected"} :
          DispatchGone(answer) /\ UNCHANGED <<consumed, accepted>> => ChanType' /\ HandlerType'
    BY DropType DEF DispatchGone, HandlerType
  <1>1. CASE NeverDispatched
    BY <1>0, <1>1 DEF NeverDispatched
  <1>2. CASE Dispatch
    <2>1. CASE cancelled
      BY <1>0, <1>2, <2>1 DEF Dispatch
    <2>2. CASE ~cancelled
      BY <1>2, <2>2 DEF Dispatch, HandlerType, Handling
    <2> QED
      BY <2>1, <2>2
  <1>3. CASE HandlerEmits
    <2>1. hItem' \in Nat \ {0} /\ hItem' <= Items
      <3>1. CASE accepted = <<>>
        BY <1>3, <3>1 DEF HandlerEmits
      <3>2. CASE accepted # <<>>
        <4>1. accepted[Len(accepted)] \in AllItems
          BY <3>2 DEF HandlerType
        <4> QED
          BY <1>3, <3>2, <4>1, StreamAssumption DEF HandlerEmits, AllItems, Final
      <3> QED
        BY <3>1, <3>2
    <2>2. hItem' \in 0..Final /\ hItem' # NoItem
      BY <2>1, StreamAssumption DEF Final, NoItem
    <2> QED
      BY <1>3, <2>2 DEF HandlerEmits, HandlerType, Handling
  <1>4. CASE ReduceRecv
    <2>1. Head(chan["item"]) \in AllItems /\ ChanType'
      BY <1>4, TakeType, Ways DEF ReduceRecv
    <2> QED
      BY <1>4, <2>1 DEF ReduceRecv, HandlerType
  <1>5. CASE ReduceSeesEnd
    BY <1>5 DEF ReduceSeesEnd, HandlerType, Handling
  <1>6. CASE TransformRecv
    <2>1. CASE cancelled
      BY <1>0, <1>6, <2>1 DEF TransformRecv
    <2>2. CASE ~cancelled
      <3>1. Head(chan["item"]) \in AllItems /\ ChanType'
        BY <1>6, <2>2, TakeType, Ways DEF TransformRecv
      <3>0. consumed' = Append(consumed, Head(chan["item"]))
        BY <1>6, <2>2, Zenon DEF TransformRecv
      <3>2. consumed' \in Seq(AllItems)
        BY <3>0, <3>1 DEF HandlerType
      <3>3. \/ UNCHANGED <<handler, hItem>>
            \/ handler' = "send" /\ hItem' \in AllItems
        BY <1>6, <2>2, <3>1 DEF TransformRecv
      <3>4. UNCHANGED <<reply, accepted>>
        BY <1>6, <2>2 DEF TransformRecv
      <3> QED
        BY <3>1, <3>2, <3>3, <3>4 DEF HandlerType, Handling
    <2> QED
      BY <2>1, <2>2
  <1>7. CASE TransformComplete
    BY <1>7 DEF TransformComplete, HandlerType, Handling
  <1>8. CASE CompleteEmits
    BY <1>8 DEF CompleteEmits, HandlerType, Handling
  <1>9. CASE HandlerSends
    <2>1. hItem \in AllItems
      BY <1>9 DEF HandlerSends, HandlerType
    <2>2. CASE CanSend("out") /\ Put("out", hItem) /\ Ends
               /\ accepted' = Append(accepted, hItem) /\ hItem' = NoItem
               /\ handler' \in {"emit", "ended", "recv"} /\ UNCHANGED <<reply, consumed>>
      <3>1. ChanType'
        BY <2>1, <2>2, PutType, Ways DEF Ends, ChanType
      <3> QED
        BY <2>1, <2>2, <3>1 DEF HandlerType, Handling
    <2>3. CASE /\ handler' = "recv" /\ hItem' = NoItem
               /\ UNCHANGED <<chanVars, reply, accepted, consumed>>
      BY <2>3 DEF HandlerType, Handling
    <2>4. CASE DispatchGone("closed") /\ UNCHANGED <<accepted, consumed>>
      BY <1>0, <2>4
    <2> QED
      BY <1>9, <2>2, <2>3, <2>4 DEF HandlerSends
  <1>10. CASE HandlerReturns
    BY <1>0, <1>10 DEF HandlerReturns
  <1>11. CASE HandlerPanics
    BY <1>0, <1>11 DEF HandlerPanics
  <1>12. CASE HandlerCancelled
    BY <1>0, <1>12 DEF HandlerCancelled
  <1> QED
    BY <1>1, <1>2, <1>3, <1>4, <1>5, <1>6, <1>7, <1>8, <1>9, <1>10, <1>11, <1>12
    DEF HandlerStep

LEMMA InitType == Init => TypeOK
  <1> SUFFICES ASSUME Init PROVE TypeOK
    OBVIOUS
  <1>1. ChanType
    BY DEF Init, ChanType
  <1>2. DrainType /\ WriterType /\ ForwardType
    BY ItemsAreItems, StreamAssumption DEF Init, DrainType, WriterType, ForwardType
  <1>3. WrapType /\ HandlerType
    BY ItemsAreItems DEF Init, WrapType, HandlerType
  <1>4. UserType
    <2>1. got \in Seq(AllItems)
      BY DEF Init
    <2>2. cancelled \in BOOLEAN /\ hung \in BOOLEAN /\ call \in Calls
      BY Zenon DEF Init
    <2> QED
      BY <2>1, <2>2, Zenon DEF UserType
  <1> QED
    BY <1>1, <1>2, <1>3, <1>4 DEF TypeOK

LEMMA NextType == TypeOK /\ [Next]_vars => TypeOK'
  <1>1. TypeOK /\ UNCHANGED vars => TypeOK'
    BY Unchanged DEF TypeOK, vars
  <1> QED
    BY <1>1, UserSteps, DrainSteps, WriterSteps, ForwardSteps, WrapSteps, HandlerSteps DEF Next

\* Whatever the calls, the buffers and the order of the tasks' steps, every variable
\* of a streaming call has its type: in particular a task that sends has an item, and
\* no batch that BatchReader unpacks is empty (stream.rs: flush, BatchReader::recv).
THEOREM TypeCorrect == Spec => []TypeOK
  BY InitType, NextType, PTL DEF Spec

-----------------------------------------------------------------------------
(***************************************************************************)
(* How long a batch waits.                                                 *)
(***************************************************************************)

\* BatchWaitBounded is not inductive.  What is: a buffer is never full while the writer
\* waits, and of the time since its first item at most max_delay was spent for each of
\* the items behind the first, plus the sleep that is under way.
WaitInv ==
    /\ Len(wBuf) < MaxItems
    /\ wSleep <= MaxDelay
    /\ wBuf = <<>> => wAge = 0
    /\ wBuf # <<>> => /\ wSleep <= wAge
                      /\ wAge <= (Len(wBuf) - 1) * MaxDelay + wSleep

LEMMA Times ==
    ASSUME NEW j \in Nat, NEW k \in Nat, j <= k
    PROVE  j * MaxDelay \in Nat /\ k * MaxDelay \in Nat /\ j * MaxDelay <= k * MaxDelay
  BY StreamAssumption

LEMMA InitWait == Init => WaitInv
  BY StreamAssumption DEF Init, WaitInv

\* The steps of the writer.
LEMMA WriterWait == TypeOK /\ WaitInv /\ (WriterStep \/ Tick) => WaitInv'
  <1> SUFFICES ASSUME TypeOK, WaitInv, WriterStep \/ Tick PROVE WaitInv'
    OBVIOUS
  <1>t. /\ wBuf \in Seq(AllItems) /\ Len(wBuf) \in Nat /\ wAge \in Nat /\ wSleep \in Nat
        /\ MaxDelay \in Nat /\ MaxItems \in Nat \ {0}
        /\ (wBuf # <<>> => Len(wBuf) > 0)
    BY StreamAssumption DEF TypeOK, WriterType
  <1>0. \A buf, next : Flush(buf, next) /\ wSleep' \in 0..MaxDelay => WaitInv'
    BY <1>t DEF Flush, WaitInv
  <1>1. CASE WriterPushes
    <2>1. WriterFrom \in Channels /\ Content(WriterFrom) = AllItems
      BY Ways
    <2>2. Head(chan[WriterFrom]) \in AllItems
      BY <1>1, <2>1, TakeType DEF WriterPushes, TypeOK
    <2> DEFINE buf == Append(wBuf, Head(chan[WriterFrom]))
    <2>3. buf \in Seq(AllItems) /\ Len(buf) = Len(wBuf) + 1 /\ buf # <<>>
      BY <1>t, <2>2
    <2>4. CASE Len(buf) >= MaxItems
      BY <1>0, <1>1, <1>t, <2>4 DEF WriterPushes
    <2>5. CASE ~(Len(buf) >= MaxItems)
      <3>1. wBuf' = buf /\ wAge' = wAge /\ wSleep' = 0
        BY <1>1, <2>5 DEF WriterPushes
      <3>2. Len(buf) < MaxItems
        BY <1>t, <2>3, <2>5
      <3>3. wAge <= Len(wBuf) * MaxDelay
        <4>1. CASE wBuf = <<>>
          BY <1>t, <4>1 DEF WaitInv
        <4>2. CASE wBuf # <<>>
          <5>1. (Len(wBuf) - 1) * MaxDelay + MaxDelay = Len(wBuf) * MaxDelay
            BY <1>t
          <5>2. Len(wBuf) - 1 \in Nat /\ (Len(wBuf) - 1) * MaxDelay \in Nat
            BY <1>t, <4>2, Times
          <5> QED
            BY <1>t, <4>2, <5>1, <5>2 DEF WaitInv
        <4> QED
          BY <4>1, <4>2
      <3>4. (Len(buf) - 1) * MaxDelay = Len(wBuf) * MaxDelay
        BY <1>t, <2>3
      <3>5. Len(wBuf) * MaxDelay \in Nat
        BY <1>t, Times
      <3>6. wAge <= (Len(buf) - 1) * MaxDelay + 0
        BY <1>t, <3>3, <3>4, <3>5
      <3> QED
        BY <1>t, <2>3, <3>1, <3>2, <3>6 DEF WaitInv
    <2> QED
      BY <2>4, <2>5
  <1>2. CASE WriterSeesEnd
    <2>1. CASE wBuf # <<>>
      BY <1>0, <1>2, <1>t, <2>1 DEF WriterSeesEnd
    <2>2. CASE wBuf = <<>>
      BY <1>2, <1>t, <2>2 DEF WriterSeesEnd, WaitInv
    <2> QED
      BY <2>1, <2>2
  <1>3. CASE CheckDeadline
    <2>1. wAge >= MaxDelay
      BY <1>3, <1>t DEF CheckDeadline, WaitInv
    <2> QED
      BY <1>0, <1>3, <1>t, <2>1 DEF CheckDeadline
  <1>4. CASE WriterSends
    BY <1>4 DEF WriterSends, WaitInv
  <1>5. CASE Tick
    <2>1. wSleep + 1 <= MaxDelay /\ wBuf # <<>>
      BY <1>5, <1>t DEF Tick
    <2>2. Len(wBuf) - 1 \in Nat /\ (Len(wBuf) - 1) * MaxDelay \in Nat
      BY <1>t, <2>1, Times
    <2> QED
      BY <1>5, <1>t, <2>1, <2>2 DEF Tick, WaitInv
  <1> QED
    BY <1>1, <1>2, <1>3, <1>4, <1>5 DEF WriterStep

LEMMA NextWait == TypeOK /\ WaitInv /\ [Next]_vars => WaitInv'
  <1>1. WaitInv /\ UNCHANGED <<wBuf, wAge, wSleep>> => WaitInv'
    BY DEF WaitInv
  <1>2. UserStep => UNCHANGED <<wBuf, wAge, wSleep>>
    BY DEF UserStep, Refused, Start, Cancel, InputHangs, CallerReads, CallerDrops, writerVars
  <1>3. DrainStep \/ ForwardStep \/ WrapStep => UNCHANGED <<wBuf, wAge, wSleep>>
    BY DEF DrainStep, DrainCancelled, DrainTakes, DrainSeesEnd, DrainSends, ForwardStep,
       ForwardTakes, ForwardSends, ForwardSeesEnd, ForwardJoins, WrapStep, WrapTakes,
       WrapRejects, WrapSeesEnd, WrapSends, writerVars
  <1>4. HandlerStep => UNCHANGED <<wBuf, wAge, wSleep>>
    BY DEF HandlerStep, NeverDispatched, Dispatch, HandlerEmits, ReduceRecv, ReduceSeesEnd,
       TransformRecv, TransformComplete, CompleteEmits, HandlerSends, HandlerReturns,
       HandlerPanics, HandlerCancelled, writerVars
  <1>5. UNCHANGED vars => UNCHANGED <<wBuf, wAge, wSleep>>
    BY DEF vars, writerVars
  <1> QED
    BY <1>1, <1>2, <1>3, <1>4, <1>5, WriterWait DEF Next

LEMMA WaitIsBounded == TypeOK /\ WaitInv => BatchWaitBounded
  <1> SUFFICES ASSUME TypeOK, WaitInv, wBuf # <<>> PROVE wAge <= (MaxItems - 1) * MaxDelay
    BY DEF BatchWaitBounded
  <1>1. /\ Len(wBuf) \in Nat \ {0} /\ wAge \in Nat /\ wSleep \in Nat
        /\ MaxDelay \in Nat /\ MaxItems \in Nat \ {0}
    BY StreamAssumption DEF TypeOK, WriterType
  <1>2. (Len(wBuf) - 1) * MaxDelay + MaxDelay = Len(wBuf) * MaxDelay
    BY <1>1
  <1>3. Len(wBuf) <= MaxItems - 1 /\ MaxItems - 1 \in Nat
    BY <1>1 DEF WaitInv
  <1>4. Len(wBuf) * MaxDelay <= (MaxItems - 1) * MaxDelay
        /\ Len(wBuf) * MaxDelay \in Nat /\ (MaxItems - 1) * MaxDelay \in Nat
    BY <1>1, <1>3, Times
  <1>5. (Len(wBuf) - 1) * MaxDelay \in Nat
    BY <1>1, Times
  <1> QED
    BY <1>1, <1>2, <1>4, <1>5 DEF WaitInv

\* For any max_items and max_delay, no item waits in a BatchWriter for longer than
\* (max_items - 1) * max_delay: every item that arrives begins the sleep of the
\* writer's loop anew, but there is room for only so many (test_runtime.rs: the writer
\* task of expand; runtime_support.rs: stage 2 of spawn_reduce_batched_drain).
THEOREM BatchesDoNotLinger == Spec => []BatchWaitBounded
  <1>1. Init => TypeOK /\ WaitInv
    BY InitType, InitWait
  <1>2. TypeOK /\ WaitInv /\ [Next]_vars => (TypeOK /\ WaitInv)'
    BY NextType, NextWait
  <1> QED
    BY <1>1, <1>2, WaitIsBounded, PTL DEF Spec

-----------------------------------------------------------------------------
(***************************************************************************)
(* Entries of sequences of items: concatenation, Without and FlattenSeq.   *)
(***************************************************************************)

LEMMA ItemsAreNumbers ==
    /\ AllItems \subseteq Nat
    /\ \A s \in Seq(AllItems) : /\ Len(s) \in Nat
                               /\ \A i \in 1..Len(s) : s[i] \in AllItems /\ s[i] \in Nat
  BY StreamAssumption DEF AllItems, Final

\* Whether x is an entry of s, and whether the entries of s grow.
Holds(s, x)   == \E i \in 1..Len(s) : s[i] = x
Increasing(s) == \A i, j \in 1..Len(s) : i < j => s[i] < s[j]

\* Up to its length, a growing sequence agrees with one that has the same entries.
LEMMA AgreeUpTo ==
    ASSUME NEW a \in Seq(AllItems), NEW b \in Seq(AllItems), Increasing(a), Increasing(b),
           \A x : Holds(a, x) <=> Holds(b, x)
    PROVE  \A i \in 1..Len(a) : i \in 1..Len(b) => a[i] = b[i]
  <1> DEFINE T == {i \in 1..Len(a) : i \in 1..Len(b) /\ a[i] # b[i]}
  <1> SUFFICES ASSUME T # {} PROVE FALSE
    OBVIOUS
  <1>0. /\ Len(a) \in Nat /\ Len(b) \in Nat
        /\ \A i \in 1..Len(a) : a[i] \in Nat
        /\ \A i \in 1..Len(b) : b[i] \in Nat
    BY ItemsAreNumbers
  <1>1. PICK p \in T : \A q \in T : p <= q
    <2>1. T \subseteq Nat
      BY <1>0
    <2> HIDE DEF T
    <2> QED
      BY <2>1, LeastNat
  <1>2. p \in 1..Len(a) /\ p \in 1..Len(b) /\ a[p] # b[p] /\ a[p] \in Nat /\ b[p] \in Nat
    BY <1>0, <1>1
  <1>3. \A q \in 1..Len(a) : q < p => q \in 1..Len(b) /\ a[q] = b[q]
    BY <1>0, <1>1, <1>2
  <1>4. CASE a[p] < b[p]
    <2>1. PICK q \in 1..Len(b) : b[q] = a[p]
      BY <1>2 DEF Holds
    <2>2. q < p
      BY <1>0, <1>2, <1>4, <2>1 DEF Increasing
    <2>3. q \in 1..Len(a)
      BY <1>0, <1>2, <2>2
    <2> QED
      BY <1>0, <1>2, <1>3, <2>1, <2>2, <2>3 DEF Increasing
  <1>5. CASE b[p] < a[p]
    <2>1. PICK q \in 1..Len(a) : a[q] = b[p]
      BY <1>2 DEF Holds
    <2>2. q < p
      BY <1>0, <1>2, <1>5, <2>1 DEF Increasing
    <2>3. a[q] = b[q] /\ q \in 1..Len(b)
      BY <1>3, <2>1, <2>2
    <2>4. b[q] < b[p]
      BY <1>2, <2>2, <2>3 DEF Increasing
    <2> QED
      BY <1>2, <2>1, <2>3, <2>4
  <1> QED
    BY <1>2, <1>4, <1>5

\* So it is no longer than the other one.
LEMMA NoLonger ==
    ASSUME NEW a \in Seq(AllItems), NEW b \in Seq(AllItems), Increasing(a), Increasing(b),
           \A x : Holds(a, x) <=> Holds(b, x)
    PROVE  Len(a) <= Len(b)
  <1>0. /\ Len(a) \in Nat /\ Len(b) \in Nat
        /\ \A i \in 1..Len(a) : a[i] \in Nat
    BY ItemsAreNumbers
  <1> SUFFICES ASSUME Len(b) + 1 <= Len(a) PROVE FALSE
    BY <1>0
  <1>1. Len(b) + 1 \in 1..Len(a)
    BY <1>0
  <1> DEFINE n == Len(b) + 1
  <1>2. n \in 1..Len(a) /\ \A q \in 1..Len(b) : q < n /\ q \in 1..Len(a)
    BY <1>0, <1>1
  <1> HIDE DEF n
  <1>3. PICK q \in 1..Len(b) : b[q] = a[n]
    BY <1>2 DEF Holds
  <1>4. a[q] = b[q]
    BY <1>2, AgreeUpTo
  <1> QED
    BY <1>0, <1>2, <1>3, <1>4 DEF Increasing

\* A growing sequence is determined by the set of its entries.
LEMMA SameItems ==
    ASSUME NEW a \in Seq(AllItems), NEW b \in Seq(AllItems), Increasing(a), Increasing(b),
           \A x : Holds(a, x) <=> Holds(b, x)
    PROVE  a = b
  <1>1. Len(a) = Len(b)
    <2>1. Len(a) <= Len(b) /\ Len(b) <= Len(a)
      BY NoLonger
    <2> QED
      BY <2>1, ItemsAreNumbers
  <1>2. \A i \in 1..Len(a) : a[i] = b[i]
    BY <1>1, AgreeUpTo
  <1> QED
    BY <1>1, <1>2, SeqEqual

\* What Without keeps.
LEMMA WithoutIs ==
    ASSUME NEW s \in Seq(AllItems), NEW skipped
    PROVE  /\ Without(s, skipped) \in Seq(AllItems)
           /\ \A x : Holds(Without(s, skipped), x) <=> (Holds(s, x) /\ x \notin skipped)
           /\ Increasing(s) => Increasing(Without(s, skipped))
  <1> DEFINE keep == {i \in DOMAIN s : s[i] \notin skipped}
             r == Retain(s, keep)
  <1>0. /\ keep \subseteq 1..Len(s) /\ Without(s, skipped) = r
        /\ \A j : j \in keep <=> j \in 1..Len(s) /\ s[j] \notin skipped
    BY DEF Without
  <1>1. r \in Seq(AllItems) /\ \E h : IsPick(s, keep, Len(s), r, h)
    BY RetainPicks
  <1>2. SameEntries(s, keep, r)
    BY <1>0, RetainRange
  <1> HIDE DEF keep, r
  <1>3. \A x : Holds(r, x) <=> (Holds(s, x) /\ x \notin skipped)
    <2>1. ASSUME NEW x, Holds(r, x) PROVE Holds(s, x) /\ x \notin skipped
      <3>1. PICK i \in 1..Len(r) : r[i] = x
        BY <2>1 DEF Holds
      <3>2. PICK j \in keep : r[i] = s[j]
        BY <1>2, Zenon DEF SameEntries
      <3>3. s[j] = x /\ s[j] \notin skipped /\ j \in 1..Len(s)
        BY <1>0, <3>1, <3>2
      <3> QED
        BY <3>3 DEF Holds
    <2>2. ASSUME NEW x, Holds(s, x), x \notin skipped PROVE Holds(r, x)
      BY <1>0, <1>2, <2>2, Zenon DEF SameEntries, Holds
    <2> QED
      BY <2>1, <2>2, Zenon
  <1>4. ASSUME Increasing(s) PROVE Increasing(r)
    <2>1. PICK h : IsPick(s, keep, Len(s), r, h)
      BY <1>1
    <2>2. \A k \in 1..Len(r) : h[k] \in 1..Len(s) /\ r[k] = s[h[k]]
      BY <2>1 DEF IsPick
    <2>3. \A k, l \in 1..Len(r) : k < l => h[k] < h[l]
      BY <2>1, Zenon DEF IsPick
    <2> QED
      BY <1>4, <2>2, <2>3 DEF Increasing
  <1> QED
    BY <1>0, <1>1, <1>3, <1>4

\* Entries of a concatenation.
LEMMA HoldsConcat ==
    ASSUME NEW S, NEW a \in Seq(S), NEW b \in Seq(S)
    PROVE  \A x : Holds(a \o b, x) <=> Holds(a, x) \/ Holds(b, x)
  <1>0. Len(a) \in Nat /\ Len(b) \in Nat /\ Len(a \o b) = Len(a) + Len(b)
    OBVIOUS
  <1>1. \A i \in 1..Len(a) : (a \o b)[i] = a[i] /\ i \in 1..Len(a \o b)
    BY <1>0
  <1>2. \A i \in 1..Len(b) : (a \o b)[i + Len(a)] = b[i] /\ i + Len(a) \in 1..Len(a \o b)
    BY <1>0
  <1>3. \A i \in 1..Len(a \o b) : \/ i \in 1..Len(a) /\ (a \o b)[i] = a[i]
                                  \/ i - Len(a) \in 1..Len(b) /\ (a \o b)[i] = b[i - Len(a)]
    BY <1>0
  <1> DEFINE c == a \o b
  <1> HIDE DEF c
  <1>4. ASSUME NEW x, Holds(c, x) PROVE Holds(a, x) \/ Holds(b, x)
    BY <1>3, <1>4 DEF Holds, c
  <1>5. ASSUME NEW x, Holds(a, x) PROVE Holds(c, x)
    BY <1>1, <1>5 DEF Holds, c
  <1>6. ASSUME NEW x, Holds(b, x) PROVE Holds(c, x)
    BY <1>2, <1>6 DEF Holds, c
  <1> QED
    BY <1>4, <1>5, <1>6 DEF c

\* A concatenation grows iff its parts do and no entry of the second is below one of
\* the first.
LEMMA IncreasingConcat ==
    ASSUME NEW a \in Seq(AllItems), NEW b \in Seq(AllItems)
    PROVE  Increasing(a \o b) <=> /\ Increasing(a) /\ Increasing(b)
                                  /\ \A x, y : Holds(a, x) /\ Holds(b, y) => x < y
  <1>0. Len(a) \in Nat /\ Len(b) \in Nat /\ Len(a \o b) = Len(a) + Len(b)
    OBVIOUS
  <1> DEFINE c == a \o b
  <1>1. \A i \in 1..Len(a) : c[i] = a[i] /\ i \in 1..Len(c)
    BY <1>0
  <1>2. \A i \in 1..Len(b) : c[i + Len(a)] = b[i] /\ i + Len(a) \in 1..Len(c)
    BY <1>0
  <1>3. \A i \in 1..Len(c) : \/ i \in 1..Len(a) /\ c[i] = a[i]
                             \/ i > Len(a) /\ i - Len(a) \in 1..Len(b) /\ c[i] = b[i - Len(a)]
    BY <1>0
  <1>4. Len(c) \in Nat
    BY <1>0
  <1> HIDE DEF c
  <1>5. ASSUME Increasing(c)
        PROVE  Increasing(a) /\ Increasing(b) /\ \A x, y : Holds(a, x) /\ Holds(b, y) => x < y
    <2>1. Increasing(a)
      BY <1>1, <1>5 DEF Increasing
    <2>2. Increasing(b)
      <3> SUFFICES ASSUME NEW i \in 1..Len(b), NEW j \in 1..Len(b), i < j PROVE b[i] < b[j]
        BY DEF Increasing
      <3>1. i + Len(a) < j + Len(a)
        BY <1>0
      <3> QED
        BY <1>2, <1>5, <3>1 DEF Increasing
    <2>3. ASSUME NEW i \in 1..Len(a), NEW j \in 1..Len(b) PROVE a[i] < b[j]
      <3>1. i < j + Len(a)
        BY <1>0
      <3> QED
        BY <1>1, <1>2, <1>5, <3>1 DEF Increasing
    <2>4. \A x, y : Holds(a, x) /\ Holds(b, y) => x < y
      BY <2>3 DEF Holds
    <2> QED
      BY <2>1, <2>2, <2>4
  <1>6. ASSUME Increasing(a), Increasing(b), \A x, y : Holds(a, x) /\ Holds(b, y) => x < y
        PROVE  Increasing(c)
    <2> SUFFICES ASSUME NEW i \in 1..Len(c), NEW j \in 1..Len(c), i < j PROVE c[i] < c[j]
      BY DEF Increasing
    <2>0. \A k \in 1..Len(a), l \in 1..Len(b) : a[k] < b[l]
      BY <1>6 DEF Holds
    <2>1. CASE j \in 1..Len(a) /\ c[j] = a[j]
      <3>1. i \in 1..Len(a)
        BY <1>0, <1>4, <2>1
      <3> QED
        BY <1>1, <1>6, <2>1, <3>1 DEF Increasing
    <2>2. CASE j > Len(a) /\ j - Len(a) \in 1..Len(b) /\ c[j] = b[j - Len(a)]
      <3>1. CASE i \in 1..Len(a) /\ c[i] = a[i]
        BY <2>0, <2>2, <3>1
      <3>2. CASE i > Len(a) /\ i - Len(a) \in 1..Len(b) /\ c[i] = b[i - Len(a)]
        <4>1. i - Len(a) < j - Len(a)
          BY <1>0, <1>4
        <4> QED
          BY <1>6, <2>2, <3>2, <4>1 DEF Increasing
      <3> QED
        BY <1>3, <3>1, <3>2
    <2> QED
      BY <1>3, <2>1, <2>2
  <1> QED
    BY <1>5, <1>6 DEF c

LEMMA One ==
    ASSUME NEW x \in AllItems
    PROVE  /\ <<x>> \in Seq(AllItems) /\ Len(<<x>>) = 1 /\ Increasing(<<x>>)
           /\ \A y : Holds(<<x>>, y) <=> y = x
  <1>1. <<x>> \in Seq(AllItems) /\ Len(<<x>>) = 1 /\ <<x>>[1] = x
    OBVIOUS
  <1>2. \A i \in 1..1 : i = 1
    OBVIOUS
  <1>3. 1 \in 1..1
    OBVIOUS
  <1> DEFINE s == <<x>>
  <1> HIDE DEF s
  <1>4. Increasing(s)
    BY <1>1, <1>2 DEF Increasing, s
  <1>5. \A y : Holds(s, y) <=> y = x
    BY <1>1, <1>2, <1>3 DEF Holds, s
  <1> QED
    BY <1>1, <1>4, <1>5 DEF s

\* Without of a growing sequence that gets one entry more.
LEMMA WithoutAppend ==
    ASSUME NEW s \in Seq(AllItems), NEW x \in AllItems, NEW skipped,
           Increasing(s), \A y : Holds(s, y) => y < x
    PROVE  /\ Increasing(Append(s, x))
           /\ Without(Append(s, x), skipped)
              = IF x \in skipped THEN Without(s, skipped) ELSE Append(Without(s, skipped), x)
  <1> DEFINE t == s \o <<x>>
             w == Without(s, skipped)
             v == Without(t, skipped)
  <1>1. Append(s, x) = t /\ t \in Seq(AllItems)
    BY One, AppendIsConcat
  <1>2. Increasing(t) /\ \A y : Holds(t, y) <=> Holds(s, y) \/ y = x
    <2>1. \A a, b : Holds(s, a) /\ Holds(<<x>>, b) => a < b
      BY One
    <2> QED
      BY <2>1, One, HoldsConcat, IncreasingConcat
  <1>3. /\ w \in Seq(AllItems) /\ Increasing(w)
        /\ \A y : Holds(w, y) <=> Holds(s, y) /\ y \notin skipped
    BY WithoutIs
  <1>4. /\ v \in Seq(AllItems) /\ Increasing(v)
        /\ \A y : Holds(v, y) <=> Holds(t, y) /\ y \notin skipped
    BY <1>1, <1>2, WithoutIs
  <1>5. w \o <<x>> \in Seq(AllItems) /\ Increasing(w \o <<x>>) /\ Append(w, x) = w \o <<x>>
        /\ \A y : Holds(w \o <<x>>, y) <=> Holds(w, y) \/ y = x
    <2>1. \A a, b : Holds(w, a) /\ Holds(<<x>>, b) => a < b
      BY <1>3, One
    <2>2. <<x>> \in Seq(AllItems) /\ Increasing(<<x>>) /\ \A y : Holds(<<x>>, y) <=> y = x
      BY One
    <2>3. Append(w, x) = w \o <<x>>
      BY <1>3, AppendIsConcat
    <2> HIDE DEF w
    <2>4. w \o <<x>> \in Seq(AllItems)
      BY <1>3, <2>2
    <2>5. Increasing(w \o <<x>>)
      BY <1>3, <2>1, <2>2, IncreasingConcat
    <2>6. \A y : Holds(w \o <<x>>, y) <=> Holds(w, y) \/ Holds(<<x>>, y)
      BY <1>3, <2>2, HoldsConcat
    <2> QED
      BY <2>2, <2>3, <2>4, <2>5, <2>6
  <1> HIDE DEF t, w, v
  <1>6. CASE x \in skipped
    <2>1. \A y : Holds(v, y) <=> Holds(w, y)
      BY <1>2, <1>3, <1>4, <1>6
    <2>2. v = w
      BY <1>3, <1>4, <2>1, SameItems
    <2> QED
      BY <1>1, <1>2, <1>6, <2>2 DEF v, w
  <1>7. CASE x \notin skipped
    <2>1. \A y : Holds(v, y) <=> Holds(w \o <<x>>, y)
      BY <1>2, <1>3, <1>4, <1>5, <1>7
    <2>2. v = w \o <<x>>
      BY <1>4, <1>5, <2>1, SameItems
    <2> QED
      BY <1>1, <1>2, <1>5, <1>7, <2>2 DEF v, w
  <1> QED
    BY <1>6, <1>7

\* Skipping an entry that is not there changes nothing.
LEMMA WithoutOther ==
    ASSUME NEW s \in Seq(AllItems), NEW x, NEW skipped, Increasing(s), ~Holds(s, x)
    PROVE  Without(s, skipped \cup {x}) = Without(s, skipped)
  <1> DEFINE v == Without(s, skipped \cup {x})
             w == Without(s, skipped)
  <1>1. /\ w \in Seq(AllItems) /\ Increasing(w)
        /\ \A y : Holds(w, y) <=> Holds(s, y) /\ y \notin skipped
    BY WithoutIs
  <1>2. /\ v \in Seq(AllItems) /\ Increasing(v)
        /\ \A y : Holds(v, y) <=> Holds(s, y) /\ y \notin skipped \cup {x}
    BY WithoutIs
  <1>3. \A y : Holds(v, y) <=> Holds(w, y)
    BY <1>1, <1>2
  <1> HIDE DEF v, w
  <1> QED
    BY <1>1, <1>2, <1>3, SameItems DEF v, w

\* Skipping an entry takes it out of what is left.
LEMMA WithoutOne ==
    ASSUME NEW s \in Seq(AllItems), NEW skipped, Increasing(s),
           NEW l \in Seq(AllItems), NEW x \in AllItems, NEW r \in Seq(AllItems),
           l \o (<<x>> \o r) = Without(s, skipped)
    PROVE  l \o r = Without(s, skipped \cup {x}) /\ Holds(s, x)
  <1> DEFINE v == Without(s, skipped \cup {x})
             w == Without(s, skipped)
             m == <<x>> \o r
  <1>1. /\ w \in Seq(AllItems) /\ Increasing(w)
        /\ \A y : Holds(w, y) <=> Holds(s, y) /\ y \notin skipped
    BY WithoutIs
  <1>2. /\ v \in Seq(AllItems) /\ Increasing(v)
        /\ \A y : Holds(v, y) <=> Holds(s, y) /\ y \notin skipped \cup {x}
    BY WithoutIs
  <1>3. /\ m \in Seq(AllItems)
        /\ \A y : Holds(m, y) <=> Holds(r, y) \/ y = x
        /\ Increasing(m) <=> Increasing(r) /\ \A y : Holds(r, y) => x < y
    <2>1. Increasing(m) <=> /\ Increasing(<<x>>) /\ Increasing(r)
                            /\ \A a, y : Holds(<<x>>, a) /\ Holds(r, y) => a < y
      BY One, IncreasingConcat
    <2>2. \A y : Holds(m, y) <=> Holds(<<x>>, y) \/ Holds(r, y)
      BY One, HoldsConcat
    <2> HIDE DEF m
    <2>3. Increasing(<<x>>) /\ \A y : Holds(<<x>>, y) <=> y = x
      BY One
    <2>4. m \in Seq(AllItems)
      BY One DEF m
    <2> QED
      BY <2>1, <2>2, <2>3, <2>4
  <1> HIDE DEF m
  <1>4. l \o m = w
    BY DEF m
  <1>5. /\ Increasing(l) /\ Increasing(m) /\ \A a, b : Holds(l, a) /\ Holds(m, b) => a < b
        /\ \A y : Holds(w, y) <=> Holds(l, y) \/ Holds(m, y)
    <2>1. Increasing(w)
      BY <1>1
    <2> HIDE DEF w
    <2>2. Increasing(l \o m)
      BY <1>4, <2>1
    <2>3. m \in Seq(AllItems)
      BY <1>3
    <2>4. Increasing(l) /\ Increasing(m) /\ \A a, b : Holds(l, a) /\ Holds(m, b) => a < b
      BY <2>2, <2>3, IncreasingConcat
    <2>5. \A y : Holds(l \o m, y) <=> Holds(l, y) \/ Holds(m, y)
      BY <2>3, HoldsConcat
    <2> QED
      BY <1>4, <2>4, <2>5
  <1>6. /\ l \o r \in Seq(AllItems) /\ Increasing(l \o r)
        /\ \A y : Holds(l \o r, y) <=> Holds(l, y) \/ Holds(r, y)
    <2>1. Increasing(r) /\ \A a, b : Holds(l, a) /\ Holds(r, b) => a < b
      BY <1>3, <1>5
    <2> QED
      BY <1>5, <2>1, IncreasingConcat, HoldsConcat
  <1> HIDE DEF v, w
  <1>7. ~Holds(l, x) /\ ~Holds(r, x)
    <2>1. ~(x < x)
      BY ItemsAreNumbers
    <2> QED
      BY <1>3, <1>5, <2>1
  <1>8. \A y : Holds(l \o r, y) <=> Holds(v, y)
    BY <1>1, <1>2, <1>3, <1>5, <1>6, <1>7
  <1>9. l \o r = v
    BY <1>2, <1>6, <1>8, SameItems
  <1> QED
    BY <1>1, <1>3, <1>5, <1>9 DEF v

\* FlattenSeq, as a function of how many sequences have been joined.
FlatStep(ss, i, before) == IF i = 1 THEN ss[i] ELSE before \o ss[i]
IsFlat(ss, n, f) == f = [i \in 1..n |-> FlatStep(ss, i, f[i - 1])]

LEMMA Assoc ==
    ASSUME NEW S, NEW a \in Seq(S), NEW b \in Seq(S), NEW c \in Seq(S)
    PROVE  (a \o b) \o c = a \o (b \o c)
  BY ConcatAssociative

LEMMA FlatExists ==
    ASSUME NEW ss, NEW m \in Nat
    PROVE  \E f : IsFlat(ss, m, f)
  <1> DEFINE P == {n \in 0..m : \E f : IsFlat(ss, n, f)}
  <1>1. 0 \in P
    <2> DEFINE f == [i \in 1..0 |-> <<>>]
    <2>1. f = [i \in 1..0 |-> FlatStep(ss, i, f[i - 1])]
      OBVIOUS
    <2> HIDE DEF f
    <2>2. IsFlat(ss, 0, f)
      BY <2>1, Zenon DEF IsFlat
    <2> QED
      BY <2>2
  <1>2. ASSUME NEW n \in 0..m, n # m, n \in P PROVE n + 1 \in P
    <2>1. PICK f : IsFlat(ss, n, f)
      BY <1>2
    <2>2. \A i \in 1..n : f[i] = FlatStep(ss, i, f[i - 1])
      BY <2>1 DEF IsFlat
    <2> DEFINE last == FlatStep(ss, n + 1, f[n])
               g == [i \in 1..(n + 1) |-> IF i = n + 1 THEN last ELSE f[i]]
    <2>3. n \in Nat /\ n + 1 \in 0..m /\ n + 1 \in 1..(n + 1) /\ (n + 1) - 1 = n
      BY <1>2
    <2>4. ASSUME NEW i \in 1..(n + 1) PROVE g[i] = FlatStep(ss, i, g[i - 1])
      <3>1. CASE i = 1 /\ i = n + 1
        BY <3>1, <2>3 DEF FlatStep
      <3>2. CASE i = 1 /\ i # n + 1
        <4>1. i \in 1..n
          BY <2>3, <3>2
        <4> QED
          BY <2>2, <3>2, <4>1 DEF FlatStep
      <3>3. CASE i # 1 /\ i = n + 1
        <4>1. n \in 1..(n + 1) /\ n # n + 1
          BY <2>3, <3>3
        <4>2. g[i - 1] = f[n]
          BY <2>3, <3>3, <4>1
        <4> QED
          BY <3>3, <4>2
      <3>4. CASE i # 1 /\ i # n + 1
        <4>1. i \in 1..n /\ i - 1 \in 1..(n + 1) /\ i - 1 # n + 1
          BY <2>3, <3>4
        <4>2. g[i - 1] = f[i - 1] /\ g[i] = f[i]
          BY <3>4, <4>1
        <4> QED
          BY <2>2, <4>1, <4>2
      <3> QED
        BY <3>1, <3>2, <3>3, <3>4
    <2>5. g = [i \in 1..(n + 1) |-> FlatStep(ss, i, g[i - 1])]
      <3> DEFINE k == n + 1
                 e(i) == FlatStep(ss, i, g[i - 1])
      <3>1. \A i \in 1..k : g[i] = e(i)
        BY <2>4
      <3>2. g = [i \in 1..k |-> g[i]]
        OBVIOUS
      <3> HIDE DEF e, g, k
      <3>3. g = [i \in 1..k |-> e(i)]
        BY <3>1, <3>2
      <3> QED
        BY <3>3 DEF e, k
    <2> HIDE DEF g
    <2>6. IsFlat(ss, n + 1, g)
      BY <2>5 DEF IsFlat
    <2> QED
      BY <2>3, <2>6
  <1>3. 0..m \subseteq P
    <2> HIDE DEF P
    <2> QED
      BY <1>1, <1>2, UpTo
  <1>4. m \in P
    <2> HIDE DEF P
    <2> QED
      BY <1>3
  <1> QED
    BY <1>4

LEMMA FlatUnfold ==
    ASSUME NEW S, NEW ss \in Seq(Seq(S)), ss # <<>>
    PROVE  \E f : IsFlat(ss, Len(ss), f) /\ FlattenSeq(ss) = f[Len(ss)]
  <1>1. Len(ss) \in Nat /\ Len(ss) # 0
    OBVIOUS
  <1> DEFINE IsIt(f) == f = [i \in 1..Len(ss) |-> IF i = 1 THEN ss[i] ELSE f[i - 1] \o ss[i]]
  <1> DEFINE g == CHOOSE f : IsIt(f)
  <1>2. PICK f : IsFlat(ss, Len(ss), f)
    BY <1>1, FlatExists
  <1>3. IsIt(f)
    BY <1>2 DEF IsFlat, FlatStep
  <1>4. FlattenSeq(ss) = g[Len(ss)]
    BY <1>1 DEF FlattenSeq
  <1>5. IsIt(g)
    <2> HIDE DEF IsIt
    <2> QED
      BY <1>3
  <1>6. IsFlat(ss, Len(ss), g)
    <2> HIDE DEF g
    <2> QED
      BY <1>5 DEF IsFlat, FlatStep
  <1> QED
    <2> HIDE DEF g
    <2> QED
      BY <1>4, <1>6

LEMMA FlatIs ==
    ASSUME NEW S, NEW ss \in Seq(Seq(S))
    PROVE  /\ ss = <<>> => FlattenSeq(ss) = <<>>
           /\ FlattenSeq(ss) \in Seq(S)
  <1>1. CASE ss = <<>>
    BY <1>1 DEF FlattenSeq
  <1>2. CASE ss # <<>>
    <2>1. PICK f : IsFlat(ss, Len(ss), f) /\ FlattenSeq(ss) = f[Len(ss)]
      BY <1>2, FlatUnfold
    <2>2. \A i \in 1..Len(ss) : f[i] = FlatStep(ss, i, f[i - 1])
      BY <2>1 DEF IsFlat
    <2>3. Len(ss) \in Nat /\ Len(ss) # 0 /\ \A i \in 1..Len(ss) : ss[i] \in Seq(S)
      BY <1>2
    <2> DEFINE P == {n \in 0..Len(ss) : n = 0 \/ f[n] \in Seq(S)}
    <2>4. 0 \in P
      BY <2>3
    <2>5. ASSUME NEW n \in 0..Len(ss), n # Len(ss), n \in P PROVE n + 1 \in P
      <3>1. n \in Nat /\ n + 1 \in 1..Len(ss) /\ n + 1 \in 0..Len(ss) /\ (n + 1) - 1 = n
        BY <2>3, <2>5
      <3>2. f[n + 1] = FlatStep(ss, n + 1, f[n])
        BY <2>2, <3>1
      <3>3. f[n + 1] \in Seq(S)
        <4>1. CASE n = 0
          BY <2>3, <3>1, <3>2, <4>1 DEF FlatStep
        <4>2. CASE n # 0
          <5>1. f[n] \in Seq(S) /\ ss[n + 1] \in Seq(S) /\ n + 1 # 1
            BY <2>3, <2>5, <3>1, <4>2
          <5>2. f[n + 1] = f[n] \o ss[n + 1]
            BY <3>2, <5>1 DEF FlatStep
          <5> QED
            BY <5>1, <5>2
        <4> QED
          BY <4>1, <4>2
      <3> QED
        BY <3>1, <3>3
    <2>6. 0..Len(ss) \subseteq P
      <3> HIDE DEF P
      <3> QED
        BY <2>3, <2>4, <2>5, UpTo
    <2>7. Len(ss) \in P
      <3> HIDE DEF P
      <3> QED
        BY <2>3, <2>6
    <2> QED
      BY <1>2, <2>1, <2>3, <2>7
  <1> QED
    BY <1>1, <1>2

\* Two computations that join the same sequences agree.
LEMMA FlatAgree ==
    ASSUME NEW ss, NEW tt, NEW m \in Nat, NEW k \in Nat, m <= k,
           \A i \in 1..m : ss[i] = tt[i],
           NEW f, IsFlat(ss, m, f), NEW g, IsFlat(tt, k, g)
    PROVE  \A i \in 1..m : f[i] = g[i]
  <1>1. \A i \in 1..m : f[i] = FlatStep(ss, i, f[i - 1])
    BY DEF IsFlat
  <1>2. \A i \in 1..m : g[i] = FlatStep(tt, i, g[i - 1])
    BY DEF IsFlat
  <1> DEFINE P == {n \in 0..m : n = 0 \/ f[n] = g[n]}
  <1>3. 0 \in P
    OBVIOUS
  <1>4. ASSUME NEW n \in 0..m, n # m, n \in P PROVE n + 1 \in P
    <2>1. n \in Nat /\ n + 1 \in 1..m /\ n + 1 \in 0..m /\ (n + 1) - 1 = n
            /\ (n # 0 => n + 1 # 1)
      BY <1>4
    <2>2. f[n + 1] = FlatStep(ss, n + 1, f[n]) /\ g[n + 1] = FlatStep(tt, n + 1, g[n])
      BY <1>1, <1>2, <2>1
    <2>3. ss[n + 1] = tt[n + 1]
      BY <2>1
    <2>4. f[n + 1] = g[n + 1]
      BY <1>4, <2>1, <2>2, <2>3 DEF FlatStep
    <2> QED
      BY <2>1, <2>4
  <1>5. 0..m \subseteq P
    <2> HIDE DEF P
    <2> QED
      BY <1>3, <1>4, UpTo
  <1>6. \A i \in 1..m : i \in P /\ i # 0
    <2> HIDE DEF P
    <2> QED
      BY <1>5
  <1> QED
    BY <1>6

\* One sequence more at the end.
LEMMA FlatAppend ==
    ASSUME NEW S, NEW ss \in Seq(Seq(S)), NEW b \in Seq(S)
    PROVE  FlattenSeq(Append(ss, b)) = FlattenSeq(ss) \o b
  <1> DEFINE tt == Append(ss, b)
  <1>1. /\ tt \in Seq(Seq(S)) /\ tt # <<>> /\ Len(tt) = Len(ss) + 1 /\ Len(ss) \in Nat
        /\ tt[Len(ss) + 1] = b /\ \A i \in 1..Len(ss) : ss[i] = tt[i]
    <2> DEFINE T == Seq(S)
    <2> HIDE DEF T
    <2>1. ss \in Seq(T) /\ b \in T
      BY DEF T
    <2>2. tt \in Seq(T) /\ Len(tt) = Len(ss) + 1 /\ Len(ss) \in Nat /\ tt # <<>>
      BY <2>1
    <2>3. tt[Len(ss) + 1] = b /\ \A i \in 1..Len(ss) : ss[i] = tt[i]
      BY <2>1, AppendProperties
    <2> QED
      BY <2>2, <2>3 DEF T
  <1> HIDE DEF tt
  <1>2. PICK g : IsFlat(tt, Len(tt), g) /\ FlattenSeq(tt) = g[Len(tt)]
    BY <1>1, FlatUnfold
  <1>3. \A i \in 1..Len(tt) : g[i] = FlatStep(tt, i, g[i - 1])
    BY <1>2 DEF IsFlat
  <1>4. Len(ss) + 1 \in 1..Len(tt) /\ (Len(ss) + 1) - 1 = Len(ss)
    BY <1>1
  <1>5. g[Len(tt)] = FlatStep(tt, Len(ss) + 1, g[Len(ss)])
    BY <1>1, <1>3, <1>4
  <1>6. CASE ss = <<>>
    <2>1. FlattenSeq(ss) = <<>> /\ Len(ss) = 0
      BY <1>6, FlatIs
    <2>2. g[Len(tt)] = b
      BY <1>1, <1>5, <2>1 DEF FlatStep
    <2> QED
      BY <1>2, <2>1, <2>2 DEF tt
  <1>7. CASE ss # <<>>
    <2>1. PICK f : IsFlat(ss, Len(ss), f) /\ FlattenSeq(ss) = f[Len(ss)]
      BY <1>7, FlatUnfold
    <2>2. Len(ss) # 0 /\ Len(ss) + 1 # 1 /\ Len(ss) \in 1..Len(ss) /\ Len(ss) <= Len(tt)
            /\ Len(tt) \in Nat
      BY <1>1, <1>7
    <2>3. f[Len(ss)] = g[Len(ss)]
      <3>1. \A i \in 1..Len(ss) : f[i] = g[i]
        <4>1. Len(ss) \in Nat /\ Len(tt) \in Nat /\ Len(ss) <= Len(tt)
          BY <1>1, <2>2
        <4>2. \A i \in 1..Len(ss) : ss[i] = tt[i]
          BY <1>1
        <4>3. IsFlat(ss, Len(ss), f) /\ IsFlat(tt, Len(tt), g)
          BY <1>2, <2>1
        <4> DEFINE n == Len(ss)
                   k == Len(tt)
        <4>4. n \in Nat /\ k \in Nat /\ n <= k
          BY <4>1
        <4>5. \A i \in 1..n : ss[i] = tt[i]
          BY <4>2
        <4>6. IsFlat(ss, n, f) /\ IsFlat(tt, k, g)
          BY <4>3
        <4> HIDE DEF n, k
        <4>7. \A i \in 1..n : f[i] = g[i]
          BY <4>4, <4>5, <4>6, FlatAgree
        <4> QED
          BY <4>7 DEF n
      <3> QED
        BY <2>2, <3>1
    <2>4. g[Len(tt)] = g[Len(ss)] \o b
      BY <1>1, <1>5, <2>2 DEF FlatStep
    <2> QED
      BY <1>2, <2>1, <2>3, <2>4 DEF tt
  <1> QED
    BY <1>6, <1>7

\* The first sequence taken off.
LEMMA FlatHead ==
    ASSUME NEW S, NEW ss \in Seq(Seq(S)), ss # <<>>
    PROVE  FlattenSeq(ss) = Head(ss) \o FlattenSeq(Tail(ss))
  <1> DEFINE tt == Tail(ss)
             b == Head(ss)
  <1>1. /\ tt \in Seq(Seq(S)) /\ Len(ss) = Len(tt) + 1 /\ Len(tt) \in Nat
        /\ b = ss[1] /\ b \in Seq(S) /\ \A i \in 1..Len(tt) : tt[i] = ss[i + 1]
           /\ tt[i] \in Seq(S)
    <2> DEFINE T == Seq(S)
    <2> HIDE DEF T
    <2>1. ss \in Seq(T)
      BY DEF T
    <2>2. tt \in Seq(T) /\ Len(ss) = Len(tt) + 1 /\ Len(tt) \in Nat /\ b = ss[1] /\ b \in T
      BY <2>1
    <2>3. \A i \in 1..Len(tt) : tt[i] = ss[i + 1] /\ tt[i] \in T
      BY <2>1, HeadTailProperties
    <2> QED
      BY <2>2, <2>3 DEF T
  <1> HIDE DEF tt, b
  <1>2. PICK f : IsFlat(ss, Len(ss), f) /\ FlattenSeq(ss) = f[Len(ss)]
    BY <1>1, FlatUnfold
  <1>3. \A i \in 1..Len(ss) : f[i] = FlatStep(ss, i, f[i - 1])
    BY <1>2 DEF IsFlat
  <1>4. f[1] = b
    BY <1>1, <1>3 DEF FlatStep
  <1>5. CASE tt = <<>>
    <2>1. FlattenSeq(tt) = <<>>
      BY <1>1, <1>5, FlatIs
    <2>2. Len(tt) = 0
      BY <1>5
    <2>3. Len(ss) = 1
      BY <1>1, <2>2
    <2>4. FlattenSeq(ss) = b /\ b \in Seq(S)
      BY <1>1, <1>2, <1>4, <2>3
    <2>5. b \o <<>> = b
      BY <2>4
    <2> QED
      BY <2>1, <2>4, <2>5 DEF tt, b
  <1>6. CASE tt # <<>>
    <2>1. PICK g : IsFlat(tt, Len(tt), g) /\ FlattenSeq(tt) = g[Len(tt)]
      BY <1>1, <1>6, FlatUnfold
    <2>2. \A i \in 1..Len(tt) : g[i] = FlatStep(tt, i, g[i - 1])
      BY <2>1 DEF IsFlat
    <2> DEFINE P == {n \in 0..Len(tt) : n = 0 \/ (g[n] \in Seq(S) /\ f[n + 1] = b \o g[n])}
    <2>3. 0 \in P
      BY <1>1
    <2>4. ASSUME NEW n \in 0..Len(tt), n # Len(tt), n \in P PROVE n + 1 \in P
      <3>1. n \in Nat /\ n + 1 \in 1..Len(tt) /\ n + 1 \in 0..Len(tt) /\ (n + 1) - 1 = n
        BY <1>1, <2>4
      <3>2. (n + 1) + 1 \in 1..Len(ss) /\ ((n + 1) + 1) - 1 = n + 1 /\ (n + 1) + 1 # 1
        BY <1>1, <3>1
      <3>3. f[(n + 1) + 1] = f[n + 1] \o tt[n + 1]
        BY <1>1, <1>3, <3>1, <3>2 DEF FlatStep
      <3>4. g[n + 1] = FlatStep(tt, n + 1, g[n])
        BY <2>2, <3>1
      <3>5. CASE n = 0
        <4>1. g[n + 1] = tt[n + 1] /\ f[n + 1] = b
          BY <1>4, <3>4, <3>5 DEF FlatStep
        <4>2. tt[n + 1] \in Seq(S)
          BY <1>1, <3>1, Zenon
        <4> QED
          BY <3>1, <3>3, <4>1, <4>2
      <3>6. CASE n # 0
        <4>0. tt[n + 1] \in Seq(S)
          BY <1>1, <3>1, Zenon
        <4>1. n + 1 # 1 /\ g[n] \in Seq(S) /\ f[n + 1] = b \o g[n] /\ tt[n + 1] \in Seq(S)
          BY <2>4, <3>1, <3>6, <4>0
        <4>2. g[n + 1] = g[n] \o tt[n + 1]
          BY <3>4, <4>1 DEF FlatStep
        <4>3. (b \o g[n]) \o tt[n + 1] = b \o (g[n] \o tt[n + 1])
          <5> DEFINE c == g[n]
                     d == tt[n + 1]
          <5>1. b \in Seq(S) /\ c \in Seq(S) /\ d \in Seq(S)
            BY <1>1, <4>1
          <5> HIDE DEF c, d
          <5>2. (b \o c) \o d = b \o (c \o d)
            BY ONLY <5>1, Assoc
          <5> QED
            BY <5>2 DEF c, d
        <4>4. g[n + 1] \in Seq(S)
          BY <4>1, <4>2
        <4> QED
          BY <3>1, <3>3, <4>1, <4>2, <4>3, <4>4
      <3> QED
        BY <3>5, <3>6
    <2>5. 0..Len(tt) \subseteq P
      <3> HIDE DEF P
      <3> QED
        BY <1>1, <2>3, <2>4, UpTo
    <2>6. Len(tt) \in P
      <3> HIDE DEF P
      <3> QED
        BY <1>1, <2>5
    <2>7. Len(tt) # 0
      BY <1>1, <1>6
    <2> QED
      BY <1>1, <1>2, <2>1, <2>6, <2>7 DEF tt, b
  <1> QED
    BY <1>5, <1>6

\* Concatenation.
LEMMA Cat ==
    ASSUME NEW a \in Seq(AllItems), NEW b \in Seq(AllItems)
    PROVE  a \o b \in Seq(AllItems) /\ <<>> \o a = a /\ a \o <<>> = a /\ <<>> \in Seq(AllItems)
  OBVIOUS

LEMMA HeadOff ==
    ASSUME NEW a \in Seq(AllItems), a # <<>>
    PROVE  Head(a) \in AllItems /\ Tail(a) \in Seq(AllItems) /\ <<Head(a)>> \o Tail(a) = a
  <1>1. Head(a) \in AllItems /\ Tail(a) \in Seq(AllItems) /\ Len(a) \in Nat /\ Len(a) >= 1
        /\ Head(a) = a[1] /\ Len(Tail(a)) = Len(a) - 1
    OBVIOUS
  <1>2. \A i \in 1..Len(Tail(a)) : Tail(a)[i] = a[i + 1]
    OBVIOUS
  <1> DEFINE h == Head(a)
             t == Tail(a)
             c == <<h>> \o t
  <1>3. c \in Seq(AllItems) /\ Len(c) = 1 + Len(t) /\ c[1] = h
          /\ \A i \in 1..Len(t) : c[i + 1] = t[i]
    BY <1>1
  <1> HIDE DEF h, t, c
  <1>4. Len(c) = Len(a)
    BY <1>1, <1>3 DEF t
  <1>5. ASSUME NEW i \in 1..Len(c) PROVE c[i] = a[i]
    <2>1. CASE i = 1
      BY <1>1, <1>3, <2>1 DEF h
    <2>2. CASE i # 1
      <3>1. i - 1 \in 1..Len(t) /\ (i - 1) + 1 = i
        BY <1>1, <1>3, <2>2 DEF t
      <3>2. c[(i - 1) + 1] = t[i - 1] /\ t[i - 1] = a[(i - 1) + 1]
        BY <1>2, <1>3, <3>1 DEF t
      <3> QED
        BY <3>1, <3>2
    <2> QED
      BY <2>1, <2>2
  <1>6. c = a
    BY <1>3, <1>4, <1>5, SeqEqual
  <1> QED
    BY <1>1, <1>6 DEF c, h, t

LEMMA AppendCat ==
    ASSUME NEW a \in Seq(AllItems), NEW b \in Seq(AllItems), NEW x \in AllItems
    PROVE  /\ Append(a, x) = a \o <<x>> /\ Append(a, x) \in Seq(AllItems)
           /\ <<x>> \in Seq(AllItems)
           /\ a \o Append(b, x) = Append(a \o b, x)
           /\ Append(a, x) \o b = a \o (<<x>> \o b)
  <1>1. Append(a, x) = a \o <<x>> /\ Append(b, x) = b \o <<x>>
          /\ Append(a \o b, x) = (a \o b) \o <<x>>
    BY AppendIsConcat
  <1>2. <<x>> \in Seq(AllItems)
    OBVIOUS
  <1>3. (a \o b) \o <<x>> = a \o (b \o <<x>>) /\ (a \o <<x>>) \o b = a \o (<<x>> \o b)
    BY ONLY <1>2, a \in Seq(AllItems), b \in Seq(AllItems), Assoc
  <1> QED
    BY <1>1, <1>2, <1>3

\* An entry that is appended to a part is appended to the whole.
EndMoves(a, b, x) == a \o Append(b, x) = Append(a \o b, x)

LEMMA EndMoved ==
    ASSUME NEW a \in Seq(AllItems), NEW b \in Seq(AllItems), NEW x \in AllItems
    PROVE  EndMoves(a, b, x)
  BY AppendCat DEF EndMoves

\* The head of b becomes the end of a.
LEMMA MoveHead ==
    ASSUME NEW a \in Seq(AllItems), NEW b \in Seq(AllItems), b # <<>>
    PROVE  /\ Append(a, Head(b)) \o Tail(b) = a \o b
           /\ Append(a, Head(b)) \in Seq(AllItems) /\ Tail(b) \in Seq(AllItems)
  <1>1. Head(b) \in AllItems /\ Tail(b) \in Seq(AllItems) /\ <<Head(b)>> \o Tail(b) = b
    BY HeadOff
  <1> QED
    BY <1>1, AppendCat

\* Prefixes.
LEMMA PrefixIs ==
    ASSUME NEW a \in Seq(AllItems), NEW c \in Seq(AllItems)
    PROVE  IsPrefix(a, c) <=> Len(a) <= Len(c) /\ \A i \in 1..Len(a) : a[i] = c[i]
  <1>0. Len(a) \in Nat /\ Len(c) \in Nat
    OBVIOUS
  <1> SUFFICES ASSUME Len(a) <= Len(c)
               PROVE  SubSeq(a, 1, Len(a)) = SubSeq(c, 1,
                             Len(a)) <=> \A i \in 1..Len(a) : a[i] = c[i]
    BY DEF IsPrefix
  <1> DEFINE n == Len(a)
             p == SubSeq(a, 1, n)
             q == SubSeq(c, 1, n)
  <1>1. p \in Seq(AllItems) /\ q \in Seq(AllItems) /\ Len(p) = n /\ Len(q) = n
    BY <1>0
  <1>2. \A i \in 1..n : p[i] = a[i] /\ q[i] = c[i]
    BY <1>0
  <1> HIDE DEF p, q, n
  <1>3. (\A i \in 1..n : a[i] = c[i]) => p = q
    BY <1>1, <1>2, SeqEqual
  <1>4. p = q => \A i \in 1..n : a[i] = c[i]
    BY <1>2
  <1> QED
    BY <1>3, <1>4 DEF n, p, q

LEMMA PrefixConcat ==
    ASSUME NEW a \in Seq(AllItems), NEW b \in Seq(AllItems)
    PROVE  IsPrefix(a, a \o b)
  <1>1. a \o b \in Seq(AllItems) /\ Len(a) <= Len(a \o b)
          /\ \A i \in 1..Len(a) : a[i] = (a \o b)[i]
    OBVIOUS
  <1> QED
    BY <1>1, PrefixIs

LEMMA PrefixTransitive ==
    ASSUME NEW a \in Seq(AllItems), NEW b \in Seq(AllItems), NEW c \in Seq(AllItems),
           IsPrefix(a, b), IsPrefix(b, c)
    PROVE  IsPrefix(a, c)
  <1>1. Len(a) <= Len(b) /\ \A i \in 1..Len(a) : a[i] = b[i]
    BY PrefixIs
  <1>2. Len(b) <= Len(c) /\ \A i \in 1..Len(b) : b[i] = c[i]
    BY PrefixIs
  <1>3. Len(a) \in Nat /\ Len(b) \in Nat /\ Len(c) \in Nat
    OBVIOUS
  <1>4. \A i \in 1..Len(a) : i \in 1..Len(b)
    BY <1>1, <1>3
  <1>5. Len(a) <= Len(c) /\ \A i \in 1..Len(a) : a[i] = c[i]
    BY <1>1, <1>2, <1>3, <1>4
  <1> QED
    BY <1>5, PrefixIs

LEMMA PrefixAppend ==
    ASSUME NEW a \in Seq(AllItems), NEW c \in Seq(AllItems), NEW x \in AllItems, IsPrefix(a, c)
    PROVE  IsPrefix(a, Append(c, x))
  <1>1. Append(c, x) = c \o <<x>> /\ <<x>> \in Seq(AllItems) /\ Append(c, x) \in Seq(AllItems)
    BY AppendCat
  <1>2. IsPrefix(c, Append(c, x))
    BY <1>1, PrefixConcat
  <1> QED
    BY <1>1, <1>2, PrefixTransitive

\* The items of the input stream, in order.
Input(n) == [i \in 1..n |-> i]

LEMMA InputIs ==
    ASSUME NEW n \in 0..Items
    PROVE  /\ Input(n) \in Seq(AllItems) /\ Increasing(Input(n))
           /\ \A x : Holds(Input(n), x) <=> x \in 1..n
           /\ n < Items => Input(n + 1) = Append(Input(n), n + 1) /\ n + 1 \in AllItems
  <1>0. Items \in Nat /\ n \in Nat /\ 1..n \subseteq AllItems
    BY StreamAssumption DEF AllItems, Final
  <1>1. Input(n) \in Seq(AllItems) /\ Len(Input(n)) = n /\ \A i \in 1..n : Input(n)[i] = i
    BY <1>0 DEF Input
  <1>2. Increasing(Input(n))
    BY <1>1 DEF Increasing
  <1>3. \A x : Holds(Input(n), x) <=> x \in 1..n
    BY <1>1 DEF Holds
  <1>4. ASSUME n < Items PROVE Input(n + 1) = Append(Input(n), n + 1) /\ n + 1 \in AllItems
    <2> DEFINE a == Input(n)
               c == Append(Input(n), n + 1)
               d == Input(n + 1)
    <2>1. n + 1 \in AllItems /\ 1..(n + 1) \subseteq AllItems
      BY <1>0, <1>4, StreamAssumption DEF AllItems, Final
    <2>2. d \in Seq(AllItems) /\ Len(d) = n + 1 /\ \A i \in 1..(n + 1) : d[i] = i
      BY <1>0, <2>1 DEF Input
    <2>3. /\ c \in Seq(AllItems) /\ Len(c) = n + 1 /\ c[n + 1] = n + 1
          /\ \A i \in 1..n : c[i] = i
      <3> HIDE DEF a, c
      <3>1. a \in Seq(AllItems) /\ Len(a) = n /\ \A i \in 1..n : a[i] = i
        BY <1>1 DEF a
      <3>2. c = Append(a, n + 1)
        BY DEF a, c
      <3> QED
        BY <1>0, <2>1, <3>1, <3>2, AppendProperties
    <2>4. \A i \in 1..(n + 1) : c[i] = i
      <3>1. \A i \in 1..(n + 1) : i \in 1..n \/ i = n + 1
        BY <1>0
      <3> HIDE DEF c
      <3> QED
        BY <2>3, <3>1
    <2> HIDE DEF c, d
    <2>5. c = d
      BY <2>2, <2>3, <2>4, SeqEqual
    <2> QED
      BY <2>1, <2>5 DEF c, d
  <1> QED
    BY <1>1, <1>2, <1>3, <1>4

-----------------------------------------------------------------------------
(***************************************************************************)
(* What the tasks and the channels of a call can be: the control part of the *)
(* invariant behind ItemsConserved.                                        *)
(***************************************************************************)

\* Before the call nothing has begun.
NewInv == handler = "new" =>
    /\ drain = "idle" /\ writer = "idle" /\ forward = "idle" /\ wrap = "idle"
    /\ \A c \in Channels : txOpen[c] /\ rxOpen[c]

\* Which tasks a call has, and what a task holds in which of its states.
TaskInv ==
    /\ drain \in {"next", "send"} => HasInput
    /\ drain # "send" => dItem = NoItem
    /\ writer \in {"recv", "flush", "last"} => Batched
    /\ writer # "recv" => wBuf = <<>>
    /\ writer \notin {"flush", "last"} => wOut = <<>>
    /\ writer = "last" => SeesEnd(WriterFrom)
    /\ forward = "recv" => Mode = "reduce" /\ Batched
    /\ forward # "recv" => fBatch = <<>>
    /\ wrap \in {"recv", "send"} => HasOutput
    /\ wrap # "send" => xItem = NoItem
    /\ wrap \notin {"recv", "send"} => xBatch = <<>>
    /\ ~Batched => xBatch = <<>>
    /\ handler = "emit" => Mode = "expand"
    /\ handler = "completing" => Mode = "transform"
    /\ handler = "send" => HasOutput
    /\ handler = "recv" => HasInput

\* A channel whose receiver is gone, or which the call does not use, is empty.
RouteInv ==
    /\ \A c \in Channels : ~rxOpen[c] => chan[c] = <<>>
    /\ ~(Mode = "reduce" /\ Batched) => chan["mid"] = <<>>
    /\ ~Batched => chan["batch"] = <<>>
    /\ Mode = "reduce" => chan["out"] = <<>>

\* A sender is gone only when its task is; and a receiver is gone before its sender has
\* ended only when the stage behind it is gone as well.
EndInv ==
    /\ ~txOpen["mid"] => drain = "done"
    /\ ~txOpen["out"] => handler = "done"
    /\ ~txOpen["batch"] => writer = "done"
    /\ Mode = "reduce" /\ Batched /\ rxOpen["item"] =>
         /\ ~rxOpen["mid"] => drain = "done"
         /\ ~rxOpen["batch"] => writer = "done"
    /\ HasOutput /\ wrap # "done" => rxOpen["batch"]

ControlInv == NewInv /\ TaskInv /\ RouteInv /\ EndInv

\* The kinds of a call.
LEMMA Kinds ==
    ASSUME TypeOK
    PROVE  /\ Mode \in {"expand", "reduce", "transform"}
           /\ HasInput <=> Mode # "expand"
           /\ HasOutput <=> Mode # "reduce"
           /\ DrainTo = IF Mode = "reduce" /\ Batched THEN "mid" ELSE "item"
           /\ WriterFrom = IF Mode = "reduce" THEN "mid" ELSE "out"
           /\ WrapFrom = IF Batched THEN "batch" ELSE "out"
  <1>1. call \in Modes \X BOOLEAN \X BOOLEAN
    BY StreamAssumption DEF TypeOK, UserType
  <1>2. Mode \in {"expand", "reduce", "transform"}
    BY <1>1 DEF Modes, Mode
  <1> QED
    BY <1>2 DEF HasInput, HasOutput, DrainTo, WriterFrom, WrapFrom

LEMMA SameCall ==
    ASSUME UNCHANGED call
    PROVE  /\ Mode' = Mode /\ (Batched' <=> Batched)
           /\ (HasInput' <=> HasInput) /\ (HasOutput' <=> HasOutput)
           /\ DrainTo' = DrainTo /\ WriterFrom' = WriterFrom /\ WrapFrom' = WrapFrom
  BY DEF Mode, Batched, HasInput, HasOutput, DrainTo, WriterFrom, WrapFrom

LEMMA CallStays == [Next]_vars => UNCHANGED call
  <1>1. UserStep => UNCHANGED call
    BY DEF UserStep, Refused, Start, Cancel, InputHangs, CallerReads, CallerDrops, userVars
  <1>2. DrainStep \/ WriterStep \/ Tick => UNCHANGED call
    BY DEF DrainStep, DrainCancelled, DrainTakes, DrainSeesEnd, DrainSends, WriterStep,
       WriterPushes, WriterSeesEnd, CheckDeadline, WriterSends, Tick, userVars
  <1>3. ForwardStep \/ WrapStep => UNCHANGED call
    BY DEF ForwardStep, ForwardTakes, ForwardSends, ForwardSeesEnd, ForwardJoins, WrapStep,
       WrapTakes, WrapRejects, WrapSeesEnd, WrapSends, userVars
  <1>4. HandlerStep => UNCHANGED call
    BY DEF HandlerStep, NeverDispatched, Dispatch, HandlerEmits, ReduceRecv, ReduceSeesEnd,
       TransformRecv, TransformComplete, CompleteEmits, HandlerSends, HandlerReturns,
       HandlerPanics, HandlerCancelled, userVars
  <1>5. UNCHANGED vars => UNCHANGED call
    BY DEF vars, userVars
  <1> QED
    BY <1>1, <1>2, <1>3, <1>4, <1>5 DEF Next

\* What the operations do to the five channels.
LEMMA PutIs ==
    ASSUME ChanType, NEW c \in Channels, NEW v, Put(c, v)
    PROVE  /\ chan'[c] = Append(chan[c], v)
           /\ \A d \in Channels : d # c => chan'[d] = chan[d]
  BY DEF ChanType, Put

LEMMA TakeIs ==
    ASSUME ChanType, NEW c \in Channels, Take(c)
    PROVE  /\ chan'[c] = Tail(chan[c])
           /\ \A d \in Channels : d # c => chan'[d] = chan[d]
  BY DEF ChanType, Take

LEMMA DropIs ==
    ASSUME NEW tx, NEW rx, Drop(tx, rx)
    PROVE  \A d \in Channels :
             /\ txOpen'[d] <=> txOpen[d] /\ d \notin tx
             /\ rxOpen'[d] <=> rxOpen[d] /\ d \notin rx
             /\ chan'[d] = IF d \in rx THEN <<>> ELSE chan[d]
  BY DEF Drop

LEMMA ControlInit == Init => ControlInv
  BY DEF Init, ControlInv, NewInv, TaskInv, RouteInv, EndInv, Channels, NoItem

LEMMA ControlUser == TypeOK /\ ControlInv /\ UserStep => ControlInv'
  <1> SUFFICES ASSUME TypeOK, ControlInv, UserStep PROVE ControlInv'
    OBVIOUS
  <1>k. UNCHANGED call
    BY CallStays DEF Next
  <1> USE Kinds, SameCall, <1>k DEF ControlInv
  <1>t. ChanType
    BY DEF TypeOK
  <1>1. CASE Refused
    <2>1. \A d \in Channels : (rxOpen'[d] <=> rxOpen[d]) /\ chan'[d] = chan[d]
      BY <1>1, DropIs DEF Refused
    <2>2. NewInv' /\ TaskInv'
      BY <1>1 DEF Refused, NewInv, TaskInv
    <2>3. RouteInv'
      BY <1>1, <2>1 DEF Refused, RouteInv, Channels
    <2>4. EndInv'
      BY <1>1, <2>1 DEF Refused, EndInv, NewInv, Channels
    <2> QED
      BY <2>2, <2>3, <2>4
  <1>2. CASE Start
    <2>2. NewInv' /\ TaskInv'
      BY <1>2 DEF Start, NewInv, TaskInv, chanVars, SeesEnd
    <2>3. RouteInv'
      BY <1>2 DEF Start, RouteInv, Channels, chanVars
    <2>4. EndInv'
      BY <1>2 DEF Start, EndInv, NewInv, Channels, chanVars
    <2> QED
      BY <2>2, <2>3, <2>4
  <1>3. CASE Cancel \/ InputHangs
    BY <1>3 DEF Cancel, InputHangs, NewInv, TaskInv, RouteInv, EndInv, SeesEnd, Channels,
       chanVars, drainVars, writerVars, forwardVars, wrapVars, handlerVars
  <1>5. CASE CallerReads
    <2>1. chan["caller"] # <<>> /\ rxOpen["caller"]
            /\ \A d \in Channels : d # "caller" => chan'[d] = chan[d]
      BY <1>5, <1>t, TakeIs DEF CallerReads, Channels, CanRecv
    <2>2. NewInv' /\ TaskInv'
      BY <1>5, <2>1 DEF CallerReads, NewInv, TaskInv, SeesEnd, Channels, Ends, drainVars,
         writerVars, forwardVars, wrapVars, handlerVars
    <2>3. RouteInv'
      BY <1>5, <2>1 DEF CallerReads, RouteInv, Channels, Ends
    <2>4. EndInv'
      BY <1>5, <2>1 DEF CallerReads, EndInv, Channels, Ends, drainVars, writerVars,
         forwardVars, wrapVars, handlerVars
    <2> QED
      BY <2>2, <2>3, <2>4
  <1>6. CASE CallerDrops
    <2>1. \A d \in Channels : /\ txOpen'[d] <=> txOpen[d]
                              /\ rxOpen'[d] <=> rxOpen[d] /\ d # "caller"
                              /\ chan'[d] = IF d = "caller" THEN <<>> ELSE chan[d]
      BY <1>6, DropIs DEF CallerDrops
    <2>2. NewInv' /\ TaskInv'
      BY <1>6, <2>1 DEF CallerDrops, NewInv, TaskInv, SeesEnd, Channels, drainVars,
         writerVars, forwardVars, wrapVars, handlerVars
    <2>3. RouteInv'
      BY <1>6, <2>1 DEF CallerDrops, RouteInv, Channels
    <2>4. EndInv'
      BY <1>6, <2>1 DEF CallerDrops, EndInv, Channels, drainVars, writerVars, forwardVars,
         wrapVars, handlerVars
    <2> QED
      BY <2>2, <2>3, <2>4
  <1> QED
    BY <1>1, <1>2, <1>3, <1>5, <1>6 DEF UserStep

LEMMA ControlDrain == TypeOK /\ ControlInv /\ DrainStep => ControlInv'
  <1> SUFFICES ASSUME TypeOK, ControlInv, DrainStep PROVE ControlInv'
    OBVIOUS
  <1>k. UNCHANGED call
    BY CallStays DEF Next
  <1> USE Kinds, SameCall, <1>k DEF ControlInv
  <1>t. ChanType
    BY DEF TypeOK
  <1>u. /\ UNCHANGED <<writerVars, forwardVars, wrapVars, handlerVars>>
        /\ drain \in {"next", "send"}
    BY DEF DrainStep, DrainCancelled, DrainTakes, DrainSeesEnd, DrainSends
  <1>n. handler' # "new" /\ HasInput
    BY <1>u DEF NewInv, TaskInv, handlerVars
  <1>1. ASSUME NEW why, DrainEnds(why) PROVE ControlInv'
    <2>1. \A d \in Channels : /\ txOpen'[d] <=> txOpen[d] /\ d # DrainTo
                              /\ (rxOpen'[d] <=> rxOpen[d]) /\ chan'[d] = chan[d]
      BY <1>1, DropIs DEF DrainEnds
    <2>2. drain' = "done" /\ dItem' = NoItem
      BY <1>1 DEF DrainEnds
    <2>3. NewInv' /\ TaskInv'
      BY <1>n, <1>u, <2>1, <2>2 DEF NewInv, TaskInv, SeesEnd, Channels, writerVars,
         forwardVars, wrapVars, handlerVars
    <2>4. RouteInv'
      BY <2>1 DEF RouteInv, Channels
    <2>5. EndInv'
      BY <1>u, <2>1, <2>2 DEF EndInv, Channels, writerVars, forwardVars, wrapVars, handlerVars
    <2> QED
      BY <2>3, <2>4, <2>5
  <1>2. ASSUME UNCHANGED chanVars, drain' \in {"next", "send"},
               drain' = "next" => dItem' = NoItem
        PROVE  ControlInv'
    <2>3. NewInv' /\ TaskInv'
      BY <1>n, <1>u, <1>2 DEF NewInv, TaskInv, SeesEnd, chanVars, writerVars, forwardVars,
         wrapVars, handlerVars
    <2>4. RouteInv'
      BY <1>2 DEF RouteInv, Channels, chanVars
    <2>5. EndInv'
      BY <1>u, <1>2 DEF EndInv, Channels, chanVars, writerVars, forwardVars, wrapVars,
         handlerVars
    <2> QED
      BY <2>3, <2>4, <2>5
  <1>3. ASSUME CanSend(DrainTo), Put(DrainTo, dItem), Ends, drain' = "next", dItem' = NoItem
        PROVE  ControlInv'
    <2>1. DrainTo \in Channels /\ rxOpen[DrainTo]
            /\ \A d \in Channels : d # DrainTo => chan'[d] = chan[d]
      BY <1>3, <1>t, PutIs, Ways DEF CanSend
    <2>2. txOpen' = txOpen /\ rxOpen' = rxOpen
      BY <1>3 DEF Ends
    <2>3. NewInv' /\ TaskInv'
      <3>1. writer = "last" => chan'[WriterFrom] = chan[WriterFrom]
        BY <1>u, <2>1 DEF TaskInv, SeesEnd, EndInv, Channels
      <3> QED
        BY <1>n, <1>u, <1>3, <2>2, <3>1 DEF NewInv, TaskInv, SeesEnd, writerVars, forwardVars,
           wrapVars, handlerVars
    <2>4. RouteInv'
      BY <1>n, <2>1, <2>2 DEF RouteInv, Channels
    <2>5. EndInv'
      BY <1>u, <1>3, <2>1, <2>2 DEF EndInv, Channels, writerVars, forwardVars, wrapVars,
         handlerVars
    <2> QED
      BY <2>3, <2>4, <2>5
  <1>4. CASE DrainTakes
    BY <1>1, <1>2, <1>4 DEF DrainTakes, TaskInv
  <1> QED
    BY <1>1, <1>3, <1>4 DEF DrainStep, DrainCancelled, DrainSeesEnd, DrainSends

LEMMA ControlWriter == TypeOK /\ ControlInv /\ (WriterStep \/ Tick) => ControlInv'
  <1> SUFFICES ASSUME TypeOK, ControlInv, WriterStep \/ Tick PROVE ControlInv'
    OBVIOUS
  <1>k. UNCHANGED call
    BY CallStays DEF Next
  <1> USE Kinds, SameCall, <1>k DEF ControlInv
  <1>t. ChanType
    BY DEF TypeOK
  <1>u. /\ UNCHANGED <<drainVars, forwardVars, wrapVars, handlerVars>>
        /\ writer \in {"recv", "flush", "last"}
    BY DEF WriterStep, WriterPushes, WriterSeesEnd, CheckDeadline, WriterSends, Tick
  <1>n. handler' # "new" /\ Batched /\ handler # "new"
    BY <1>u DEF NewInv, TaskInv, handlerVars
  <1>w. WriterFrom \in {"mid", "out"} /\ WriterFrom \in Channels /\ "batch" \in Channels
    BY Ways
  \* The channels as they are.
  <1>1. ASSUME UNCHANGED chanVars,
               \/ writer' = writer /\ wOut' = wOut /\ writer = "recv"
               \/ writer' = "flush" /\ wBuf' = <<>>
               \/ writer' = "last" /\ wBuf' = <<>> /\ SeesEnd(WriterFrom)
        PROVE  ControlInv'
    <2>1. NewInv' /\ TaskInv'
      BY <1>n, <1>u, <1>1 DEF NewInv, TaskInv, SeesEnd, chanVars, drainVars, forwardVars,
         wrapVars, handlerVars
    <2>2. RouteInv'
      BY <1>1 DEF RouteInv, Channels, chanVars
    <2>3. EndInv'
      BY <1>u, <1>1 DEF EndInv, Channels, chanVars, drainVars, forwardVars, wrapVars,
         handlerVars
    <2> QED
      BY <2>1, <2>2, <2>3
  \* The task ends.
  <1>2. ASSUME writer' = "done", wOut' = <<>>, wBuf' = <<>>,
               SeesEnd(WriterFrom) \/ ~rxOpen["batch"],
               \A d \in Channels : /\ txOpen'[d] <=> txOpen[d] /\ d # "batch"
                                   /\ rxOpen'[d] <=> rxOpen[d] /\ d # WriterFrom
                                   /\ d # "batch" => chan'[d] = IF d = WriterFrom THEN <<>> ELSE chan[d],
               ~rxOpen["batch"] => chan'["batch"] = chan["batch"]
        PROVE  ControlInv'
    <2>1. NewInv' /\ TaskInv'
      BY <1>n, <1>u, <1>2 DEF NewInv, TaskInv, drainVars, forwardVars, wrapVars, handlerVars
    <2>2. RouteInv'
      BY <1>n, <1>w, <1>2 DEF RouteInv, Channels
    <2>3. EndInv'
      BY <1>n, <1>u, <1>w, <1>2 DEF EndInv, SeesEnd, Channels, drainVars, forwardVars,
         wrapVars, handlerVars
    <2> QED
      BY <2>1, <2>2, <2>3
  <1>3. CASE WriterPushes
    <2>1. /\ \A d \in Channels : d # WriterFrom => chan'[d] = chan[d]
          /\ txOpen' = txOpen /\ rxOpen' = rxOpen /\ chan[WriterFrom] # <<>>
      BY <1>3, <1>t, <1>w, TakeIs DEF WriterPushes, Ends, CanRecv
    <2>2. \/ writer' = writer /\ wOut' = wOut /\ writer = "recv"
          \/ writer' = "flush" /\ wBuf' = <<>>
      BY <1>3 DEF WriterPushes, Flush
    <2>3. NewInv' /\ TaskInv'
      BY <1>n, <1>u, <2>1, <2>2 DEF NewInv, TaskInv, drainVars, forwardVars, wrapVars,
         handlerVars
    <2>4. RouteInv'
      BY <1>n, <1>w, <2>1 DEF RouteInv, Channels
    <2>5. EndInv'
      BY <1>u, <2>1, <2>2 DEF EndInv, Channels, drainVars, forwardVars, wrapVars, handlerVars
    <2> QED
      BY <2>3, <2>4, <2>5
  <1>4. CASE WriterSeesEnd
    <2>1. CASE wBuf # <<>>
      BY <1>1, <1>4, <2>1 DEF WriterSeesEnd, Flush
    <2>2. CASE wBuf = <<>>
      <3>1. /\ writer' = "done" /\ wOut' = wOut /\ wBuf' = wBuf /\ SeesEnd(WriterFrom)
            /\ Drop({"batch"}, {WriterFrom}) /\ writer = "recv"
        BY <1>4, <2>2 DEF WriterSeesEnd, WriterEnds
      <3>2. wOut = <<>>
        BY <3>1 DEF TaskInv
      <3> QED
        BY <1>2, <1>w, <2>2, <3>1, <3>2, DropIs
    <2> QED
      BY <2>1, <2>2
  <1>5. CASE CheckDeadline
    BY <1>1, <1>5 DEF CheckDeadline, Flush
  <1>6. CASE WriterSends
    <2>0. wBuf = <<>> /\ wBuf' = <<>>
      BY <1>6 DEF WriterSends, TaskInv
    <2>1. CASE SendFails("batch") /\ WriterEnds /\ writer' = "done" /\ wOut' = <<>>
      <3>1. ~rxOpen["batch"] /\ Drop({"batch"}, {WriterFrom})
        BY <2>1 DEF SendFails, WriterEnds
      <3> QED
        BY <1>2, <1>w, <2>0, <2>1, <3>1, DropIs
    <2>2. CASE /\ CanSend("batch") /\ wOut' = <<>> /\ writer = "flush"
               /\ Put("batch", wOut) /\ Ends /\ writer' = "recv"
      <3>1. /\ \A d \in Channels : d # "batch" => chan'[d] = chan[d]
            /\ txOpen' = txOpen /\ rxOpen' = rxOpen /\ rxOpen["batch"]
        BY <1>t, <2>2, <1>w, PutIs DEF Ends, CanSend
      <3>3. NewInv' /\ TaskInv'
        BY <1>n, <1>u, <2>2, <3>1 DEF NewInv, TaskInv, drainVars, forwardVars, wrapVars,
           handlerVars
      <3>4. RouteInv'
        BY <1>n, <3>1 DEF RouteInv, Channels
      <3>5. EndInv'
        BY <1>u, <2>2, <3>1 DEF EndInv, Channels, drainVars, forwardVars, wrapVars, handlerVars
      <3> QED
        BY <3>3, <3>4, <3>5
    <2>3. CASE /\ CanSend("batch") /\ wOut' = <<>> /\ writer = "last" /\ writer' = "done"
               /\ txOpen' = [txOpen EXCEPT !["batch"] = FALSE]
               /\ rxOpen' = [rxOpen EXCEPT ![WriterFrom] = FALSE]
               /\ Put("batch", wOut)
      <3>1. SeesEnd(WriterFrom) /\ rxOpen["batch"]
        BY <2>3 DEF TaskInv, CanSend
      <3>2. \A d \in Channels : d # "batch" => chan'[d] = chan[d]
        BY <1>t, <1>w, <2>3, PutIs
      <3>3. chan[WriterFrom] = <<>>
        BY <3>1 DEF SeesEnd
      <3>4. \A d \in Channels : (txOpen'[d] <=> txOpen[d] /\ d # "batch")
              /\ (rxOpen'[d] <=> rxOpen[d] /\ d # WriterFrom)
        BY <1>t, <2>3 DEF ChanType
      <3>5. \A d \in Channels : /\ txOpen'[d] <=> txOpen[d] /\ d # "batch"
                                /\ rxOpen'[d] <=> rxOpen[d] /\ d # WriterFrom
                                /\ d # "batch" => chan'[d] = IF d = WriterFrom THEN <<>> ELSE chan[d]
        BY <3>2, <3>3, <3>4
      <3> QED
        BY <1>2, <2>0, <2>3, <3>1, <3>5
    <2> QED
      BY <1>6, <2>1, <2>2, <2>3 DEF WriterSends
  <1>7. CASE Tick
    BY <1>1, <1>7 DEF Tick
  <1> QED
    BY <1>3, <1>4, <1>5, <1>6, <1>7 DEF WriterStep

LEMMA ControlForward == TypeOK /\ ControlInv /\ ForwardStep => ControlInv'
  <1> SUFFICES ASSUME TypeOK, ControlInv, ForwardStep PROVE ControlInv'
    OBVIOUS
  <1>k. UNCHANGED call
    BY CallStays DEF Next
  <1> USE Kinds, SameCall, <1>k DEF ControlInv
  <1>t. ChanType
    BY DEF TypeOK
  <1>u. /\ UNCHANGED <<drainVars, writerVars, wrapVars, handlerVars>>
        /\ forward \in {"recv", "join"}
    BY DEF ForwardStep, ForwardTakes, ForwardSends, ForwardSeesEnd, ForwardJoins
  <1>n. handler' # "new" /\ handler # "new"
    BY <1>u DEF NewInv, handlerVars
  <1>1. ASSUME ForwardStops, forward = "recv", ~rxOpen["item"] \/ SeesEnd("batch")
        PROVE  ControlInv'
    <2>1. \A d \in Channels : /\ txOpen'[d] <=> txOpen[d] /\ d # "item"
                              /\ rxOpen'[d] <=> rxOpen[d] /\ d # "batch"
                              /\ chan'[d] = IF d = "batch" THEN <<>> ELSE chan[d]
      BY <1>1, DropIs DEF ForwardStops
    <2>2. forward' = "join" /\ fBatch' = <<>> /\ Mode = "reduce" /\ Batched
      BY <1>1 DEF ForwardStops, TaskInv
    <2>3. NewInv' /\ TaskInv'
      BY <1>n, <1>u, <2>1, <2>2 DEF NewInv, TaskInv, SeesEnd, Channels, drainVars, writerVars,
         wrapVars, handlerVars
    <2>4. RouteInv'
      BY <2>1 DEF RouteInv, Channels
    <2>5. EndInv'
      BY <1>1, <1>u, <2>1, <2>2 DEF EndInv, SeesEnd, Channels, drainVars, writerVars,
         wrapVars, handlerVars
    <2> QED
      BY <2>3, <2>4, <2>5
  <1>2. CASE ForwardTakes
    <2>1. /\ \A d \in Channels : d # "batch" => chan'[d] = chan[d]
          /\ txOpen' = txOpen /\ rxOpen' = rxOpen /\ chan["batch"] # <<>>
             /\ forward = "recv" /\ forward' = forward
      BY <1>2, <1>t, TakeIs DEF ForwardTakes, Ends, CanRecv, Channels
    <2>3. NewInv' /\ TaskInv'
      BY <1>n, <1>u, <2>1 DEF NewInv, TaskInv, SeesEnd, Channels, drainVars, writerVars,
         wrapVars, handlerVars
    <2>4. RouteInv'
      BY <2>1 DEF RouteInv, Channels
    <2>5. EndInv'
      BY <1>u, <2>1 DEF EndInv, Channels, drainVars, writerVars, wrapVars, handlerVars
    <2> QED
      BY <2>3, <2>4, <2>5
  <1>3. CASE ForwardSends
    <2>1. CASE SendFails("item") /\ ForwardStops
      BY <1>1, <1>3, <2>1 DEF ForwardSends, SendFails
    <2>2. CASE CanSend("item") /\ Put("item", Head(fBatch)) /\ Ends /\ UNCHANGED forward
      <3>1. /\ \A d \in Channels : d # "item" => chan'[d] = chan[d]
            /\ txOpen' = txOpen /\ rxOpen' = rxOpen /\ rxOpen["item"] /\ forward = "recv"
               /\ forward' = forward
        BY <1>3, <1>t, <2>2, PutIs DEF ForwardSends, Ends, CanSend, Channels
      <3>3. NewInv' /\ TaskInv'
        BY <1>n, <1>u, <3>1 DEF NewInv, TaskInv, SeesEnd, Channels, drainVars, writerVars,
           wrapVars, handlerVars
      <3>4. RouteInv'
        BY <3>1 DEF RouteInv, Channels
      <3>5. EndInv'
        BY <1>u, <3>1 DEF EndInv, Channels, drainVars, writerVars, wrapVars, handlerVars
      <3> QED
        BY <3>3, <3>4, <3>5
    <2> QED
      BY <1>3, <2>1, <2>2 DEF ForwardSends
  <1>4. CASE ForwardSeesEnd
    BY <1>1, <1>4 DEF ForwardSeesEnd
  <1>5. CASE ForwardJoins
    <2>3. NewInv' /\ TaskInv'
      BY <1>n, <1>u, <1>5 DEF ForwardJoins, NewInv, TaskInv, SeesEnd, chanVars, drainVars,
         writerVars, wrapVars, handlerVars
    <2>4. RouteInv'
      BY <1>5 DEF ForwardJoins, RouteInv, Channels, chanVars
    <2>5. EndInv'
      BY <1>5, <1>u DEF ForwardJoins, EndInv, chanVars, drainVars, writerVars, wrapVars,
         handlerVars
    <2> QED
      BY <2>3, <2>4, <2>5
  <1> QED
    BY <1>2, <1>3, <1>4, <1>5 DEF ForwardStep

LEMMA ControlWrap == TypeOK /\ ControlInv /\ WrapStep => ControlInv'
  <1> SUFFICES ASSUME TypeOK, ControlInv, WrapStep PROVE ControlInv'
    OBVIOUS
  <1>k. UNCHANGED call
    BY CallStays DEF Next
  <1> USE Kinds, SameCall, <1>k DEF ControlInv
  <1>t. ChanType
    BY DEF TypeOK
  <1>u. /\ UNCHANGED <<drainVars, writerVars, forwardVars, handlerVars>>
        /\ wrap \in {"recv", "send"}
    BY DEF WrapStep, WrapTakes, WrapRejects, WrapSeesEnd, WrapSends
  <1>n. handler' # "new" /\ handler # "new" /\ HasOutput
    BY <1>u DEF NewInv, TaskInv, handlerVars
  <1>w. WrapFrom \in {"batch", "out"} /\ WrapFrom \in Channels
    BY DEF Channels
  <1>1. ASSUME WrapEnds PROVE ControlInv'
    <2>1. \A d \in Channels : /\ txOpen'[d] <=> txOpen[d] /\ d # "caller"
                              /\ rxOpen'[d] <=> rxOpen[d] /\ d # WrapFrom
                              /\ chan'[d] = IF d = WrapFrom THEN <<>> ELSE chan[d]
      BY <1>1, DropIs DEF WrapEnds
    <2>2. wrap' = "done" /\ xItem' = NoItem /\ xBatch' = <<>>
      BY <1>1 DEF WrapEnds
    <2>3. NewInv' /\ TaskInv'
      BY <1>n, <1>u, <1>w, <2>1, <2>2 DEF NewInv, TaskInv, SeesEnd, Channels, drainVars,
         writerVars, forwardVars, handlerVars
    <2>4. RouteInv'
      BY <1>w, <2>1 DEF RouteInv, Channels
    <2>5. EndInv'
      BY <1>n, <1>u, <2>1, <2>2 DEF EndInv, Channels, drainVars, writerVars, forwardVars,
         handlerVars
    <2> QED
      BY <2>3, <2>4, <2>5
  \* The task goes on, and takes from its channel or not.
  <1>2. ASSUME wrap' \in {"recv", "send"}, wrap' = "recv" => xItem' = NoItem,
               ~Batched => xBatch' = <<>>,
               txOpen' = txOpen, rxOpen' = rxOpen, NEW c \in {WrapFrom, "caller"},
               rxOpen[c],
               \A d \in Channels : d # c => chan'[d] = chan[d],
               chan[c] = <<>> => chan'[c] = <<>> \/ c = "caller"
        PROVE  ControlInv'
    <2>3. NewInv' /\ TaskInv'
      BY <1>n, <1>u, <1>w, <1>2 DEF NewInv, TaskInv, SeesEnd, Channels, drainVars, writerVars,
         forwardVars, handlerVars
    <2>4. RouteInv'
      BY <1>n, <1>w, <1>2 DEF RouteInv, Channels
    <2>5. EndInv'
      BY <1>n, <1>u, <1>2 DEF EndInv, Channels, drainVars, writerVars, forwardVars, handlerVars
    <2> QED
      BY <2>3, <2>4, <2>5
  <1>3. CASE WrapTakes
    <2>0. wrap = "recv" /\ xItem = NoItem
      BY <1>3 DEF WrapTakes, TaskInv
    <2>1. ASSUME NEW item, NEW rest, Intercept(item, rest)
          PROVE  wrap' \in {"recv", "send"} /\ (wrap' = "recv" => xItem' = NoItem)
            /\ xBatch' = rest
      BY <2>0, <2>1 DEF Intercept
    <2>2. CASE xBatch # <<>> /\ Intercept(Head(xBatch), Tail(xBatch)) /\ UNCHANGED chanVars
      <3>1. Batched
        BY <2>2 DEF TaskInv
      <3>2. wrap' \in {"recv", "send"} /\ (wrap' = "recv" => xItem' = NoItem)
        BY <2>1, <2>2
      <3>3. txOpen' = txOpen /\ rxOpen' = rxOpen /\ chan' = chan
        BY <2>2 DEF chanVars
      <3>4. NewInv' /\ TaskInv'
        BY <1>n, <1>u, <3>1, <3>2, <3>3 DEF NewInv, TaskInv, SeesEnd, drainVars, writerVars,
           forwardVars, handlerVars
      <3>5. RouteInv'
        BY <3>3 DEF RouteInv, Channels
      <3>6. EndInv'
        BY <1>n, <1>u, <3>2, <3>3 DEF EndInv, Channels, drainVars, writerVars, forwardVars,
           handlerVars
      <3> QED
        BY <3>4, <3>5, <3>6
    <2>3. CASE /\ CanRecv(WrapFrom) /\ Take(WrapFrom) /\ Ends
               /\ IF Batched THEN Intercept(Head(Head(chan[WrapFrom])),
                             Tail(Head(chan[WrapFrom])))
                  ELSE Intercept(Head(chan[WrapFrom]), <<>>)
      <3>1. wrap' \in {"recv", "send"} /\ (wrap' = "recv" => xItem' = NoItem)
              /\ (~Batched => xBatch' = <<>>)
        BY <2>1, <2>3
      <3>2. /\ txOpen' = txOpen /\ rxOpen' = rxOpen /\ chan[WrapFrom] # <<>>
            /\ \A d \in Channels : d # WrapFrom => chan'[d] = chan[d]
        BY <1>t, <1>w, <2>3, TakeIs DEF Ends, CanRecv
      <3>3. rxOpen[WrapFrom]
        BY <1>w, <3>2 DEF RouteInv
      <3> QED
        BY <1>2, <3>1, <3>2, <3>3
    <2> QED
      BY <1>3, <2>2, <2>3 DEF WrapTakes
  <1>4. CASE WrapSends
    <2>1. CASE /\ CanSend("caller") /\ Put("caller", xItem) /\ Ends
               /\ wrap' = "recv" /\ xItem' = NoItem /\ UNCHANGED xBatch
      <3>1. /\ txOpen' = txOpen /\ rxOpen' = rxOpen /\ rxOpen["caller"]
            /\ \A d \in Channels : d # "caller" => chan'[d] = chan[d]
        BY <1>t, <2>1, PutIs DEF Ends, CanSend, Channels
      <3>2. ~Batched => xBatch' = <<>>
        BY <2>1 DEF TaskInv
      <3> QED
        BY <1>2, <2>1, <3>1, <3>2
    <2> QED
      BY <1>1, <1>4, <2>1 DEF WrapSends
  <1> QED
    BY <1>1, <1>3, <1>4 DEF WrapStep, WrapRejects, WrapSeesEnd

LEMMA ControlHandler == TypeOK /\ ControlInv /\ HandlerStep => ControlInv'
  <1> SUFFICES ASSUME TypeOK, ControlInv, HandlerStep PROVE ControlInv'
    OBVIOUS
  <1>k. UNCHANGED call
    BY CallStays DEF Next
  <1> USE Kinds, SameCall, <1>k DEF ControlInv
  <1>t. ChanType
    BY DEF TypeOK
  <1>u. UNCHANGED <<drainVars, writerVars, forwardVars, wrapVars>>
    BY DEF HandlerStep, NeverDispatched, Dispatch, HandlerEmits, ReduceRecv,
       ReduceSeesEnd, TransformRecv, TransformComplete, CompleteEmits, HandlerSends,
       HandlerReturns, HandlerPanics, HandlerCancelled
  <1>h. handler \in Handling \cup {"queued"}
    BY DEF HandlerStep, NeverDispatched, Dispatch, HandlerEmits, ReduceRecv,
       ReduceSeesEnd, TransformRecv, TransformComplete, CompleteEmits, HandlerSends,
       HandlerReturns, HandlerPanics, HandlerCancelled, Handling
  <1>n. handler # "done" /\ txOpen["out"]
    BY <1>h DEF Handling, EndInv
  <1>1. ASSUME NEW answer, DispatchGone(answer) PROVE ControlInv'
    <2>1. \A d \in Channels : /\ txOpen'[d] <=> txOpen[d] /\ d # "out"
                              /\ rxOpen'[d] <=> rxOpen[d] /\ d # "item"
                              /\ chan'[d] = IF d = "item" THEN <<>> ELSE chan[d]
      BY <1>1, DropIs DEF DispatchGone
    <2>2. handler' = "done"
      BY <1>1 DEF DispatchGone
    <2>3. NewInv' /\ TaskInv'
      BY <1>u, <2>1, <2>2 DEF NewInv, TaskInv, SeesEnd, Channels, drainVars, writerVars,
         forwardVars, wrapVars
    <2>4. RouteInv'
      BY <2>1 DEF RouteInv, Channels
    <2>5. EndInv'
      BY <1>u, <2>1, <2>2 DEF EndInv, Channels, drainVars, writerVars, forwardVars, wrapVars
    <2> QED
      BY <2>3, <2>4, <2>5
  \* The channels but for item, and the end of out if the handler sends there.
  <1>2. ASSUME txOpen' = txOpen, rxOpen' = rxOpen, NEW c \in {"item", "out"},
               rxOpen[c] \/ chan'[c] = chan[c],
               c = "out" => HasOutput,
               \A d \in Channels : d # c => chan'[d] = chan[d],
               \/ handler' = "emit" /\ Mode = "expand"
               \/ handler' = "completing" /\ Mode = "transform"
               \/ handler' = "send" /\ HasOutput
               \/ handler' = "recv" /\ HasInput
               \/ handler' = "ended"
        PROVE  ControlInv'
    <2>1. NewInv' /\ TaskInv'
      <3>1. writer = "last" => WriterFrom = "mid"
        BY <1>n DEF TaskInv, SeesEnd
      <3> QED
        BY <1>u, <1>2, <3>1 DEF NewInv, TaskInv, SeesEnd, Channels, drainVars, writerVars,
           forwardVars, wrapVars
    <2>2. RouteInv'
      BY <1>2 DEF RouteInv, Channels
    <2>3. EndInv'
      BY <1>n, <1>u, <1>2 DEF EndInv, Channels, drainVars, writerVars, forwardVars, wrapVars
    <2> QED
      BY <2>1, <2>2, <2>3
  <1>3. ASSUME UNCHANGED chanVars
        PROVE  txOpen' = txOpen /\ rxOpen' = rxOpen /\ chan' = chan
          /\ \A d \in Channels : chan'[d] = chan[d]
    BY <1>3 DEF chanVars
  <1>4. ASSUME Take("item"), Ends, CanRecv("item")
        PROVE  txOpen' = txOpen /\ rxOpen' = rxOpen /\ rxOpen["item"]
          /\ \A d \in Channels : d # "item" => chan'[d] = chan[d]
    BY <1>4, <1>t, TakeIs DEF Ends, CanRecv, Channels, RouteInv
  <1>5. CASE Dispatch
    <2>1. CASE cancelled
      BY <1>1, <1>5, <2>1 DEF Dispatch
    <2>2. CASE ~cancelled
      <3>1. handler' = (IF Mode = "expand" THEN "emit" ELSE "recv") /\ UNCHANGED chanVars
        BY <1>5, <2>2 DEF Dispatch
      <3> QED
        BY <1>2, <1>3, <3>1
    <2> QED
      BY <2>1, <2>2
  <1>6. CASE HandlerEmits
    BY <1>2, <1>3, <1>6 DEF HandlerEmits, TaskInv
  <1>7. CASE ReduceRecv
    BY <1>2, <1>4, <1>7 DEF ReduceRecv
  <1>8. CASE ReduceSeesEnd
    BY <1>2, <1>3, <1>8 DEF ReduceSeesEnd
  <1>9. CASE TransformRecv
    <2>1. CASE cancelled
      BY <1>1, <1>9, <2>1 DEF TransformRecv
    <2>2. CASE ~cancelled
      <3>1. /\ Take("item") /\ Ends /\ CanRecv("item") /\ Mode = "transform"
            /\ handler' = "send" \/ handler' = "recv"
        BY <1>9, <2>2 DEF TransformRecv
      <3> QED
        BY <1>2, <1>4, <3>1
    <2> QED
      BY <2>1, <2>2
  <1>10. CASE TransformComplete
    BY <1>2, <1>3, <1>10 DEF TransformComplete
  <1>11. CASE CompleteEmits
    BY <1>2, <1>3, <1>11 DEF CompleteEmits, TaskInv
  <1>12. CASE HandlerSends
    <2>0. handler = "send" /\ HasOutput
      BY <1>12 DEF HandlerSends, TaskInv
    <2>1. CASE CanSend("out") /\ Put("out", hItem) /\ Ends
               /\ handler' = CASE Mode = "expand" -> "emit"
                               [] hItem = Final   -> "ended"
                               [] OTHER           -> "recv"
      <3>1. /\ txOpen' = txOpen /\ rxOpen' = rxOpen /\ rxOpen["out"]
            /\ \A d \in Channels : d # "out" => chan'[d] = chan[d]
        BY <1>t, <2>1, PutIs DEF Ends, CanSend, Channels
      <3>2. \/ handler' = "emit" /\ Mode = "expand"
            \/ handler' = "recv" /\ HasInput
            \/ handler' = "ended"
        BY <2>1
      <3> QED
        BY <1>2, <2>0, <3>1, <3>2
    <2>2. CASE Mode = "transform" /\ handler' = "recv" /\ UNCHANGED chanVars
      BY <1>2, <1>3, <2>2
    <2>3. CASE DispatchGone("closed")
      BY <1>1, <2>3
    <2> QED
      BY <1>12, <2>1, <2>2, <2>3 DEF HandlerSends
  <1>13. CASE NeverDispatched \/ HandlerReturns \/ HandlerPanics \/ HandlerCancelled
    BY <1>1, <1>13 DEF NeverDispatched, HandlerReturns, HandlerPanics, HandlerCancelled
  <1> QED
    BY <1>5, <1>6, <1>7, <1>8, <1>9, <1>10, <1>11, <1>12, <1>13 DEF HandlerStep

LEMMA ControlNext == TypeOK /\ ControlInv /\ [Next]_vars => ControlInv'
  <1>1. ASSUME TypeOK, ControlInv, UNCHANGED vars PROVE ControlInv'
    <2>1. UNCHANGED call
      BY <1>1, CallStays
    <2> QED
      BY <1>1, <2>1, SameCall DEF vars, ControlInv, NewInv, TaskInv, RouteInv, EndInv, SeesEnd,
         chanVars, drainVars, writerVars, forwardVars, wrapVars, handlerVars
  <1> QED
    BY <1>1, ControlUser, ControlDrain, ControlWriter, ControlForward, ControlWrap,
       ControlHandler
    DEF Next

-----------------------------------------------------------------------------
(***************************************************************************)
(* Where the items are: the data part of the invariant.  ItemsConserved itself *)
(* is not inductive: it says nothing of what is skipped after the caller has *)
(* dropped its stream, nor in which order the handler numbers its items.   *)
(***************************************************************************)

\* What is under way to the handler, and what has passed the interceptors on the way.
Queued   == IF Mode = "reduce" THEN InBatches ELSE <<>>
InTail   == fBatch \o (Queued \o (chan["mid"] \o OneIf(dItem)))
InFlow   == consumed \o (chan["item"] \o InTail)
PassedIn == Without(Input(produced), skipIn)

\* The input side: InputConserved, and an item is skipped only when it was produced.
InInv ==
    /\ skipIn \subseteq 1..produced
    /\ IF HasInput /\ rxOpen["item"] THEN InFlow = PassedIn ELSE IsPrefix(consumed, PassedIn)

\* The output side.  After the caller has dropped its stream the wrapping task still
\* takes, and skips, items until it sends one: what the caller can have read is then
\* known only up to the items that were lost with the stream.
OutTail == OneIf(xItem) \o (xBatch \o (InBatches \o chan["out"]))
OutFlow(lost) == got \o (lost \o OutTail)
OutInv ==
    IF HasOutput /\ wrap # "done"
    THEN \E lost \in Seq(AllItems) : /\ rxOpen["caller"] => lost = chan["caller"]
                                     /\ OutFlow(lost) = Without(accepted, skipOut)
    ELSE IsPrefix(got \o chan["caller"], Without(accepted, skipOut))

\* Items are accepted in the order of the numbers they have; the handler of a
\* transform answers the items of its input in their order, and adds Final at the end.
OrderInv ==
    /\ Increasing(accepted)
    /\ \A x \in skipOut : Holds(accepted, x)
    /\ handler = "send" => \A x : Holds(accepted, x) => x < hItem
    /\ Mode = "transform" /\ handler \notin {"ended", "done"}
       /\ ~(handler = "send" /\ hItem = Final) =>
         /\ \A x : Holds(accepted, x) => \E y : Holds(consumed, y) /\ x <= y
         /\ handler = "send" => Holds(consumed, hItem)

ItemInv == InInv /\ OutInv /\ OrderInv

LEMMA Regroup ==
    ASSUME NEW a \in Seq(AllItems), NEW b \in Seq(AllItems), NEW c \in Seq(AllItems)
    PROVE  (a \o b) \o c = a \o (b \o c)
  BY Assoc

LEMMA BatchesType ==
    ASSUME NEW b \in Seq(Batch), NEW o \in Seq(AllItems), NEW u \in Seq(AllItems)
    PROVE  /\ b \in Seq(Seq(AllItems)) /\ FlattenSeq(b) \in Seq(AllItems)
           /\ FlattenSeq(b) \o o \o u \in Seq(AllItems)
  <1>1. b \in Seq(Seq(AllItems))
    <2> DEFINE T == Seq(AllItems)
    <2>1. Batch \subseteq T
      BY DEF Batch
    <2> HIDE DEF T
    <2>2. b \in Seq(T)
      BY <2>1
    <2> QED
      BY <2>2 DEF T
  <1> DEFINE f == FlattenSeq(b)
  <1>2. f \in Seq(AllItems)
    BY <1>1, FlatIs
  <1> HIDE DEF f
  <1>3. f \o o \o u \in Seq(AllItems)
    BY <1>2
  <1> QED
    BY <1>1, <1>2, <1>3 DEF f

\* The oldest batch taken off the batch channel.
Taken(b, o, u) ==
    /\ Head(b) \in Seq(AllItems) /\ Tail(b) \in Seq(Seq(AllItems))
    /\ FlattenSeq(Tail(b)) \o o \o u \in Seq(AllItems)
    /\ FlattenSeq(b) \o o \o u = Head(b) \o (FlattenSeq(Tail(b)) \o o \o u)

LEMMA BatchTaken ==
    ASSUME NEW b \in Seq(Seq(AllItems)), b # <<>>,
           NEW o \in Seq(AllItems), NEW u \in Seq(AllItems)
    PROVE  Taken(b, o, u)
  <1> DEFINE h == Head(b)
             r == FlattenSeq(Tail(b))
  <1>1. h \in Seq(AllItems) /\ Tail(b) \in Seq(Seq(AllItems))
    <2> DEFINE T == Seq(AllItems)
    <2>1. b \in Seq(T)
      OBVIOUS
    <2> HIDE DEF T
    <2>2. Head(b) \in T /\ Tail(b) \in Seq(T)
      BY <2>1
    <2> QED
      BY <2>2 DEF T
  <1>2. r \in Seq(AllItems) /\ FlattenSeq(b) = h \o r
    BY <1>1, FlatIs, FlatHead
  <1> HIDE DEF h, r
  <1> DEFINE v == r \o o
  <1>3. v \in Seq(AllItems) /\ v \o u \in Seq(AllItems)
    BY <1>2, Cat
  <1>4. (h \o r) \o o = h \o v
    BY <1>1, <1>2, Regroup
  <1>t. h \in Seq(AllItems) /\ v \in Seq(AllItems) /\ u \in Seq(AllItems)
    BY <1>1, <1>3
  <1> HIDE DEF v
  <1>5. (h \o v) \o u = h \o (v \o u)
    BY ONLY <1>t, Regroup
  <1>6. FlattenSeq(b) \o o \o u = h \o (v \o u)
    BY <1>2, <1>4, <1>5
  <1> QED
    BY <1>1, <1>3, <1>6 DEF Taken, h, r, v

LEMMA OneIfIs ==
    /\ OneIf(NoItem) = <<>>
    /\ \A x \in AllItems : OneIf(x) = <<x>>
    /\ \A x \in 0..Final : OneIf(x) \in Seq(AllItems)
  <1>1. \A x \in 0..Final : x = NoItem \/ x \in AllItems
    BY ItemsAreItems
  <1>2. \A x \in AllItems : x # NoItem
    BY ItemsAreItems
  <1>3. \A x \in AllItems : <<x>> \in Seq(AllItems)
    OBVIOUS
  <1>4. \A x \in AllItems : OneIf(x) = <<x>>
    BY <1>2 DEF OneIf
  <1>5. OneIf(NoItem) = <<>>
    BY DEF OneIf
  <1>6. ASSUME NEW x \in 0..Final PROVE OneIf(x) \in Seq(AllItems)
    <2>1. CASE x = NoItem
      BY <1>5, <2>1
    <2>2. CASE x \in AllItems
      BY <1>3, <1>4, <2>2
    <2> QED
      BY <1>1, <2>1, <2>2
  <1> QED
    BY <1>4, <1>5, <1>6

LEMMA Seqs ==
    ASSUME TypeOK
    PROVE  /\ consumed \in Seq(AllItems) /\ accepted \in Seq(AllItems) /\ got \in Seq(AllItems)
           /\ fBatch \in Seq(AllItems) /\ xBatch \in Seq(AllItems)
           /\ wOut \in Seq(AllItems) /\ wBuf \in Seq(AllItems)
           /\ chan["mid"] \in Seq(AllItems) /\ chan["item"] \in Seq(AllItems)
           /\ chan["out"] \in Seq(AllItems) /\ chan["caller"] \in Seq(AllItems)
           /\ chan["batch"] \in Seq(Seq(AllItems))
           /\ OneIf(dItem) \in Seq(AllItems) /\ OneIf(xItem) \in Seq(AllItems)
  <1>1. /\ consumed \in Seq(AllItems) /\ accepted \in Seq(AllItems) /\ got \in Seq(AllItems)
        /\ fBatch \in Seq(AllItems) /\ xBatch \in Seq(AllItems)
        /\ wOut \in Seq(AllItems) /\ wBuf \in Seq(AllItems)
    BY DEF TypeOK, HandlerType, UserType, ForwardType, WrapType, WriterType
  <1>2. /\ chan["mid"] \in Seq(AllItems) /\ chan["item"] \in Seq(AllItems)
        /\ chan["out"] \in Seq(AllItems) /\ chan["caller"] \in Seq(AllItems)
        /\ chan["batch"] \in Seq(Batch)
    BY Ways DEF TypeOK, ChanType
  <1>3. chan["batch"] \in Seq(Seq(AllItems))
    BY <1>1, <1>2, BatchesType
  <1>4. dItem \in 0..Final /\ xItem \in 0..Final
    BY ItemsAreItems DEF TypeOK, DrainType, WrapType
  <1> QED
    BY <1>1, <1>2, <1>3, <1>4, OneIfIs

LEMMA Flows ==
    ASSUME TypeOK
    PROVE  /\ FlattenSeq(chan["batch"]) \in Seq(AllItems)
           /\ InBatches \in Seq(AllItems) /\ Queued \in Seq(AllItems)
           /\ chan["mid"] \o OneIf(dItem) \in Seq(AllItems)
           /\ Queued \o (chan["mid"] \o OneIf(dItem)) \in Seq(AllItems)
           /\ InTail \in Seq(AllItems)
           /\ InBatches \o chan["out"] \in Seq(AllItems)
           /\ xBatch \o (InBatches \o chan["out"]) \in Seq(AllItems)
           /\ OutTail \in Seq(AllItems)
  <1> USE Seqs
  <1>1. FlattenSeq(chan["batch"]) \in Seq(AllItems)
    BY FlatIs
  <1>2. InBatches \in Seq(AllItems) /\ Queued \in Seq(AllItems)
    <2> DEFINE f == FlattenSeq(chan["batch"])
    <2>1. f \in Seq(AllItems)
      BY <1>1
    <2> HIDE DEF f
    <2>2. f \o wOut \o wBuf \in Seq(AllItems)
      BY <2>1
    <2> QED
      BY <2>2 DEF f, InBatches, Queued
  <1>3. chan["mid"] \o OneIf(dItem) \in Seq(AllItems)
    BY Cat
  <1>4. Queued \o (chan["mid"] \o OneIf(dItem)) \in Seq(AllItems)
    BY <1>2, <1>3, Cat
  <1>5. InTail \in Seq(AllItems)
    BY <1>4, Cat DEF InTail
  <1>6. InBatches \o chan["out"] \in Seq(AllItems)
    BY <1>2, Cat
  <1>7. xBatch \o (InBatches \o chan["out"]) \in Seq(AllItems)
    BY <1>6, Cat
  <1>8. OutTail \in Seq(AllItems)
    BY <1>7, Cat DEF OutTail
  <1> QED
    BY <1>1, <1>2, <1>3, <1>4, <1>5, <1>6, <1>7, <1>8

LEMMA PassedInIs ==
    ASSUME TypeOK
    PROVE  PassedIn \in Seq(AllItems) /\ Increasing(PassedIn)
           /\ \A x : Holds(PassedIn, x) => x \in 1..produced
  <1>1. produced \in 0..Items
    BY DEF TypeOK, DrainType
  <1>2. Input(produced) \in Seq(AllItems) /\ Increasing(Input(produced))
        /\ \A x : Holds(Input(produced), x) <=> x \in 1..produced
    BY <1>1, InputIs
  <1> QED
    BY <1>2, WithoutIs DEF PassedIn

\* The handler has seen a beginning of what passed the interceptors.
LEMMA ConsumedIs ==
    ASSUME TypeOK, InInv
    PROVE  IsPrefix(consumed, PassedIn) /\ \A y : Holds(consumed, y) => y \in 1..produced
  <1>1. consumed \in Seq(AllItems) /\ PassedIn \in Seq(AllItems)
    BY Seqs, PassedInIs
  <1>2. IsPrefix(consumed, PassedIn)
    <2>1. CASE HasInput /\ rxOpen["item"]
      <3>1. chan["item"] \o InTail \in Seq(AllItems)
        BY Seqs, Flows, Cat
      <3>2. InFlow = PassedIn
        BY <2>1 DEF InInv
      <3> QED
        BY <1>1, <3>1, <3>2, PrefixConcat DEF InFlow
    <2>2. CASE ~(HasInput /\ rxOpen["item"])
      BY <2>2 DEF InInv
    <2> QED
      BY <2>1, <2>2
  <1>3. Len(consumed) <= Len(PassedIn) /\ \A i \in 1..Len(consumed) : consumed[i] = PassedIn[i]
    BY <1>1, <1>2, PrefixIs
  <1>4. Len(consumed) \in Nat /\ Len(PassedIn) \in Nat
    BY <1>1
  <1>5. ASSUME NEW i \in 1..Len(consumed) PROVE consumed[i] \in 1..produced
    <2>1. i \in 1..Len(PassedIn) /\ consumed[i] = PassedIn[i]
      BY <1>3, <1>4
    <2> QED
      BY <2>1, PassedInIs DEF Holds
  <1> QED
    BY <1>2, <1>5 DEF Holds

\* A step that keeps the flow to the handler, or cuts it off, keeps InInv.
LEMMA InKeeps ==
    ASSUME TypeOK, InInv, UNCHANGED <<call, produced, skipIn>>,
           rxOpen'["item"] => rxOpen["item"],
           HasInput /\ rxOpen'["item"] => InFlow' = InFlow,
           ~(HasInput /\ rxOpen'["item"]) => consumed' = consumed
    PROVE  InInv'
  <1>1. PassedIn' = PassedIn /\ (HasInput' <=> HasInput)
    BY SameCall DEF PassedIn
  <1>2. CASE HasInput /\ rxOpen'["item"]
    BY <1>1, <1>2 DEF InInv
  <1>3. CASE ~(HasInput /\ rxOpen'["item"])
    <2>1. IsPrefix(consumed, PassedIn)
      BY ConsumedIs
    <2> QED
      BY <1>1, <1>3, <2>1 DEF InInv
  <1> QED
    BY <1>2, <1>3

\* What the caller has read and can read is a prefix of what passed.
LEMMA ReadIsPrefix ==
    ASSUME TypeOK, RouteInv, OutInv
    PROVE  IsPrefix(got \o chan["caller"], Without(accepted, skipOut))
  <1>1. CASE HasOutput /\ wrap # "done"
    <2>1. PICK lost \in Seq(AllItems) : /\ rxOpen["caller"] => lost = chan["caller"]
                                        /\ OutFlow(lost) = Without(accepted, skipOut)
      BY <1>1 DEF OutInv
    <2>2. CASE rxOpen["caller"]
      <3> DEFINE c == chan["caller"]
      <3>1. got \in Seq(AllItems) /\ c \in Seq(AllItems) /\ OutTail \in Seq(AllItems)
        BY Seqs, Flows
      <3>2. got \o (c \o OutTail) = Without(accepted, skipOut)
        BY <2>1, <2>2 DEF OutFlow
      <3> HIDE DEF c
      <3>3. (got \o c) \o OutTail = got \o (c \o OutTail)
        BY ONLY <3>1, Regroup
      <3>4. got \o c \in Seq(AllItems)
        BY <3>1, Cat
      <3>5. IsPrefix(got \o c, (got \o c) \o OutTail)
        BY <3>1, <3>4, PrefixConcat
      <3> QED
        BY <3>2, <3>3, <3>5 DEF c
    <2>3. CASE ~rxOpen["caller"]
      <3>1. chan["caller"] = <<>>
        BY <2>3 DEF RouteInv, Channels
      <3>2. got \o chan["caller"] = got
        BY <3>1, Seqs, Cat
      <3>3. lost \o OutTail \in Seq(AllItems) /\ got \in Seq(AllItems)
        BY Seqs, Flows, Cat
      <3> QED
        BY <2>1, <3>2, <3>3, PrefixConcat DEF OutFlow
    <2> QED
      BY <2>2, <2>3
  <1>2. CASE ~(HasOutput /\ wrap # "done")
    BY <1>2 DEF OutInv
  <1> QED
    BY <1>1, <1>2

\* A step between the handler and the wrapping task, or one that ends the latter.
LEMMA OutKeeps ==
    ASSUME TypeOK, RouteInv, OutInv, UNCHANGED <<call, accepted, skipOut, got>>,
           chan'["caller"] = chan["caller"], rxOpen'["caller"] <=> rxOpen["caller"],
           HasOutput /\ wrap' # "done" => wrap # "done" /\ OutTail' = OutTail
    PROVE  OutInv'
  <1>0. HasOutput' <=> HasOutput
    BY SameCall
  <1>1. CASE HasOutput /\ wrap' # "done"
    <2>1. PICK lost \in Seq(AllItems) : /\ rxOpen["caller"] => lost = chan["caller"]
                                        /\ OutFlow(lost) = Without(accepted, skipOut)
      BY <1>1 DEF OutInv
    <2>2. got' \o (lost \o OutTail') = Without(accepted', skipOut')
      BY <1>1, <2>1 DEF OutFlow
    <2>3. rxOpen'["caller"] => lost = chan'["caller"]
      BY <2>1
    <2> QED
      BY <1>0, <1>1, <2>2, <2>3 DEF OutInv, OutFlow
  <1>2. CASE ~(HasOutput /\ wrap' # "done")
    <2>1. IsPrefix(got \o chan["caller"], Without(accepted, skipOut))
      BY ReadIsPrefix
    <2> QED
      BY <1>0, <1>2, <2>1 DEF OutInv
  <1> QED
    BY <1>1, <1>2

LEMMA OrderKeeps ==
    ASSUME OrderInv, UNCHANGED <<call, accepted, skipOut, consumed, handler, hItem>>
    PROVE  OrderInv'
  BY SameCall DEF OrderInv

LEMMA ItemInit == Init => ItemInv
  <1> SUFFICES ASSUME Init PROVE ItemInv
    OBVIOUS
  <1>0. TypeOK
    BY InitType
  <1>1. /\ consumed = <<>> /\ got = <<>> /\ accepted = <<>> /\ produced = 0 /\ skipIn = {}
           /\ skipOut = {}
        /\ fBatch = <<>> /\ xBatch = <<>> /\ wOut = <<>> /\ wBuf = <<>> /\ dItem = NoItem
           /\ xItem = NoItem
        /\ handler = "new" /\ \A c \in Channels : chan[c] = <<>>
    BY DEF Init
  <1>2. <<>> \in Seq(AllItems) /\ <<>> \o <<>> = <<>>
    BY Cat
  <1>3. Len(<<>>) = 0 /\ Increasing(<<>>) /\ \A x : ~Holds(<<>>, x)
    BY DEF Increasing, Holds
  <1>4. \A sk : Without(<<>>, sk) = <<>>
    <2> SUFFICES ASSUME NEW sk PROVE Without(<<>>, sk) = <<>>
      OBVIOUS
    <2> DEFINE w == Without(<<>>, sk)
    <2>1. w \in Seq(AllItems) /\ Increasing(w) /\ \A x : ~Holds(w, x)
      BY <1>2, <1>3, WithoutIs
    <2> HIDE DEF w
    <2>2. w = <<>>
      BY <1>2, <1>3, <2>1, SameItems
    <2> QED
      BY <2>2 DEF w
  <1>5. Input(0) = <<>>
    <2>1. 0 \in 0..Items
      BY StreamAssumption
    <2>2. Input(0) \in Seq(AllItems) /\ Increasing(Input(0)) /\ \A x : ~Holds(Input(0), x)
      BY <2>1, InputIs
    <2> QED
      BY <1>2, <1>3, <2>2, SameItems
  <1>6. PassedIn = <<>>
    BY <1>1, <1>4, <1>5 DEF PassedIn
  <1>7. InBatches = <<>> /\ Queued = <<>>
    <2>1. chan["batch"] = <<>>
      BY <1>1 DEF Channels
    <2>2. FlattenSeq(chan["batch"]) = <<>>
      BY <2>1, <1>0, Seqs, FlatIs
    <2> QED
      BY <1>1, <1>2, <2>2 DEF InBatches, Queued
  <1>8. InFlow = <<>> /\ OutFlow(<<>>) = <<>>
    <2>1. /\ chan["mid"] = <<>> /\ chan["item"] = <<>> /\ chan["out"] = <<>>
          /\ OneIf(dItem) = <<>> /\ OneIf(xItem) = <<>>
      BY <1>1, OneIfIs DEF Channels
    <2>2. InTail = <<>>
      BY <1>1, <1>2, <1>7, <2>1 DEF InTail
    <2>3. OutTail = <<>>
      BY <1>1, <1>2, <1>7, <2>1 DEF OutTail
    <2> QED
      BY <1>1, <1>2, <2>1, <2>2, <2>3 DEF InFlow, OutFlow
  <1>9. InInv
    <2>1. IsPrefix(<<>>, <<>>)
      BY <1>2, PrefixConcat
    <2> QED
      BY <1>1, <1>6, <1>8, <2>1 DEF InInv
  <1>10. OutInv
    <2>1. IsPrefix(<<>>, <<>>)
      BY <1>2, PrefixConcat
    <2>2. chan["caller"] = <<>>
      BY <1>1 DEF Channels
    <2> QED
      BY <1>1, <1>2, <1>4, <1>8, <2>1, <2>2 DEF OutInv
  <1>11. OrderInv
    BY <1>1, <1>3 DEF OrderInv
  <1> QED
    BY <1>9, <1>10, <1>11 DEF ItemInv

\* What the parts of InFlow and OutTail are made of.
LEMMA InFlowSame ==
    ASSUME UNCHANGED <<call, consumed, fBatch, wOut, wBuf, dItem>>,
           chan'["item"] = chan["item"], chan'["mid"] = chan["mid"],
           Mode = "reduce" => chan'["batch"] = chan["batch"]
    PROVE  InFlow' = InFlow
  <1>1. Mode' = Mode
    BY SameCall
  <1>2. Queued' = Queued
    BY <1>1 DEF Queued, InBatches
  <1>3. OneIf(dItem)' = OneIf(dItem)
    BY DEF OneIf, NoItem
  <1> QED
    BY <1>2, <1>3 DEF InFlow, InTail

LEMMA OutTailSame ==
    ASSUME UNCHANGED <<xItem, xBatch, wOut, wBuf>>,
           chan'["batch"] = chan["batch"], chan'["out"] = chan["out"]
    PROVE  OutTail' = OutTail
  <1>1. OneIf(xItem)' = OneIf(xItem)
    BY DEF OneIf, NoItem
  <1> QED
    BY <1>1 DEF OutTail, InBatches

LEMMA ItemUser ==
    ASSUME TypeOK, ControlInv, ItemInv, UserStep
    PROVE  ItemInv'
  <1>k. UNCHANGED call
    BY CallStays DEF Next
  <1> USE Kinds, SameCall, <1>k DEF ControlInv, ItemInv
  <1>t. ChanType
    BY DEF TypeOK
  <1>1. CASE Refused
    <2>1. \A d \in Channels : (rxOpen'[d] <=> rxOpen[d]) /\ chan'[d] = chan[d]
      BY <1>1, DropIs DEF Refused
    <2>2. InInv'
      <3>1. InFlow' = InFlow
        BY <1>1, <2>1, InFlowSame DEF Refused, Channels
      <3> QED
        BY <1>1, <2>1, <3>1, InKeeps DEF Refused, Channels
    <2>3. OutInv'
      BY <1>1, <2>1, OutKeeps DEF Refused, Channels, userVars
    <2>4. OrderInv'
      BY <1>1 DEF Refused, OrderInv
    <2> QED
      BY <2>2, <2>3, <2>4
  <1>2. CASE Start
    <2>1. wrap # "done"
      BY <1>2 DEF Start, NewInv
    <2>2. InInv'
      <3>1. InFlow' = InFlow
        BY <1>2, InFlowSame DEF Start, chanVars
      <3> QED
        BY <1>2, <3>1, InKeeps DEF Start, chanVars
    <2>3. OutInv'
      <3>1. OutTail' = OutTail
        BY <1>2, OutTailSame DEF Start, chanVars
      <3> QED
        BY <1>2, <2>1, <3>1, OutKeeps DEF Start, chanVars, userVars
    <2>4. OrderInv'
      BY <1>2 DEF Start, OrderInv
    <2> QED
      BY <2>2, <2>3, <2>4
  <1>3. CASE Cancel \/ InputHangs
    <2>1. InFlow' = InFlow /\ OutTail' = OutTail
      BY <1>3, InFlowSame, OutTailSame DEF Cancel, InputHangs, chanVars, drainVars,
         writerVars, forwardVars, wrapVars, handlerVars
    <2>2. InInv'
      BY <1>3, <2>1, InKeeps DEF Cancel, InputHangs, chanVars, drainVars, handlerVars
    <2>3. OutInv'
      BY <1>3, <2>1, OutKeeps DEF Cancel, InputHangs, chanVars, wrapVars, handlerVars
    <2>4. OrderInv'
      BY <1>3, OrderKeeps DEF Cancel, InputHangs, wrapVars, handlerVars
    <2> QED
      BY <2>2, <2>3, <2>4
  <1>5. CASE CallerReads
    <2> DEFINE c == chan["caller"]
    <2>1. c # <<>> /\ rxOpen["caller"] /\ \A d \in Channels : d # "caller" => chan'[d] = chan[d]
      BY <1>5, <1>t, TakeIs DEF CallerReads, Channels, CanRecv
    <2>2. chan'["caller"] = Tail(c) /\ got' = Append(got, Head(c)) /\ rxOpen' = rxOpen
      BY <1>5, <1>t, TakeIs DEF CallerReads, Channels, Ends
    <2>3. InInv'
      <3>1. InFlow' = InFlow
        BY <1>5, <2>1, InFlowSame DEF CallerReads, drainVars, writerVars, forwardVars,
           wrapVars, handlerVars, Channels
      <3> QED
        BY <1>5, <2>2, <3>1, InKeeps DEF CallerReads, drainVars, handlerVars
    <2>4. OutTail' = OutTail
      BY <1>5, <2>1, OutTailSame DEF CallerReads, drainVars, writerVars, forwardVars,
         wrapVars, handlerVars, Channels
    <2>5. got \in Seq(AllItems) /\ c \in Seq(AllItems) /\ OutTail \in Seq(AllItems)
      BY Seqs, Flows
    <2> HIDE DEF c
    <2>6. /\ got' \o chan'["caller"] = got \o c
          /\ got' \in Seq(AllItems) /\ chan'["caller"] \in Seq(AllItems)
      BY <2>1, <2>2, <2>5, MoveHead
    <2>7. got' \o (chan'["caller"] \o OutTail) = got \o (c \o OutTail)
      <3> DEFINE g == got'
                 t == chan'["caller"]
      <3>1. g \o t = got \o c /\ g \in Seq(AllItems) /\ t \in Seq(AllItems)
        BY <2>6
      <3> HIDE DEF g, t
      <3>t. g \in Seq(AllItems) /\ t \in Seq(AllItems)
        BY <3>1
      <3>2. (g \o t) \o OutTail = g \o (t \o OutTail)
        BY ONLY <2>5, <3>t, Regroup
      <3>3. (got \o c) \o OutTail = got \o (c \o OutTail)
        BY ONLY <2>5, Regroup
      <3>4. g \o (t \o OutTail) = got \o (c \o OutTail)
        BY <3>1, <3>2, <3>3
      <3> QED
        BY <3>4 DEF g, t
    <2>8. UNCHANGED <<accepted, skipOut, wrap>>
      BY <1>5 DEF CallerReads, wrapVars, handlerVars
    <2>9. OutInv'
      <3>1. CASE HasOutput /\ wrap # "done"
        <4>1. OutFlow(c) = Without(accepted, skipOut)
          BY <2>1, <3>1 DEF OutInv, c
        <4>2. got' \o (chan'["caller"] \o OutTail') = Without(accepted', skipOut')
          BY <2>4, <2>7, <2>8, <4>1 DEF OutFlow
        <4> QED
          BY <2>6, <2>8, <3>1, <4>2 DEF OutInv, OutFlow
      <3>2. CASE ~(HasOutput /\ wrap # "done")
        BY <2>6, <2>8, <3>2 DEF OutInv, c
      <3> QED
        BY <3>1, <3>2
    <2>10. OrderInv'
      BY <1>5, OrderKeeps DEF CallerReads, wrapVars, handlerVars
    <2> QED
      BY <2>3, <2>9, <2>10
  <1>6. CASE CallerDrops
    <2>1. \A d \in Channels : /\ rxOpen'[d] <=> rxOpen[d] /\ d # "caller"
                              /\ chan'[d] = IF d = "caller" THEN <<>> ELSE chan[d]
      BY <1>6, DropIs DEF CallerDrops
    <2>2. InInv'
      <3>1. InFlow' = InFlow
        BY <1>6, <2>1, InFlowSame DEF CallerDrops, drainVars, writerVars, forwardVars,
           wrapVars, handlerVars, Channels
      <3> QED
        BY <1>6, <2>1, <3>1, InKeeps DEF CallerDrops, drainVars, handlerVars, Channels
    <2>3. OutTail' = OutTail
      BY <1>6, <2>1, OutTailSame DEF CallerDrops, drainVars, writerVars, forwardVars,
         wrapVars, handlerVars, Channels
    <2>4. UNCHANGED <<accepted, skipOut, wrap, got>>
      BY <1>6 DEF CallerDrops, wrapVars, handlerVars, userVars
    <2>5. ~rxOpen'["caller"] /\ chan'["caller"] = <<>>
      BY <2>1 DEF Channels
    <2>6. OutInv'
      <3>1. CASE HasOutput /\ wrap # "done"
        <4>1. PICK lost \in Seq(AllItems) : OutFlow(lost) = Without(accepted, skipOut)
          BY <3>1 DEF OutInv
        <4>2. got' \o (lost \o OutTail') = Without(accepted', skipOut')
          BY <2>3, <2>4, <4>1 DEF OutFlow
        <4> QED
          BY <2>4, <2>5, <3>1, <4>2 DEF OutInv, OutFlow
      <3>2. CASE ~(HasOutput /\ wrap # "done")
        <4> DEFINE c == chan["caller"]
                   w == Without(accepted, skipOut)
        <4>1. got \in Seq(AllItems) /\ c \in Seq(AllItems) /\ w \in Seq(AllItems)
          BY Seqs, WithoutIs
        <4>2. IsPrefix(got \o c, w)
          BY <3>2 DEF OutInv
        <4> HIDE DEF c, w
        <4>3. IsPrefix(got, got \o c) /\ got \o c \in Seq(AllItems)
          BY <4>1, PrefixConcat, Cat
        <4>4. IsPrefix(got, w)
          BY <4>1, <4>2, <4>3, PrefixTransitive
        <4>5. got \o <<>> = got
          BY <4>1, Cat
        <4> QED
          BY <2>4, <2>5, <3>2, <4>4, <4>5 DEF OutInv, w
      <3> QED
        BY <3>1, <3>2
    <2>7. OrderInv'
      BY <1>6, OrderKeeps DEF CallerDrops, wrapVars, handlerVars
    <2> QED
      BY <2>2, <2>6, <2>7
  <1> QED
    BY <1>1, <1>2, <1>3, <1>5, <1>6 DEF UserStep

LEMMA ItemDrain ==
    ASSUME TypeOK, ControlInv, ItemInv, DrainStep
    PROVE  ItemInv'
  <1>k. UNCHANGED call
    BY CallStays DEF Next
  <1> USE Kinds, SameCall, <1>k DEF ControlInv, ItemInv
  <1>t. ChanType
    BY DEF TypeOK
  <1>u. /\ UNCHANGED <<writerVars, forwardVars, wrapVars, handlerVars>> /\ UNCHANGED userVars
        /\ drain \in {"next", "send"} /\ HasInput
    BY DEF DrainStep, DrainCancelled, DrainTakes, DrainSeesEnd, DrainSends, TaskInv
  <1>o. OrderInv'
    BY <1>u, OrderKeeps DEF wrapVars, handlerVars
  <1>d. /\ rxOpen' = rxOpen
        /\ \A d \in Channels : d # DrainTo => chan'[d] = chan[d]
    <2>1. \A why : DrainEnds(why) => rxOpen' = rxOpen /\ \A d \in Channels : chan'[d] = chan[d]
      <3> SUFFICES ASSUME NEW why, DrainEnds(why)
          PROVE  rxOpen' = rxOpen /\ \A d \in Channels : chan'[d] = chan[d]
        OBVIOUS
      <3>1. Drop({DrainTo}, {})
        BY DEF DrainEnds
      <3> QED
        BY <1>t, <3>1 DEF Drop, ChanType
    <2>2. Put(DrainTo, dItem) /\ Ends => rxOpen' = rxOpen
            /\ \A d \in Channels : d # DrainTo => chan'[d] = chan[d]
      BY <1>t, PutIs, Ways DEF Ends
    <2> QED
      BY <2>1, <2>2 DEF DrainStep, DrainCancelled, DrainTakes, DrainSeesEnd, DrainSends,
         chanVars
  <1>q. OutInv'
    <2>1. DrainTo \in {"mid", "item"}
      BY Ways
    <2>2. OutTail' = OutTail
      BY <1>d, <1>u, <2>1, OutTailSame DEF writerVars, wrapVars, Channels
    <2> QED
      BY <1>d, <1>u, <2>1, <2>2, OutKeeps DEF wrapVars, handlerVars, userVars, Channels
  \* The task ends: it had nothing in hand, or nobody receives any more.
  <1>1. ASSUME NEW why, DrainEnds(why), UNCHANGED <<produced, skipIn>>,
               drain = "next" \/ SendFails(DrainTo)
        PROVE  InInv'
    <2>1. \A d \in Channels : chan'[d] = chan[d]
      BY <1>1, DropIs DEF DrainEnds
    <2>2. HasInput /\ rxOpen["item"] => dItem = NoItem
      BY <1>1, <1>u DEF SendFails, TaskInv, EndInv
    <2>3. dItem' = NoItem
      BY <1>1 DEF DrainEnds
    <2>4. HasInput /\ rxOpen'["item"] => InFlow' = InFlow
      BY <1>d, <1>u, <2>1, <2>2, <2>3, InFlowSame DEF Channels, writerVars, forwardVars,
         handlerVars
    <2> QED
      BY <1>1, <1>d, <1>u, <2>4, InKeeps DEF handlerVars
  \* The item goes into the channel.
  <1>2. ASSUME CanSend(DrainTo), Put(DrainTo, dItem), dItem' = NoItem, drain = "send",
               UNCHANGED <<produced, skipIn>>
        PROVE  InInv'
    <2>0. dItem \in AllItems
      BY <1>2, ItemsAreItems DEF TypeOK, DrainType
    <2>1. chan'[DrainTo] = Append(chan[DrainTo], dItem)
      BY <1>2, <1>t, PutIs, Ways
    <2>2. OneIf(dItem) = <<dItem>> /\ OneIf(dItem') = <<>>
      BY <1>2, <2>0, OneIfIs
    <2>3. UNCHANGED <<consumed, fBatch, wOut, wBuf>>
      BY <1>u DEF handlerVars, forwardVars, writerVars
    <2>4. Queued' = Queued
      <3>1. chan'["batch"] = chan["batch"]
        BY <1>d, Ways DEF Channels
      <3> QED
        BY <2>3, <3>1 DEF Queued, InBatches
    <2>a. OneIf(dItem)' = <<>>
      BY <1>2, OneIfIs DEF OneIf, NoItem
    <2>5. CASE DrainTo = "mid"
      <3> DEFINE m == chan["mid"]
      <3>1. chan'["item"] = chan["item"] /\ chan'["mid"] = Append(m, dItem)
              /\ m \in Seq(AllItems)
        BY <1>d, <2>1, <2>5, Seqs DEF Channels
      <3> HIDE DEF m
      <3>2. Append(m, dItem) \o <<>> = m \o <<dItem>>
        BY <2>0, <3>1, AppendCat, Cat
      <3>3. chan'["mid"] \o OneIf(dItem)' = chan["mid"] \o OneIf(dItem)
        BY <2>2, <2>a, <3>1, <3>2 DEF m
      <3>4. InFlow' = InFlow
        BY <2>3, <2>4, <3>1, <3>3 DEF InFlow, InTail
      <3> QED
        BY <1>2, <1>d, <1>k, <2>3, <3>4, InKeeps
    <2>6. CASE DrainTo = "item"
      <3> DEFINE i == chan["item"]
      <3>1. chan'["mid"] = chan["mid"] /\ chan'["item"] = Append(i, dItem)
              /\ i \in Seq(AllItems)
        BY <1>d, <2>1, <2>6, Seqs DEF Channels
      <3>2. ~(Mode = "reduce" /\ Batched)
        BY <2>6
      <3>3. chan["mid"] = <<>> /\ fBatch = <<>>
        BY <3>2 DEF RouteInv, TaskInv
      <3>4. Queued = <<>>
        <4>1. CASE Mode # "reduce"
          BY <4>1 DEF Queued
        <4>2. CASE Mode = "reduce"
          <5>1. ~Batched
            BY <3>2, <4>2
          <5>2. chan["batch"] = <<>> /\ wOut = <<>> /\ wBuf = <<>>
            BY <5>1 DEF RouteInv, TaskInv
          <5>3. FlattenSeq(chan["batch"]) = <<>>
            BY <5>2, Seqs, FlatIs
          <5>4. <<>> \o <<>> = <<>>
            BY Cat
          <5> QED
            BY <5>2, <5>3, <5>4 DEF Queued, InBatches
        <4> QED
          BY <4>1, <4>2
      <3> HIDE DEF i
      <3>5. <<>> \o <<>> = <<>> /\ <<dItem>> \in Seq(AllItems) /\ <<>> \o <<dItem>> = <<dItem>>
        BY <2>0, One, Cat
      <3>6. InTail = <<dItem>>
        BY <2>2, <3>3, <3>4, <3>5 DEF InTail
      <3>7. InTail' = <<>>
        BY <2>3, <2>4, <2>a, <3>1, <3>3, <3>4, <3>5 DEF InTail
      <3>8. Append(i, dItem) \o <<>> = i \o <<dItem>>
        BY <2>0, <3>1, AppendCat, Cat
      <3>9. chan'["item"] \o InTail' = chan["item"] \o InTail
        BY <3>1, <3>6, <3>7, <3>8 DEF i
      <3>10. InFlow' = InFlow
        BY <2>3, <3>9 DEF InFlow
      <3> QED
        BY <1>2, <1>d, <1>k, <2>3, <3>10, InKeeps
    <2> QED
      BY <2>5, <2>6, Ways
  \* The input yields an item, which is intercepted.
  <1>3. ASSUME DrainTakes PROVE InInv'
    <2> DEFINE n == produced + 1
    <2>0. produced \in 0..Items /\ produced < Items /\ produced' = n /\ drain = "next"
      BY <1>3 DEF DrainTakes, TypeOK, DrainType
    <2>1. Input(n) = Append(Input(produced), n) /\ n \in AllItems
          /\ Input(produced) \in Seq(AllItems) /\ Increasing(Input(produced))
          /\ (\A x : Holds(Input(produced), x) <=> x \in 1..produced)
      BY <2>0, InputIs
    <2>2. /\ \A x : Holds(Input(produced), x) => x < n
          /\ ~Holds(Input(produced), n) /\ n \notin skipIn
          /\ skipIn \cup {n} \subseteq 1..n /\ skipIn \subseteq 1..n
      BY <2>0, <2>1 DEF InInv
    <2>3. \A d \in Channels : chan'[d] = chan[d]
      <3>1. \A why : DrainEnds(why) => \A d \in Channels : chan'[d] = chan[d]
        BY DropIs DEF DrainEnds
      <3> QED
        BY <1>3, <3>1 DEF DrainTakes, chanVars
    <2>4. UNCHANGED <<consumed, fBatch, wOut, wBuf>>
      BY <1>u DEF handlerVars, forwardVars, writerVars
    <2>5. dItem = NoItem
      BY <2>0 DEF TaskInv
    <2>6. PassedIn \in Seq(AllItems) /\ consumed \in Seq(AllItems)
      BY PassedInIs, Seqs
    <2> HIDE DEF n
    <2>7. CASE drain' = "send" /\ dItem' = n /\ skipIn' = skipIn
      <3>1. PassedIn' = Append(PassedIn, n)
        BY <2>0, <2>1, <2>2, <2>7, WithoutAppend DEF PassedIn
      <3>2. CASE HasInput /\ rxOpen["item"]
        <4> DEFINE m == chan["mid"]
                   i == chan["item"]
        <4>1. InFlow = PassedIn
          BY <3>2 DEF InInv
        <4>2. m \in Seq(AllItems) /\ i \in Seq(AllItems) /\ fBatch \in Seq(AllItems)
                /\ Queued \in Seq(AllItems)
          BY Seqs, Flows
        <4>3. Queued' = Queued /\ chan'["mid"] = m /\ chan'["item"] = i
          BY <2>3, <2>4 DEF Queued, InBatches, Channels
        <4>4. OneIf(dItem) = <<>> /\ OneIf(dItem)' = <<n>>
          <5>1. OneIf(dItem') = <<n>>
            BY <2>1, <2>7, OneIfIs
          <5> QED
            BY <2>5, <5>1, OneIfIs DEF OneIf, NoItem
        <4> HIDE DEF m, i
        <4>5. InFlow = consumed \o (i \o (fBatch \o (Queued \o m)))
          <5>1. m \o <<>> = m
            BY <4>2, Cat
          <5> QED
            BY <4>4, <5>1 DEF InFlow, InTail, m, i
        <4>6. InFlow' = consumed \o (i \o (fBatch \o (Queued \o Append(m, n))))
          <5>1. m \o <<n>> = Append(m, n)
            BY <2>1, <4>2, AppendCat
          <5> QED
            BY <2>4, <4>3, <4>4, <5>1 DEF InFlow, InTail
        <4>7. /\ Queued \o m \in Seq(AllItems)
              /\ Queued \o Append(m, n) = Append(Queued \o m, n)
          BY <2>1, <4>2, AppendCat, Cat
        <4>8. /\ fBatch \o (Queued \o m) \in Seq(AllItems)
              /\ fBatch \o Append(Queued \o m, n) = Append(fBatch \o (Queued \o m), n)
          BY <2>1, <4>2, <4>7, AppendCat, Cat
        <4>9. /\ i \o (fBatch \o (Queued \o m)) \in Seq(AllItems)
              /\ i \o Append(fBatch \o (Queued \o m),
                            n) = Append(i \o (fBatch \o (Queued \o m)), n)
          <5> DEFINE t == fBatch \o (Queued \o m)
          <5>1. t \in Seq(AllItems)
            BY <4>8
          <5> HIDE DEF t
          <5>2. i \o t \in Seq(AllItems)
            BY <4>2, <5>1, Cat
          <5>3. i \o Append(t, n) = Append(i \o t, n)
            BY <2>1, <4>2, <5>1, AppendCat
          <5> QED
            BY <5>2, <5>3 DEF t
        <4>10. consumed \o Append(i \o (fBatch \o (Queued \o m)), n)
               = Append(consumed \o (i \o (fBatch \o (Queued \o m))), n)
          BY <2>1, <2>6, <4>9, AppendCat
        <4>11. InFlow' = PassedIn'
          BY <3>1, <4>1, <4>5, <4>6, <4>7, <4>8, <4>9, <4>10
        <4>12. skipIn' \subseteq 1..produced'
          BY <2>0, <2>2, <2>7
        <4> QED
          BY <1>d, <1>k, <3>2, <4>11, <4>12, SameCall DEF InInv
      <3>3. CASE ~(HasInput /\ rxOpen["item"])
        <4>1. IsPrefix(consumed, PassedIn')
          BY <2>1, <2>6, <3>1, <3>3, PrefixAppend DEF InInv
        <4>2. skipIn' \subseteq 1..produced'
          BY <2>0, <2>2, <2>7
        <4> QED
          BY <1>d, <1>k, <2>4, <3>3, <4>1, <4>2, SameCall DEF InInv
      <3> QED
        BY <3>2, <3>3
    <2>8. CASE dItem' = NoItem /\ skipIn' = skipIn \cup {n}
      <3>1. Without(Input(n), skipIn \cup {n}) = Without(Input(produced), skipIn \cup {n})
        <4>1. n \in skipIn \cup {n}
          OBVIOUS
        <4> QED
          BY <2>1, <2>2, <4>1, WithoutAppend
      <3>2. Without(Input(produced), skipIn \cup {n}) = Without(Input(produced), skipIn)
        BY <2>1, <2>2, WithoutOther
      <3>3. PassedIn' = PassedIn
        BY <2>0, <2>8, <3>1, <3>2 DEF PassedIn
      <3>4. InFlow' = InFlow
        BY <1>k, <2>3, <2>4, <2>5, <2>8, InFlowSame DEF Channels
      <3>5. skipIn' \subseteq 1..produced'
        BY <2>0, <2>2, <2>8
      <3> QED
        BY <1>d, <1>k, <2>4, <3>3, <3>4, <3>5, SameCall DEF InInv
    <2> QED
      <3>1. \/ drain' = "send" /\ dItem' = n /\ skipIn' = skipIn
            \/ dItem' = NoItem /\ skipIn' = skipIn \cup {n}
        BY <1>3, <2>0, <2>5 DEF DrainTakes, DrainEnds
      <3> QED
        BY <2>7, <2>8, <3>1
  <1>4. InInv'
    BY <1>1, <1>2, <1>3 DEF DrainStep, DrainCancelled, DrainSeesEnd, DrainSends
  <1> QED
    BY <1>o, <1>q, <1>4

\* A step of the writer moves items from its channel towards the batches.
LEMMA WriterKeeps ==
    ASSUME TypeOK, ControlInv, WriterStep \/ Tick
    PROVE  /\ rxOpen["batch"] => InBatches' \o chan'[WriterFrom] = InBatches \o chan[WriterFrom]
           /\ \A d \in Channels : d \notin {"batch", WriterFrom} =>
                chan'[d] = chan[d] /\ (rxOpen'[d] <=> rxOpen[d])
  <1> DEFINE f == FlattenSeq(chan["batch"])
             q == chan[WriterFrom]
  <1>t. ChanType
    BY DEF TypeOK
  <1>w. WriterFrom \in Channels /\ "batch" \in Channels /\ WriterFrom # "batch"
    BY Ways
  <1>s. f \in Seq(AllItems) /\ q \in Seq(AllItems) /\ wBuf \in Seq(AllItems)
          /\ wOut \in Seq(AllItems)
    BY Seqs, Flows, Ways
  <1>i. InBatches = (f \o wOut) \o wBuf
    BY DEF InBatches
  <1>j. writer = "recv" => wOut = <<>>
    BY DEF ControlInv, TaskInv
  <1> HIDE DEF f, q
  \* The writer waits: its buffer is all that it holds.
  <1>r. writer = "recv" => InBatches = f \o wBuf
    BY <1>s, <1>i, <1>j, Cat
  \* The buffer, with what came to it, becomes the batch to send or stays.
  <1>f. ASSUME NEW buf \in Seq(AllItems), chan'["batch"] = chan["batch"],
               \/ wOut' = buf /\ wBuf' = <<>>
               \/ wBuf' = buf /\ wOut' = <<>>
        PROVE  InBatches' = f \o buf
    <2>1. InBatches' = (f \o wOut') \o wBuf'
      BY <1>f DEF InBatches, f
    <2>2. f \o buf \in Seq(AllItems) /\ (f \o buf) \o <<>> = f \o buf /\ f \o <<>> = f
      BY <1>s, <1>f, Cat
    <2> QED
      BY <1>f, <2>1, <2>2
  <1>1. CASE WriterPushes
    <2> DEFINE buf == Append(wBuf, Head(q))
    <2>1. /\ \A d \in Channels : d # WriterFrom => chan'[d] = chan[d]
          /\ chan'[WriterFrom] = Tail(q) /\ rxOpen' = rxOpen /\ q # <<>> /\ writer = "recv"
      BY <1>1, <1>t, <1>w, TakeIs DEF WriterPushes, Ends, CanRecv, q
    <2>2. Head(q) \in AllItems /\ Tail(q) \in Seq(AllItems)
      BY <1>s, <2>1, HeadOff
    <2>3. buf \in Seq(AllItems) /\ f \o buf = Append(f \o wBuf, Head(q))
            /\ f \o wBuf \in Seq(AllItems)
      BY <1>s, <2>2, AppendCat, Cat
    <2>4. \/ wOut' = buf /\ wBuf' = <<>>
          \/ wBuf' = buf /\ wOut' = <<>>
      BY <1>1, <1>j, <2>1 DEF WriterPushes, Flush, q
    <2>5. chan'["batch"] = chan["batch"]
      BY <1>w, <2>1
    <2> HIDE DEF buf
    <2>6. InBatches' = Append(f \o wBuf, Head(q))
      BY <1>f, <2>3, <2>4, <2>5
    <2> DEFINE e == f \o wBuf
    <2>7. Append(e, Head(q)) \o Tail(q) = e \o q
      <3>1. e \in Seq(AllItems)
        BY <2>3
      <3> HIDE DEF e
      <3> QED
        BY <1>s, <2>1, <3>1, MoveHead
    <2>8. InBatches' \o chan'[WriterFrom] = InBatches \o chan[WriterFrom]
      BY <1>r, <2>1, <2>6, <2>7 DEF q
    <2> QED
      BY <2>1, <2>8
  <1>2. CASE /\ UNCHANGED chanVars /\ writer = "recv"
             /\ \/ wOut' = wBuf /\ wBuf' = <<>>
                \/ UNCHANGED <<wOut, wBuf>>
    <2>1. InBatches' = f \o wBuf
      BY <1>2, <1>f, <1>j, <1>s DEF chanVars
    <2> QED
      BY <1>2, <1>r, <2>1 DEF chanVars
  <1>3. CASE WriterSeesEnd
    <2>1. CASE wBuf # <<>>
      BY <1>2, <1>3, <2>1 DEF WriterSeesEnd, Flush
    <2>2. CASE wBuf = <<>>
      <3>1. /\ UNCHANGED <<wBuf, wOut>> /\ Drop({"batch"}, {WriterFrom})
            /\ writer = "recv" /\ q = <<>>
        BY <1>3, <2>2 DEF WriterSeesEnd, WriterEnds, SeesEnd, q
      <3>2. \A d \in Channels : /\ chan'[d] = IF d = WriterFrom THEN <<>> ELSE chan[d]
                                /\ d # WriterFrom => (rxOpen'[d] <=> rxOpen[d])
        BY <3>1, DropIs
      <3>3. chan'["batch"] = chan["batch"] /\ chan'[WriterFrom] = q
        BY <1>w, <3>1, <3>2
      <3>4. InBatches' = f \o wBuf
        BY <1>f, <1>j, <1>s, <3>1, <3>3
      <3> QED
        BY <1>r, <3>1, <3>2, <3>3, <3>4 DEF q
    <2> QED
      BY <2>1, <2>2
  <1>4. CASE CheckDeadline
    BY <1>2, <1>4 DEF CheckDeadline, Flush
  <1>5. CASE Tick
    BY <1>2, <1>5 DEF Tick
  <1>6. CASE WriterSends
    <2>0. wBuf = <<>> /\ wBuf' = <<>>
      BY <1>6 DEF WriterSends, ControlInv, TaskInv
    <2>1. CASE SendFails("batch") /\ WriterEnds
      <3>1. Drop({"batch"}, {WriterFrom}) /\ ~rxOpen["batch"]
        BY <2>1 DEF SendFails, WriterEnds
      <3>2. \A d \in Channels : /\ chan'[d] = IF d = WriterFrom THEN <<>> ELSE chan[d]
                                /\ d # WriterFrom => (rxOpen'[d] <=> rxOpen[d])
        BY <3>1, DropIs
      <3> QED
        BY <3>1, <3>2
    <2>2. CASE Put("batch", wOut) /\ wOut' = <<>>
               /\ (Ends \/ rxOpen' = [rxOpen EXCEPT ![WriterFrom] = FALSE])
      <3>1. \A d \in Channels : d # "batch" => chan'[d] = chan[d]
        BY <1>t, <1>w, <2>2, PutIs
      <3>2. \A d \in Channels : d # WriterFrom => (rxOpen'[d] <=> rxOpen[d])
        BY <1>t, <2>2 DEF Ends, ChanType
      <3>3. chan'["batch"] = Append(chan["batch"], wOut)
        BY <1>t, <1>w, <2>2, PutIs
      <3>4. FlattenSeq(chan'["batch"]) = f \o wOut
        BY <1>s, <3>3, Seqs, FlatAppend DEF f
      <3>5. InBatches' = InBatches
        <4>1. f \o wOut \in Seq(AllItems) /\ (f \o wOut) \o <<>> = f \o wOut
          BY <1>s, Cat
        <4>2. InBatches = f \o wOut
          BY <1>i, <2>0, <4>1
        <4>3. InBatches' = ((f \o wOut) \o <<>>) \o <<>>
          BY <2>0, <2>2, <3>4 DEF InBatches
        <4> QED
          BY <4>1, <4>2, <4>3
      <3> QED
        BY <1>w, <3>1, <3>2, <3>5
    <2> QED
      BY <1>6, <2>1, <2>2 DEF WriterSends
  <1> QED
    BY <1>1, <1>3, <1>4, <1>5, <1>6 DEF WriterStep

LEMMA ItemWriter ==
    ASSUME TypeOK, TypeOK', ControlInv, ItemInv, WriterStep \/ Tick
    PROVE  ItemInv'
  <1>k. UNCHANGED call
    BY CallStays DEF Next
  <1> USE Kinds, SameCall, <1>k DEF ControlInv, ItemInv
  <1>u. /\ UNCHANGED <<drainVars, forwardVars, wrapVars, handlerVars>> /\ UNCHANGED userVars
        /\ writer # "done" /\ Batched
    BY DEF WriterStep, WriterPushes, WriterSeesEnd, CheckDeadline, WriterSends, Tick, TaskInv
  <1>w. /\ rxOpen["batch"] => InBatches' \o chan'[WriterFrom] = InBatches \o chan[WriterFrom]
        /\ \A d \in Channels : d \notin {"batch", WriterFrom} =>
             chan'[d] = chan[d] /\ (rxOpen'[d] <=> rxOpen[d])
    BY WriterKeeps
  <1>o. OrderInv'
    BY <1>u, OrderKeeps DEF wrapVars, handlerVars
  <1>1. InInv'
    <2>1. /\ chan'["item"] = chan["item"] /\ (rxOpen'["item"] <=> rxOpen["item"])
          /\ UNCHANGED <<consumed, fBatch, dItem, produced, skipIn>>
      BY <1>u, <1>w, Ways DEF drainVars, forwardVars, handlerVars
    <2>2. OneIf(dItem)' = OneIf(dItem)
      BY <2>1 DEF OneIf, NoItem
    <2>3. CASE Mode # "reduce"
      <3>1. chan'["mid"] = chan["mid"] /\ Queued' = Queued
        BY <1>w, <2>3 DEF Queued, Channels
      <3>2. InFlow' = InFlow
        BY <2>1, <2>2, <3>1 DEF InFlow, InTail
      <3> QED
        BY <2>1, <3>2, InKeeps
    <2>4. CASE Mode = "reduce"
      <3>1. HasInput /\ rxOpen["item"] => rxOpen["batch"]
        BY <1>u, <2>4 DEF EndInv
      <3>2. ASSUME rxOpen["batch"] PROVE InFlow' = InFlow
        <4> DEFINE a == InBatches
                   b == chan["mid"]
                   c == InBatches'
                   d == chan'["mid"]
                   y == OneIf(dItem)
        <4>1. /\ a \in Seq(AllItems) /\ b \in Seq(AllItems) /\ y \in Seq(AllItems)
              /\ c \in Seq(AllItems) /\ d \in Seq(AllItems)
          <5>1. ChanType' /\ WriterType'
            BY DEF TypeOK
          <5>2. chan'["mid"] \in Seq(AllItems) /\ chan'["batch"] \in Seq(Batch)
            BY <5>1, Ways DEF ChanType
          <5>3. wOut' \in Seq(AllItems) /\ wBuf' \in Seq(AllItems)
            BY <5>1 DEF WriterType
          <5>4. c \in Seq(AllItems)
            BY <5>2, <5>3, BatchesType DEF InBatches
          <5> QED
            BY <5>2, <5>4, Seqs, Flows
        <4>2. c \o d = a \o b
          BY <1>w, <2>4, <3>2
        <4>3. Queued = a /\ Queued' = c
          BY <2>4 DEF Queued
        <4> HIDE DEF a, b, c, d, y
        <4>4. (c \o d) \o y = c \o (d \o y)
          BY ONLY <4>1, Regroup
        <4>5. (a \o b) \o y = a \o (b \o y)
          BY ONLY <4>1, Regroup
        <4>6. c \o (d \o y) = a \o (b \o y)
          BY <4>2, <4>4, <4>5
        <4>7. InTail' = InTail
          BY <2>1, <2>2, <4>3, <4>6 DEF InTail, b, d, y
        <4> QED
          BY <2>1, <4>7 DEF InFlow
      <3> QED
        BY <2>1, <3>1, <3>2, InKeeps
    <2> QED
      BY <2>3, <2>4
  <1>2. OutInv'
    <2>1. /\ chan'["caller"] = chan["caller"] /\ (rxOpen'["caller"] <=> rxOpen["caller"])
          /\ UNCHANGED <<accepted, skipOut, got, wrap, xItem, xBatch>>
      BY <1>u, <1>w, Ways DEF wrapVars, handlerVars, userVars
    <2>2. HasOutput /\ wrap # "done" => OutTail' = OutTail
      <3> SUFFICES ASSUME HasOutput, wrap # "done" PROVE OutTail' = OutTail
        OBVIOUS
      <3>1. rxOpen["batch"] /\ WriterFrom = "out"
        BY DEF EndInv
      <3>2. InBatches' \o chan'["out"] = InBatches \o chan["out"]
        BY <1>w, <3>1
      <3>3. OneIf(xItem)' = OneIf(xItem)
        BY <2>1 DEF OneIf, NoItem
      <3> QED
        BY <2>1, <3>2, <3>3 DEF OutTail
    <2> QED
      BY <2>1, <2>2, OutKeeps
  <1> QED
    BY <1>o, <1>1, <1>2

LEMMA ItemForward ==
    ASSUME TypeOK, ControlInv, ItemInv, ForwardStep
    PROVE  ItemInv'
  <1>k. UNCHANGED call
    BY CallStays DEF Next
  <1> USE Kinds, SameCall, <1>k DEF ControlInv, ItemInv
  <1>t. ChanType
    BY DEF TypeOK
  <1>u. /\ UNCHANGED <<drainVars, writerVars, wrapVars, handlerVars>> /\ UNCHANGED userVars
        /\ forward \in {"recv", "join"}
    BY DEF ForwardStep, ForwardTakes, ForwardSends, ForwardSeesEnd, ForwardJoins
  <1>o. OrderInv'
    BY <1>u, OrderKeeps DEF wrapVars, handlerVars
  <1>v. UNCHANGED <<consumed, dItem, produced, skipIn, wOut, wBuf, accepted, skipOut, got,
                      wrap>>
    BY <1>u DEF drainVars, writerVars, wrapVars, handlerVars, userVars
  <1>d. OneIf(dItem)' = OneIf(dItem)
    BY <1>v DEF OneIf, NoItem
  <1>1. CASE ForwardJoins
    <2>1. InFlow' = InFlow /\ OutTail' = OutTail
      BY <1>1, <1>u, <1>v, InFlowSame, OutTailSame DEF ForwardJoins, chanVars, wrapVars
    <2>2. InInv'
      BY <1>1, <1>v, <2>1, InKeeps DEF ForwardJoins, chanVars
    <2>3. OutInv'
      BY <1>1, <1>v, <2>1, OutKeeps DEF ForwardJoins, chanVars
    <2> QED
      BY <1>o, <2>2, <2>3
  <1>2. ASSUME forward = "recv", chan'["caller"] = chan["caller"],
               rxOpen'["caller"] <=> rxOpen["caller"]
        PROVE  OutInv'
    <2>1. ~HasOutput
      BY <1>2 DEF TaskInv
    <2> QED
      BY <1>2, <1>v, <2>1, OutKeeps
  <1>3. CASE ForwardStops /\ forward = "recv" /\ (SendFails("item") \/ (fBatch = <<>>
          /\ SeesEnd("batch")))
    <2>1. \A d \in Channels : /\ rxOpen'[d] <=> rxOpen[d] /\ d # "batch"
                              /\ chan'[d] = IF d = "batch" THEN <<>> ELSE chan[d]
      BY <1>3, DropIs DEF ForwardStops
    <2>2. rxOpen["item"] => chan'["batch"] = chan["batch"] /\ fBatch' = fBatch
      BY <1>3, <2>1 DEF ForwardStops, SendFails, SeesEnd, Channels
    <2>3. rxOpen'["item"] => InFlow' = InFlow
      BY <1>v, <2>1, <2>2, InFlowSame DEF Channels
    <2>4. InInv'
      BY <1>v, <2>1, <2>3, InKeeps DEF Channels
    <2>5. OutInv'
      BY <1>2, <1>3, <2>1 DEF Channels
    <2> QED
      BY <1>o, <2>4, <2>5
  <1>4. CASE ForwardTakes
    <2> DEFINE b == chan["batch"]
    <2>1. /\ \A d \in Channels : d # "batch" => chan'[d] = chan[d]
          /\ chan'["batch"] = Tail(b) /\ rxOpen' = rxOpen /\ b # <<>> /\ forward = "recv"
          /\ fBatch = <<>> /\ fBatch' = Head(b)
      BY <1>4, <1>t, TakeIs DEF ForwardTakes, Ends, CanRecv, Channels
    <2>2. Mode = "reduce"
      BY <2>1 DEF TaskInv
    <2> DEFINE h == Head(b)
               s == FlattenSeq(Tail(b)) \o wOut \o wBuf
               z == chan["mid"] \o OneIf(dItem)
    <2>3. h \in Seq(AllItems) /\ s \in Seq(AllItems) /\ InBatches = h \o s
      <3>1. /\ b \in Seq(Seq(AllItems)) /\ b # <<>>
            /\ wOut \in Seq(AllItems) /\ wBuf \in Seq(AllItems)
        BY <2>1, Seqs
      <3>2. Taken(b, wOut, wBuf)
        BY ONLY <3>1, BatchTaken
      <3> QED
        BY <3>2 DEF Taken, InBatches
    <2>4. z \in Seq(AllItems)
      BY Flows
    <2>5. Queued = h \o s /\ Queued' = s
      BY <1>v, <2>1, <2>2, <2>3 DEF Queued, InBatches
    <2> HIDE DEF b, h, s, z
    <2>t. h \in Seq(AllItems) /\ s \in Seq(AllItems) /\ z \in Seq(AllItems)
      BY <2>3, <2>4
    <2>13. (h \o s) \o z = h \o (s \o z)
      BY ONLY <2>t, Regroup
    <2>14. <<>> \o (h \o (s \o z)) = h \o (s \o z)
      <3>1. s \o z \in Seq(AllItems)
        BY <2>t, Cat
      <3>2. h \o (s \o z) \in Seq(AllItems)
        BY <2>t, <3>1, Cat
      <3> QED
        BY <3>2, Cat
    <2>15. InTail = h \o (s \o z)
      BY <2>1, <2>5, <2>13, <2>14 DEF InTail, z
    <2>16. InTail' = h \o (s \o z)
      BY <1>d, <2>1, <2>5 DEF InTail, z, h, Channels
    <2>17. InFlow' = InFlow
      BY <1>v, <2>1, <2>15, <2>16 DEF InFlow, Channels
    <2>18. InInv'
      BY <1>v, <2>1, <2>17, InKeeps
    <2>19. OutInv'
      BY <1>2, <2>1 DEF Channels
    <2> QED
      BY <1>o, <2>18, <2>19
  <1>5. CASE CanSend("item") /\ Put("item", Head(fBatch)) /\ Ends /\ fBatch' = Tail(fBatch)
             /\ forward = "recv" /\ fBatch # <<>>
    <2> DEFINE i == chan["item"]
               z == Queued \o (chan["mid"] \o OneIf(dItem))
    <2>1. /\ \A d \in Channels : d # "item" => chan'[d] = chan[d]
          /\ chan'["item"] = Append(i, Head(fBatch)) /\ rxOpen' = rxOpen
      BY <1>5, <1>t, PutIs DEF Ends, Channels
    <2>2. i \in Seq(AllItems) /\ fBatch \in Seq(AllItems) /\ z \in Seq(AllItems)
      BY Seqs, Flows
    <2>3. Queued' = Queued /\ chan'["mid"] = chan["mid"]
      BY <1>v, <2>1 DEF Queued, InBatches, Channels
    <2>4. InTail = fBatch \o z /\ InTail' = Tail(fBatch) \o z
      BY <1>5, <1>d, <2>3 DEF InTail
    <2> HIDE DEF i, z
    <2> DEFINE a == Append(i, Head(fBatch))
               t == Tail(fBatch)
    <2>5. a \o t = i \o fBatch /\ a \in Seq(AllItems) /\ t \in Seq(AllItems)
      BY <1>5, <2>2, MoveHead
    <2> HIDE DEF a, t
    <2>6. a \in Seq(AllItems) /\ t \in Seq(AllItems)
      BY <2>5
    <2>7. (a \o t) \o z = a \o (t \o z)
      BY ONLY <2>2, <2>6, Regroup
    <2>8. (i \o fBatch) \o z = i \o (fBatch \o z)
      BY ONLY <2>2, Regroup
    <2>9. a \o (t \o z) = i \o (fBatch \o z)
      BY <2>5, <2>7, <2>8
    <2>10. chan'["item"] \o InTail' = chan["item"] \o InTail
      BY <2>1, <2>4, <2>9 DEF a, t, i
    <2>11. InFlow' = InFlow
      BY <1>v, <2>10 DEF InFlow
    <2>12. InInv'
      BY <1>v, <2>1, <2>11, InKeeps
    <2>13. OutInv'
      BY <1>2, <1>5, <2>1 DEF Channels
    <2> QED
      BY <1>o, <2>12, <2>13
  <1> QED
    BY <1>1, <1>3, <1>4, <1>5 DEF ForwardStep, ForwardSends, ForwardSeesEnd

\* The wrapping task takes the oldest of the items that are under way to it.
LEMMA WrapHead ==
    ASSUME TypeOK, ControlInv, WrapTakes
    PROVE  \E x \in AllItems :
             /\ xBatch' \o (InBatches' \o chan'["out"]) \in Seq(AllItems)
             /\ OutTail = <<x>> \o (xBatch' \o (InBatches' \o chan'["out"]))
             /\ \/ wrap' = "send" /\ xItem' = x /\ UNCHANGED skipOut
                \/ skipOut' = skipOut \cup {x} /\ UNCHANGED <<wrap, xItem>>
  <1>k. UNCHANGED call
    BY CallStays DEF Next, WrapStep
  <1> USE Kinds, SameCall, <1>k DEF ControlInv
  <1>t. ChanType
    BY DEF TypeOK
  <1>u. UNCHANGED <<wOut, wBuf>> /\ wrap = "recv"
    BY DEF WrapTakes, writerVars
  <1> DEFINE z == chan["out"]
             e == InBatches \o z
  <1>z. z \in Seq(AllItems) /\ e \in Seq(AllItems) /\ xBatch \in Seq(AllItems)
    BY Seqs, Flows
  <1>x. OutTail = xBatch \o e
    <2>1. OneIf(xItem) = <<>>
      BY <1>u, OneIfIs DEF TaskInv
    <2>2. xBatch \o e \in Seq(AllItems)
      BY <1>z, Cat
    <2>3. <<>> \o (xBatch \o e) = xBatch \o e
      BY <2>2, Cat
    <2> QED
      BY <2>1, <2>3 DEF OutTail
  <1>1. CASE xBatch # <<>> /\ Intercept(Head(xBatch), Tail(xBatch)) /\ UNCHANGED chanVars
    <2> DEFINE x == Head(xBatch)
               t == Tail(xBatch)
    <2>1. x \in AllItems /\ t \in Seq(AllItems) /\ <<x>> \o t = xBatch
            /\ <<x>> \in Seq(AllItems)
      BY <1>1, <1>z, HeadOff, One
    <2>2. xBatch' = t /\ InBatches' \o chan'["out"] = e
      BY <1>1, <1>u DEF Intercept, chanVars, InBatches
    <2>3. \/ wrap' = "send" /\ xItem' = x /\ UNCHANGED skipOut
          \/ skipOut' = skipOut \cup {x} /\ UNCHANGED <<wrap, xItem>>
      BY <1>1 DEF Intercept
    <2> HIDE DEF x, t, e
    <2>4. <<x>> \in Seq(AllItems) /\ t \in Seq(AllItems) /\ e \in Seq(AllItems)
      BY <1>z, <2>1
    <2>5. (<<x>> \o t) \o e = <<x>> \o (t \o e)
      BY ONLY <2>4, Regroup
    <2>6. t \o e \in Seq(AllItems)
      BY <2>4, Cat
    <2>7. OutTail = <<x>> \o (xBatch' \o (InBatches' \o chan'["out"]))
      BY <1>x, <2>1, <2>2, <2>5
    <2>8. xBatch' \o (InBatches' \o chan'["out"]) \in Seq(AllItems)
      BY <2>2, <2>6
    <2> QED
      BY <2>1, <2>3, <2>7, <2>8
  <1>2. CASE /\ xBatch = <<>> /\ CanRecv(WrapFrom) /\ Take(WrapFrom) /\ Batched
             /\ Intercept(Head(Head(chan[WrapFrom])), Tail(Head(chan[WrapFrom])))
    <2> DEFINE b == chan["batch"]
               h == Head(b)
               x == Head(h)
               t == Tail(h)
               s == FlattenSeq(Tail(b)) \o wOut \o wBuf
    <2>1. WrapFrom = "batch" /\ b # <<>>
      BY <1>2 DEF CanRecv
    <2>2. chan'["batch"] = Tail(b) /\ chan'["out"] = z
      BY <1>2, <1>t, <2>1, TakeIs DEF Channels
    <2>3. h \in Seq(AllItems) /\ s \in Seq(AllItems) /\ InBatches = h \o s
      <3>1. /\ b \in Seq(Seq(AllItems)) /\ b # <<>>
            /\ wOut \in Seq(AllItems) /\ wBuf \in Seq(AllItems)
        BY <2>1, Seqs
      <3>2. Taken(b, wOut, wBuf)
        BY ONLY <3>1, BatchTaken
      <3> QED
        BY <3>2 DEF Taken, InBatches
    <2>4. h # <<>>
      <3>1. b \in Seq(Batch)
        BY <1>t, Ways DEF ChanType
      <3>2. Head(b) \in Batch
        BY <2>1, <3>1
      <3> QED
        BY <3>2 DEF Batch
    <2>5. x \in AllItems /\ t \in Seq(AllItems) /\ <<x>> \o t = h /\ <<x>> \in Seq(AllItems)
      BY <2>3, <2>4, HeadOff, One
    <2>6. xBatch' = t /\ InBatches' = s
      BY <1>2, <1>u, <2>1, <2>2 DEF Intercept, InBatches
    <2>7. \/ wrap' = "send" /\ xItem' = x /\ UNCHANGED skipOut
          \/ skipOut' = skipOut \cup {x} /\ UNCHANGED <<wrap, xItem>>
      BY <1>2, <2>1 DEF Intercept
    <2> HIDE DEF b, h, x, t, s, z
    <2>8. h \in Seq(AllItems) /\ s \in Seq(AllItems) /\ z \in Seq(AllItems)
          /\ <<x>> \in Seq(AllItems) /\ t \in Seq(AllItems)
      BY <1>z, <2>3, <2>5
    <2> DEFINE y == s \o z
    <2>9. y \in Seq(AllItems)
      BY <2>8, Cat
    <2>10. (h \o s) \o z = h \o y
      BY ONLY <2>8, Regroup
    <2> HIDE DEF y
    <2>11. (<<x>> \o t) \o y = <<x>> \o (t \o y)
      BY ONLY <2>8, <2>9, Regroup
    <2>12. h \o y \in Seq(AllItems) /\ <<>> \o (h \o y) = h \o y /\ t \o y \in Seq(AllItems)
      <3>1. h \o y \in Seq(AllItems) /\ t \o y \in Seq(AllItems)
        BY <2>8, <2>9, Cat
      <3> QED
        BY <3>1, Cat
    <2>13. OutTail = h \o y
      BY <1>2, <1>x, <2>3, <2>10, <2>12
    <2>14. xBatch' \o (InBatches' \o chan'["out"]) = t \o y
      BY <2>2, <2>6 DEF y
    <2>15. OutTail = <<x>> \o (xBatch' \o (InBatches' \o chan'["out"]))
      BY <2>5, <2>11, <2>13, <2>14
    <2> QED
      BY <2>5, <2>7, <2>12, <2>14, <2>15
  <1>3. CASE /\ xBatch = <<>> /\ CanRecv(WrapFrom) /\ Take(WrapFrom) /\ ~Batched
             /\ Intercept(Head(chan[WrapFrom]), <<>>)
    <2> DEFINE x == Head(z)
               t == Tail(z)
    <2>1. WrapFrom = "out" /\ z # <<>>
      BY <1>3 DEF CanRecv
    <2>2. chan'["batch"] = chan["batch"] /\ chan'["out"] = t
      BY <1>3, <1>t, <2>1, TakeIs DEF Channels
    <2>3. chan["batch"] = <<>> /\ wOut = <<>> /\ wBuf = <<>>
      BY <1>3 DEF RouteInv, TaskInv
    <2>4. InBatches = <<>> /\ InBatches' = <<>>
      <3>1. FlattenSeq(chan["batch"]) = <<>>
        BY <2>3, Seqs, FlatIs
      <3>2. <<>> \o <<>> = <<>>
        BY Cat, <1>z
      <3>3. InBatches = <<>>
        BY <2>3, <3>1, <3>2 DEF InBatches
      <3> QED
        BY <1>u, <2>2, <3>3 DEF InBatches
    <2>5. x \in AllItems /\ t \in Seq(AllItems) /\ <<x>> \o t = z
      BY <1>z, <2>1, HeadOff
    <2>6. xBatch' = <<>>
      BY <1>3 DEF Intercept
    <2>7. \/ wrap' = "send" /\ xItem' = x /\ UNCHANGED skipOut
          \/ skipOut' = skipOut \cup {x} /\ UNCHANGED <<wrap, xItem>>
      BY <1>3, <2>1 DEF Intercept
    <2> HIDE DEF x, t, z
    <2>8. <<>> \o t = t /\ <<>> \o z = z
      BY <1>z, <2>5, Cat
    <2>9. xBatch' \o (InBatches' \o chan'["out"]) = t
      BY <2>2, <2>4, <2>6, <2>8
    <2>10. OutTail = z
      BY <1>3, <1>x, <2>4, <2>8
    <2> QED
      BY <2>5, <2>7, <2>9, <2>10
  <1> QED
    BY <1>1, <1>2, <1>3 DEF WrapTakes

LEMMA ItemWrap ==
    ASSUME TypeOK, ControlInv, ItemInv, WrapStep
    PROVE  ItemInv'
  <1>k. UNCHANGED call
    BY CallStays DEF Next
  <1> USE Kinds, SameCall, <1>k DEF ControlInv, ItemInv
  <1>t. ChanType
    BY DEF TypeOK
  <1>u. /\ UNCHANGED <<drainVars, writerVars, forwardVars, handlerVars>> /\ UNCHANGED userVars
        /\ wrap \in {"recv", "send"}
    BY DEF WrapStep, WrapTakes, WrapRejects, WrapSeesEnd, WrapSends
  <1>v. UNCHANGED <<consumed, dItem, fBatch, produced, skipIn, wOut, wBuf, accepted, got,
                      handler, hItem>>
    BY <1>u DEF drainVars, writerVars, forwardVars, handlerVars, userVars
  <1>h. HasOutput /\ Mode # "reduce" /\ WrapFrom \in {"batch", "out"} /\ wrap # "done"
    BY <1>u DEF TaskInv
  \* The input side does not see this task.
  <1>i. ASSUME \A d \in {"item", "mid"} : chan'[d] = chan[d] /\ (rxOpen'[d] <=> rxOpen[d])
        PROVE  InInv'
    <2>1. InFlow' = InFlow
      BY <1>v, <1>h, <1>i, InFlowSame
    <2> QED
      BY <1>v, <1>i, <2>1, InKeeps
  <1>1. CASE WrapEnds /\ UNCHANGED skipOut
    <2>1. \A d \in Channels : /\ rxOpen'[d] <=> rxOpen[d] /\ d # WrapFrom
                              /\ chan'[d] = IF d = WrapFrom THEN <<>> ELSE chan[d]
      BY <1>1, DropIs DEF WrapEnds
    <2>2. InInv'
      BY <1>h, <1>i, <2>1 DEF Channels
    <2>3. OutInv'
      <3>1. wrap' = "done" /\ chan'["caller"] = chan["caller"]
              /\ (rxOpen'["caller"] <=> rxOpen["caller"])
        BY <1>1, <1>h, <2>1 DEF WrapEnds, Channels
      <3> QED
        BY <1>1, <1>v, <3>1, OutKeeps
    <2>4. OrderInv'
      BY <1>1, <1>v, OrderKeeps
    <2> QED
      BY <2>2, <2>3, <2>4
  <1>p. PICK lost \in Seq(AllItems) : /\ rxOpen["caller"] => lost = chan["caller"]
                                      /\ OutFlow(lost) = Without(accepted, skipOut)
    BY <1>h DEF OutInv
  <1>2. CASE wrap = "send" /\ CanSend("caller") /\ Put("caller", xItem) /\ Ends
             /\ wrap' = "recv" /\ xItem' = NoItem /\ UNCHANGED <<xBatch, skipOut>>
    <2> DEFINE y == xBatch \o (InBatches \o chan["out"])
               m == Append(lost, xItem)
    <2>1. /\ chan'["caller"] = Append(chan["caller"], xItem) /\ rxOpen' = rxOpen
          /\ \A d \in Channels : d # "caller" => chan'[d] = chan[d]
      BY <1>2, <1>t, PutIs DEF Ends, Channels
    <2>2. lost = chan["caller"]
      BY <1>2, <1>p DEF CanSend
    <2>3. xItem \in AllItems /\ y \in Seq(AllItems)
      <3>1. xItem \in 0..Final /\ xItem # NoItem
        BY <1>2 DEF TypeOK, WrapType
      <3> QED
        BY <3>1, Flows, ItemsAreItems
    <2>4. OneIf(xItem) = <<xItem>> /\ OneIf(xItem)' = <<>>
      BY <1>2, <2>3, OneIfIs DEF OneIf
    <2>5. OutTail = <<xItem>> \o y
      BY <2>4 DEF OutTail
    <2>6. OutTail' = y
      <3>1. InBatches' = InBatches /\ chan'["out"] = chan["out"]
        BY <1>v, <2>1 DEF InBatches, Channels
      <3>2. OutTail' = <<>> \o y
        BY <1>2, <2>4, <3>1 DEF OutTail
      <3>3. <<>> \o y = y
        BY <2>3, Cat
      <3> QED
        BY <3>2, <3>3
    <2> HIDE DEF y
    <2>7. m \in Seq(AllItems) /\ m \o y = lost \o (<<xItem>> \o y)
      BY <2>3, AppendCat
    <2>8. got' \o (m \o OutTail') = Without(accepted', skipOut')
      BY <1>p, <1>v, <1>2, <2>5, <2>6, <2>7 DEF OutFlow
    <2>9. rxOpen'["caller"] => m = chan'["caller"]
      BY <2>1, <2>2
    <2> HIDE DEF m
    <2>10. OutInv'
      <3>1. HasOutput' /\ wrap' # "done"
        BY <1>2, <1>h
      <3> QED
        BY <2>7, <2>8, <2>9, <3>1 DEF OutInv, OutFlow
    <2>11. InInv'
      BY <1>i, <2>1 DEF Channels
    <2>12. OrderInv'
      BY <1>2, <1>v, OrderKeeps
    <2> QED
      BY <2>10, <2>11, <2>12
  <1>3. CASE WrapTakes
    <2> DEFINE R == xBatch' \o (InBatches' \o chan'["out"])
    <2>1. /\ wrap = "recv"
          /\ \A d \in Channels : d # WrapFrom => chan'[d] = chan[d]
             /\ (rxOpen'[d] <=> rxOpen[d])
      <3>1. CASE UNCHANGED chanVars
        BY <1>3, <3>1 DEF WrapTakes, chanVars
      <3>2. CASE Take(WrapFrom) /\ Ends
        BY <1>3, <1>t, <3>2, TakeIs, Ways DEF WrapTakes, Ends
      <3> QED
        BY <1>3, <3>1, <3>2 DEF WrapTakes
    <2>2. PICK x \in AllItems :
             /\ R \in Seq(AllItems)
             /\ OutTail = <<x>> \o R
             /\ \/ wrap' = "send" /\ xItem' = x /\ UNCHANGED skipOut
                \/ skipOut' = skipOut \cup {x} /\ UNCHANGED <<wrap, xItem>>
      BY <1>3, WrapHead
    <2>3. InInv'
      BY <1>h, <1>i, <2>1 DEF Channels
    <2>4. chan'["caller"] = chan["caller"] /\ (rxOpen'["caller"] <=> rxOpen["caller"])
      BY <1>h, <2>1 DEF Channels
    <2>5. HasOutput' /\ wrap' # "done"
      BY <1>h, <2>2
    <2>6. CASE wrap' = "send" /\ xItem' = x /\ UNCHANGED skipOut
      <3>1. OneIf(xItem)' = <<x>>
        <4>1. x # NoItem
          BY ItemsAreItems
        <4> QED
          BY <2>6, <4>1 DEF OneIf, NoItem
      <3>2. OutTail' = OutTail
        BY <2>2, <3>1 DEF OutTail
      <3>3. OutInv'
        BY <1>h, <1>v, <2>4, <2>6, <3>2, OutKeeps
      <3>4. OrderInv'
        BY <1>v, <2>6, OrderKeeps
      <3> QED
        BY <2>3, <3>3, <3>4
    <2>7. CASE skipOut' = skipOut \cup {x} /\ UNCHANGED <<wrap, xItem>>
      <3>1. OutTail' = R
        <4>1. OneIf(xItem)' = <<>>
          BY <2>1, <2>7 DEF OneIf, TaskInv, NoItem
        <4>2. OutTail' = <<>> \o R
          BY <4>1 DEF OutTail
        <4> HIDE DEF R
        <4>3. <<>> \o R = R
          BY <2>2, Cat
        <4> QED
          BY <4>2, <4>3
      <3> HIDE DEF R
      <3> DEFINE l == got \o lost
      <3>2. /\ got \in Seq(AllItems) /\ lost \in Seq(AllItems) /\ R \in Seq(AllItems)
            /\ <<x>> \in Seq(AllItems) /\ accepted \in Seq(AllItems)
        BY <1>p, <2>2, Seqs, One
      <3>3. l \in Seq(AllItems) /\ <<x>> \o R \in Seq(AllItems)
        BY <3>2, Cat
      <3> DEFINE y == <<x>> \o R
      <3>4. (got \o lost) \o R = got \o (lost \o R)
        BY ONLY <3>2, Regroup
      <3>5. l \o y = got \o (lost \o y)
        <4>1. y \in Seq(AllItems)
          BY <3>3
        <4> HIDE DEF y
        <4> QED
          BY <3>2, <4>1, Regroup
      <3>6. l \o (<<x>> \o R) = Without(accepted, skipOut)
        BY <1>p, <2>2, <3>5 DEF OutFlow
      <3> HIDE DEF l, y
      <3>7. l \o R = Without(accepted, skipOut \cup {x}) /\ Holds(accepted, x)
        BY <3>2, <3>3, <3>6, WithoutOne DEF OrderInv
      <3>8. got' \o (lost \o OutTail') = Without(accepted', skipOut')
        BY <1>v, <2>7, <3>1, <3>4, <3>7 DEF l
      <3>9. rxOpen'["caller"] => lost = chan'["caller"]
        BY <1>p, <2>4
      <3>10. OutInv'
        BY <2>5, <3>8, <3>9 DEF OutInv, OutFlow
      <3>11. OrderInv'
        BY <1>v, <2>7, <3>7 DEF OrderInv
      <3> QED
        BY <2>3, <3>10, <3>11
    <2> QED
      BY <2>2, <2>6, <2>7
  <1> QED
    BY <1>1, <1>2, <1>3 DEF WrapStep, WrapRejects, WrapSeesEnd, WrapSends

\* A handler that receives takes the oldest item, which is beyond all that it has seen.
LEMMA HandlerHead ==
    ASSUME TypeOK, ControlInv, InInv, HasInput, CanRecv("item"), Take("item"), Ends,
           consumed' = Append(consumed, Head(chan["item"])),
           UNCHANGED <<call, drainVars, writerVars, forwardVars>>
    PROVE  /\ InInv'
           /\ Head(chan["item"]) \in AllItems
           /\ \A y : Holds(consumed', y) <=> Holds(consumed, y) \/ y = Head(chan["item"])
           /\ \A y : Holds(consumed, y) => y < Head(chan["item"])
  <1> USE SameCall DEF ControlInv
  <1>t. ChanType
    BY DEF TypeOK
  <1> DEFINE q == chan["item"]
             x == Head(q)
             t == Tail(q)
             s == InTail
             r == q \o s
  <1>1. /\ chan'["item"] = t /\ rxOpen' = rxOpen /\ q # <<>>
        /\ \A d \in Channels : d # "item" => chan'[d] = chan[d]
    BY <1>t, TakeIs DEF Ends, CanRecv, Channels
  <1>2. UNCHANGED <<dItem, fBatch, produced, skipIn, wOut, wBuf>>
    BY DEF drainVars, writerVars, forwardVars
  <1>3. InTail' = s
    <2>1. Queued' = Queued /\ chan'["mid"] = chan["mid"]
      BY <1>1, <1>2 DEF Queued, InBatches, Channels
    <2>2. OneIf(dItem)' = OneIf(dItem)
      BY <1>2 DEF OneIf, NoItem
    <2> QED
      BY <1>2, <2>1, <2>2 DEF InTail
  <1>4. q \in Seq(AllItems) /\ s \in Seq(AllItems) /\ consumed \in Seq(AllItems)
    BY Seqs, Flows
  <1>5. rxOpen["item"]
    BY <1>1 DEF RouteInv, Channels
  <1>6. consumed \o r = PassedIn
    BY <1>5 DEF InInv, InFlow
  <1>7. InFlow' = Append(consumed, x) \o (t \o s)
    BY <1>1, <1>3 DEF InFlow
  <1>8. consumed' = Append(consumed, x)
    OBVIOUS
  <1> HIDE DEF q, s
  <1>9. x \in AllItems /\ t \in Seq(AllItems) /\ <<x>> \o t = q /\ <<x>> \in Seq(AllItems)
    BY <1>1, <1>4, HeadOff, One
  <1> HIDE DEF x, t
  <1>10. <<x>> \in Seq(AllItems) /\ t \in Seq(AllItems) /\ s \in Seq(AllItems)
    BY <1>4, <1>9
  <1> DEFINE y == t \o s
  <1>11. y \in Seq(AllItems)
    BY <1>10, Cat
  <1>12. (<<x>> \o t) \o s = <<x>> \o y
    BY ONLY <1>10, Regroup
  <1>13. r = <<x>> \o y
    BY <1>9, <1>12
  <1> HIDE DEF y
  <1>14. Append(consumed, x) \o y = consumed \o (<<x>> \o y)
    BY <1>4, <1>9, <1>11, AppendCat
  <1>15. InFlow' = InFlow
    <2>1. InFlow = PassedIn
      BY <1>5 DEF InInv
    <2> QED
      BY <1>6, <1>7, <1>13, <1>14, <2>1 DEF y
  <1>16. InInv'
    BY <1>1, <1>2, <1>5, <1>15, InKeeps
  <1>17. \A z : Holds(consumed', z) <=> Holds(consumed, z) \/ z = x
    <2>1. consumed' = consumed \o <<x>>
      BY <1>4, <1>8, <1>9, AppendCat
    <2>2. \A z : Holds(consumed \o <<x>>, z) <=> Holds(consumed, z) \/ Holds(<<x>>, z)
      BY ONLY <1>4, <1>9, HoldsConcat
    <2>3. \A z : Holds(<<x>>, z) <=> z = x
      BY ONLY <1>9, One
    <2> QED
      BY ONLY <2>1, <2>2, <2>3
  <1>18. \A z : Holds(consumed, z) => z < x
    <2>1. r \in Seq(AllItems)
      BY <1>4, Cat
    <2>2. Holds(r, x)
      <3>1. Holds(<<x>>, x)
        BY <1>9, One
      <3>2. Holds(<<x>> \o y, x)
        BY <1>9, <1>11, <3>1, HoldsConcat
      <3> QED
        BY <1>13, <3>2
    <2>3. Increasing(consumed \o r)
      BY <1>6, PassedInIs
    <2> HIDE DEF r
    <2> QED
      BY <1>4, <2>1, <2>2, <2>3, IncreasingConcat
  <1> QED
    BY <1>9, <1>16, <1>17, <1>18 DEF x, q

LEMMA ItemHandler ==
    ASSUME TypeOK, ControlInv, ItemInv, HandlerStep
    PROVE  ItemInv'
  <1>k. UNCHANGED call
    BY CallStays DEF Next
  <1> USE Kinds, SameCall, <1>k DEF ControlInv, ItemInv
  <1>t. ChanType
    BY DEF TypeOK
  <1>u. UNCHANGED <<drainVars, writerVars, forwardVars, wrapVars, userVars>>
    BY DEF HandlerStep, NeverDispatched, Dispatch, HandlerEmits, ReduceRecv, ReduceSeesEnd,
       TransformRecv, TransformComplete, CompleteEmits, HandlerSends, HandlerReturns,
       HandlerPanics, HandlerCancelled
  <1>v. UNCHANGED <<dItem, fBatch, produced, skipIn, wOut, wBuf, wrap, xItem, xBatch,
                      skipOut, got>>
    BY <1>u DEF drainVars, writerVars, forwardVars, wrapVars, userVars
  <1>n. produced \in 0..Items /\ Items \in Nat /\ Final = Items + 1
    BY StreamAssumption DEF TypeOK, DrainType, Final
  <1>a. accepted \in Seq(AllItems) /\ Len(accepted) \in Nat
        /\ \A x : Holds(accepted, x) => x \in AllItems /\ x \in Nat
    BY Seqs, ItemsAreNumbers DEF Holds
  \* The output side does not see what happens to the channel of the input.
  <1>o. ASSUME UNCHANGED accepted,
               \A d \in {"batch", "out", "caller"} : chan'[d] = chan[d]
                 /\ (rxOpen'[d] <=> rxOpen[d])
        PROVE  OutInv'
    <2>1. OutTail' = OutTail
      BY <1>o, <1>v, OutTailSame
    <2> QED
      BY <1>o, <1>v, <2>1, OutKeeps
  <1>g. ASSUME NEW answer, DispatchGone(answer), UNCHANGED <<consumed, accepted>> PROVE ItemInv'
    <2>1. \A d \in Channels : /\ rxOpen'[d] <=> rxOpen[d] /\ d # "item"
                              /\ chan'[d] = IF d = "item" THEN <<>> ELSE chan[d]
      BY <1>g, DropIs DEF DispatchGone
    <2>2. InInv'
      BY <1>g, <1>v, <2>1, InKeeps DEF Channels
    <2>3. OutInv'
      BY <1>g, <1>o, <2>1 DEF Channels
    <2>4. OrderInv'
      BY <1>g, <1>v DEF DispatchGone, OrderInv
    <2> QED
      BY <2>2, <2>3, <2>4
  <1>c. ASSUME UNCHANGED <<chanVars, consumed, accepted>> PROVE InInv' /\ OutInv'
    <2>1. InFlow' = InFlow
      BY <1>c, <1>v, InFlowSame DEF chanVars
    <2>2. InInv'
      BY <1>c, <1>v, <2>1, InKeeps DEF chanVars
    <2>3. OutInv'
      BY <1>c, <1>o DEF chanVars
    <2> QED
      BY <2>2, <2>3
  <1>1. CASE NeverDispatched
    BY <1>1, <1>g DEF NeverDispatched
  <1>2. CASE Dispatch
    <2>1. CASE cancelled
      BY <1>2, <1>g, <2>1 DEF Dispatch
    <2>2. CASE ~cancelled
      <3>1. OrderInv'
        BY <1>2, <1>v, <2>2 DEF Dispatch, OrderInv
      <3> QED
        BY <1>2, <1>c, <2>2, <3>1 DEF Dispatch
    <2> QED
      BY <2>1, <2>2
  <1>3. CASE HandlerEmits
    <2>1. Mode = "expand"
      BY <1>3 DEF HandlerEmits, TaskInv
    <2>2. \A x : Holds(accepted, x) => x < hItem'
      <3> SUFFICES ASSUME NEW x, Holds(accepted, x) PROVE x < hItem'
        OBVIOUS
      <3>1. PICK i \in 1..Len(accepted) : accepted[i] = x
        BY DEF Holds
      <3> DEFINE n == Len(accepted)
      <3>2. n \in 1..n /\ i \in Nat /\ i <= n /\ n \in Nat /\ accepted # <<>>
        BY <1>a, <3>1
      <3>3. accepted[n] \in Nat /\ accepted[i] \in Nat
        BY <1>a, <3>2, ItemsAreNumbers
      <3>4. accepted[i] <= accepted[n]
        <4>1. CASE i = n
          BY <3>3, <4>1
        <4>2. CASE i < n
          BY <3>2, <3>3, <4>2 DEF OrderInv, Increasing
        <4> QED
          BY <3>2, <4>1, <4>2
      <3>5. hItem' = accepted[n] + 1
        BY <1>3, <3>2 DEF HandlerEmits
      <3> QED
        BY <3>1, <3>3, <3>4, <3>5
    <2>3. OrderInv'
      BY <1>3, <1>v, <2>1, <2>2 DEF HandlerEmits, OrderInv
    <2> QED
      BY <1>3, <1>c, <2>3 DEF HandlerEmits
  <1>4. CASE ReduceRecv
    <2>1. InInv'
      BY <1>4, <1>u, HandlerHead DEF ReduceRecv
    <2>2. OutInv'
      <3>1. \A d \in Channels : d # "item" => chan'[d] = chan[d]
        BY <1>4, <1>t, TakeIs DEF ReduceRecv, Channels
      <3> QED
        BY <1>4, <1>o, <3>1 DEF ReduceRecv, Ends, Channels
    <2>3. OrderInv'
      BY <1>4, <1>v DEF ReduceRecv, OrderInv
    <2> QED
      BY <2>1, <2>2, <2>3
  <1>5. CASE ReduceSeesEnd \/ TransformComplete
    <2>1. OrderInv'
      BY <1>5, <1>v DEF ReduceSeesEnd, TransformComplete, OrderInv
    <2> QED
      BY <1>5, <1>c, <2>1 DEF ReduceSeesEnd, TransformComplete
  <1>6. CASE TransformRecv
    <2>1. CASE cancelled
      BY <1>6, <1>g, <2>1 DEF TransformRecv
    <2>2. CASE ~cancelled
      <3> DEFINE x == Head(chan["item"])
      <3>0. /\ Mode = "transform" /\ handler = "recv" /\ CanRecv("item") /\ Take("item") /\ Ends
            /\ consumed' = Append(consumed, x) /\ UNCHANGED accepted
            /\ UNCHANGED handler \/ (handler' = "send" /\ hItem' = x)
        BY <1>6, <2>2 DEF TransformRecv
      <3>1. /\ InInv' /\ x \in AllItems
            /\ \A y : Holds(consumed', y) <=> Holds(consumed, y) \/ y = x
            /\ \A y : Holds(consumed, y) => y < x
        BY <1>u, <3>0, HandlerHead
      <3>2. OutInv'
        <4>1. \A d \in Channels : d # "item" => chan'[d] = chan[d]
          BY <1>t, <3>0, TakeIs DEF Channels
        <4> QED
          BY <1>o, <3>0, <4>1 DEF Ends, Channels
      <3> HIDE DEF x
      <3>3. \A a : Holds(accepted, a) => \E y : Holds(consumed, y) /\ a <= y
        BY <3>0 DEF OrderInv
      <3>4. ASSUME NEW a, Holds(accepted, a) PROVE a < x /\ \E y : Holds(consumed', y) /\ a <= y
        <4>1. PICK y : Holds(consumed, y) /\ a <= y
          BY <3>3, <3>4
        <4>2. a \in Nat /\ y \in Nat /\ x \in Nat
          BY <1>a, <1>n, <3>1, <3>4, <4>1, ConsumedIs, ItemsAreNumbers
        <4>3. a < x
          BY <3>1, <4>1, <4>2
        <4> QED
          BY <3>1, <4>1, <4>3
      <3>5. OrderInv'
        BY <1>v, <3>0, <3>1, <3>4 DEF OrderInv
      <3> QED
        BY <3>1, <3>2, <3>5
    <2> QED
      BY <2>1, <2>2
  <1>7. CASE CompleteEmits
    <2>1. \A x : Holds(accepted, x) => x < Final
      <3> SUFFICES ASSUME NEW x, Holds(accepted, x) PROVE x < Final
        OBVIOUS
      <3>1. PICK y : Holds(consumed, y) /\ x <= y
        BY <1>7 DEF CompleteEmits, OrderInv, TaskInv
      <3>2. y \in 1..produced /\ x \in Nat
        BY <1>a, <3>1, ConsumedIs
      <3> QED
        BY <1>n, <3>1, <3>2
    <2>2. OrderInv'
      BY <1>7, <1>v, <2>1 DEF CompleteEmits, OrderInv
    <2> QED
      BY <1>7, <1>c, <2>2 DEF CompleteEmits
  <1>8. CASE /\ handler = "send" /\ UNCHANGED <<chanVars, consumed, accepted>>
             /\ Mode = "transform" /\ hItem # Final /\ handler' = "recv"
    <2>1. OrderInv'
      BY <1>8, <1>v DEF OrderInv
    <2> QED
      BY <1>8, <1>c, <2>1
  <1>9. CASE /\ handler = "send" /\ Put("out", hItem) /\ Ends /\ UNCHANGED consumed
             /\ accepted' = Append(accepted, hItem)
             /\ handler' = CASE Mode = "expand" -> "emit"
                             [] hItem = Final   -> "ended"
                             [] OTHER           -> "recv"
    <2> DEFINE passed == Without(accepted, skipOut)
               q == chan["out"]
               e == InBatches \o q
               f == xBatch \o e
    <2>1. /\ chan'["out"] = Append(q, hItem) /\ rxOpen' = rxOpen
          /\ \A d \in Channels : d # "out" => chan'[d] = chan[d]
      BY <1>9, <1>t, PutIs DEF Ends, Channels
    <2>2. InInv'
      <3>1. InFlow' = InFlow
        BY <1>9, <1>v, <2>1, InFlowSame DEF Channels
      <3> QED
        BY <1>9, <1>v, <2>1, <3>1, InKeeps
    <2>3. hItem \in AllItems /\ hItem \in Nat
      <3>1. hItem \in 0..Final /\ hItem # NoItem
        BY <1>9 DEF TypeOK, HandlerType
      <3> QED
        BY <3>1, ItemsAreItems, ItemsAreNumbers
    <2>4. \A x : Holds(accepted, x) => x < hItem
      BY <1>9 DEF OrderInv
    <2>5. hItem \notin skipOut
      BY <2>3, <2>4 DEF OrderInv
    <2>6. /\ Increasing(accepted') /\ Without(accepted', skipOut') = Append(passed, hItem)
          /\ passed \in Seq(AllItems)
      BY <1>9, <1>a, <1>v, <2>3, <2>4, <2>5, WithoutAppend, WithoutIs DEF OrderInv
    <2>7. \A x : Holds(accepted', x) <=> Holds(accepted, x) \/ x = hItem
      <3>1. accepted' = accepted \o <<hItem>>
        BY <1>9, <1>a, <2>3, AppendCat
      <3> QED
        BY <1>a, <2>3, <3>1, One, HoldsConcat
    <2>8. OrderInv'
      <3>1. \A x \in skipOut' : Holds(accepted', x)
        BY <1>v, <2>7 DEF OrderInv
      <3>2. handler' # "send"
        BY <1>9
      <3>3. Mode = "transform" /\ handler' \notin {"ended", "done"} => hItem # Final
        BY <1>9
      <3>4. ASSUME Mode = "transform", hItem # Final, NEW x, Holds(accepted', x)
            PROVE  \E y : Holds(consumed', y) /\ x <= y
        <4>1. CASE x = hItem
          BY <1>9, <2>3, <3>4, <4>1 DEF OrderInv
        <4>2. CASE Holds(accepted, x)
          BY <1>9, <3>4, <4>2 DEF OrderInv
        <4> QED
          BY <2>7, <3>4, <4>1, <4>2
      <3> QED
        BY <2>6, <3>1, <3>2, <3>3, <3>4 DEF OrderInv
    <2>9. CASE HasOutput /\ wrap # "done"
      <3>1. PICK lost \in Seq(AllItems) : /\ rxOpen["caller"] => lost = chan["caller"]
                                          /\ OutFlow(lost) = passed
        BY <2>9 DEF OutInv
      <3>t. /\ hItem \in AllItems /\ lost \in Seq(AllItems)
            /\ q \in Seq(AllItems) /\ InBatches \in Seq(AllItems) /\ e \in Seq(AllItems)
            /\ xBatch \in Seq(AllItems) /\ f \in Seq(AllItems) /\ OneIf(xItem) \in Seq(AllItems)
            /\ OutTail \in Seq(AllItems) /\ got \in Seq(AllItems)
        BY <2>3, <3>1, Seqs, Flows
      <3>3. OneIf(xItem)' = OneIf(xItem) /\ InBatches' = InBatches
        BY <1>v, <2>1 DEF OneIf, NoItem, InBatches, Channels
      <3> HIDE DEF q
      <3> DEFINE g == lost \o OutTail
      <3>4. g \in Seq(AllItems)
        BY <3>t, Cat
      <3>5. got \o g = passed
        BY <3>1 DEF OutFlow
      <3>6. OutTail = OneIf(xItem) \o f
        BY DEF OutTail, q
      <3> HIDE DEF e, f, g
      <3>7. /\ EndMoves(InBatches, q, hItem) /\ EndMoves(xBatch, e, hItem)
            /\ EndMoves(OneIf(xItem), f, hItem)
        BY ONLY <3>t, EndMoved
      <3>8. EndMoves(lost, OutTail, hItem) /\ EndMoves(got, g, hItem)
        BY ONLY <3>t, <3>4, EndMoved
      <3>9. xBatch \o (InBatches \o Append(q, hItem)) = Append(f, hItem)
        BY <3>7 DEF EndMoves, e, f
      <3>10. OutTail' = Append(OutTail, hItem)
        BY <1>v, <2>1, <3>3, <3>6, <3>7, <3>9 DEF OutTail, EndMoves
      <3>11. got \o (lost \o Append(OutTail, hItem)) = Append(passed, hItem)
        BY <3>5, <3>8 DEF EndMoves, g
      <3>12. got' \o (lost \o OutTail') = Without(accepted', skipOut')
        BY <1>v, <2>6, <3>10, <3>11
      <3>13. rxOpen'["caller"] => lost = chan'["caller"]
        BY <2>1, <3>1 DEF Channels
      <3>14. OutInv'
        BY <1>v, <2>9, <3>12, <3>13 DEF OutInv, OutFlow
      <3> QED
        BY <2>2, <2>8, <3>14
    <2>10. CASE ~(HasOutput /\ wrap # "done")
      <3> DEFINE r == got \o chan["caller"]
      <3>1. IsPrefix(r, passed)
        BY <2>10 DEF OutInv
      <3>2. r \in Seq(AllItems)
        BY Seqs, Cat
      <3>3. got' \o chan'["caller"] = r
        BY <1>v, <2>1 DEF Channels
      <3> HIDE DEF r, passed
      <3>4. IsPrefix(r, Append(passed, hItem))
        BY <2>3, <2>6, <3>1, <3>2, PrefixAppend
      <3>5. OutInv'
        BY <1>v, <2>6, <2>10, <3>3, <3>4 DEF OutInv
      <3> QED
        BY <2>2, <2>8, <3>5
    <2> QED
      BY <2>9, <2>10
  <1>10. CASE HandlerSends
    <2>1. CASE DispatchGone("closed") /\ UNCHANGED accepted
      BY <1>10, <1>g, <2>1 DEF HandlerSends
    <2> QED
      BY <1>8, <1>9, <1>10, <2>1 DEF HandlerSends
  <1>11. CASE HandlerReturns \/ HandlerPanics \/ HandlerCancelled
    BY <1>11, <1>g DEF HandlerReturns, HandlerPanics, HandlerCancelled
  <1> QED
    BY <1>1, <1>2, <1>3, <1>4, <1>5, <1>6, <1>7, <1>10, <1>11 DEF HandlerStep

LEMMA ItemNext ==
    ASSUME TypeOK, TypeOK', ControlInv, ItemInv, [Next]_vars
    PROVE  ItemInv'
  <1>1. CASE UNCHANGED vars
    <2>1. /\ UNCHANGED <<chan, rxOpen, call, consumed, produced, skipIn, accepted, skipOut,
                        got, wrap>>
          /\ UNCHANGED <<handler, hItem, fBatch, wOut, wBuf, dItem, xItem, xBatch>>
      BY <1>1 DEF vars, chanVars, drainVars, writerVars, forwardVars, wrapVars, handlerVars,
         userVars
    <2>2. InFlow' = InFlow /\ OutTail' = OutTail
      BY <2>1, InFlowSame, OutTailSame
    <2>3. InInv'
      BY <2>1, <2>2, InKeeps DEF ItemInv
    <2>4. OutInv'
      BY <2>1, <2>2, OutKeeps DEF ItemInv, ControlInv
    <2>5. OrderInv'
      BY <2>1, OrderKeeps DEF ItemInv
    <2> QED
      BY <2>3, <2>4, <2>5 DEF ItemInv
  <1> QED
    BY <1>1, ItemUser, ItemDrain, ItemWriter, ItemForward, ItemWrap, ItemHandler DEF Next

Moves(a, b, c) == (a \o b) \o c = a \o (b \o c)

LEMMA Moved ==
    ASSUME NEW a \in Seq(AllItems), NEW b \in Seq(AllItems), NEW c \in Seq(AllItems)
    PROVE  Moves(a, b, c)
  BY Regroup DEF Moves

\* The parts of a flow, grouped from the right as in InFlow and OutFlow, are the same
\* when they are grouped from the left.
Groups(o, a, b, c, d, e) ==
    o \o (a \o (b \o (c \o (d \o e)))) = ((((o \o a) \o b) \o c) \o d) \o e

LEMMA RegroupSix ==
    ASSUME NEW o \in Seq(AllItems), NEW a \in Seq(AllItems), NEW b \in Seq(AllItems),
           NEW c \in Seq(AllItems), NEW d \in Seq(AllItems), NEW e \in Seq(AllItems)
    PROVE  Groups(o, a, b, c, d, e)
  <1> DEFINE p == d \o e
  <1>1. p \in Seq(AllItems)
    BY Cat
  <1> DEFINE k == o \o a
  <1>2. k \in Seq(AllItems)
    BY Cat
  <1> DEFINE q == c \o p
             l == k \o b
  <1>3. q \in Seq(AllItems)
    <2> HIDE DEF p
    <2> QED
      BY <1>1, Cat
  <1>4. l \in Seq(AllItems)
    <2> HIDE DEF k
    <2> QED
      BY <1>2, Cat
  <1> DEFINE r == b \o q
             m == l \o c
  <1>5. r \in Seq(AllItems)
    <2> HIDE DEF q
    <2> QED
      BY <1>3, Cat
  <1>6. m \in Seq(AllItems)
    <2> HIDE DEF l
    <2> QED
      BY <1>4, Cat
  <1> HIDE DEF k, l, m, p, q, r
  <1>7. /\ Moves(m, d, e) /\ Moves(l, c, p) /\ Moves(k, b, q) /\ Moves(o, a, r)
    BY <1>1, <1>2, <1>3, <1>4, <1>5, <1>6, Moved
  <1>8. m \o p = (m \o d) \o e /\ l \o q = m \o p
    BY <1>7 DEF Moves, p, q, m
  <1>9. k \o r = l \o q /\ o \o (a \o r) = k \o r
    BY <1>7 DEF Moves, l, r, k
  <1>10. o \o (a \o r) = (m \o d) \o e
    BY <1>8, <1>9
  <1> QED
    BY <1>10 DEF Groups, k, l, m, p, q, r

LEMMA ItemInvConserves ==
    ASSUME TypeOK, ControlInv, ItemInv
    PROVE  ItemsConserved
  <1> USE DEF ItemInv, ControlInv
  <1>1. InputConserved
    <2>1. CASE HasInput /\ rxOpen["item"]
      <3> DEFINE a == chan["item"]
                 b == fBatch
                 c == Queued
                 d == chan["mid"]
                 e == OneIf(dItem)
      <3>1. /\ consumed \in Seq(AllItems) /\ a \in Seq(AllItems) /\ b \in Seq(AllItems)
            /\ c \in Seq(AllItems) /\ d \in Seq(AllItems) /\ e \in Seq(AllItems)
        BY Seqs, Flows
      <3>2. consumed \o (a \o (b \o (c \o (d \o e)))) = PassedIn
        BY <2>1 DEF InInv, InFlow, InTail
      <3> HIDE DEF a, b, c, d, e
      <3>3. Groups(consumed, a, b, c, d, e)
        BY ONLY <3>1, RegroupSix
      <3>4. ((((consumed \o a) \o b) \o c) \o d) \o e = PassedIn
        BY <3>2, <3>3 DEF Groups
      <3> QED
        BY <2>1, <3>4 DEF InputConserved, PassedIn, Input, Queued, a, b, c, d, e
    <2>2. CASE ~(HasInput /\ rxOpen["item"])
      BY <2>2 DEF InInv, InputConserved, PassedIn, Input
    <2> QED
      BY <2>1, <2>2
  <1>2. OutputConserved
    <2>1. CASE HasOutput /\ rxOpen["caller"] /\ wrap # "done"
      <3> DEFINE w == Without(accepted, skipOut)
                 a == chan["caller"]
                 b == OneIf(xItem)
                 c == xBatch
                 d == InBatches
                 e == chan["out"]
      <3>1. /\ got \in Seq(AllItems) /\ a \in Seq(AllItems) /\ b \in Seq(AllItems)
            /\ c \in Seq(AllItems) /\ d \in Seq(AllItems) /\ e \in Seq(AllItems)
        BY Seqs, Flows
      <3>2. got \o (a \o (b \o (c \o (d \o e)))) = w
        BY <2>1 DEF OutInv, OutFlow, OutTail
      <3> HIDE DEF w, a, b, c, d, e
      <3>3. Groups(got, a, b, c, d, e)
        BY ONLY <3>1, RegroupSix
      <3>4. ((((got \o a) \o b) \o c) \o d) \o e = w
        BY <3>2, <3>3 DEF Groups
      <3> QED
        BY <2>1, <3>4 DEF OutputConserved, w, a, b, c, d, e
    <2>2. CASE ~(HasOutput /\ rxOpen["caller"] /\ wrap # "done")
      <3>1. IsPrefix(got \o chan["caller"], Without(accepted, skipOut))
        BY ReadIsPrefix
      <3> QED
        BY <2>2, <3>1 DEF OutputConserved
    <2> QED
      BY <2>1, <2>2
  <1> QED
    BY <1>1, <1>2 DEF ItemsConserved

\* ItemsConserved holds in every state: whatever the order in which the input, the
\* writer, the interceptors, the handler and the caller run, stop, panic or are cancelled,
\* no item is lost, duplicated or overtaken on its way to the handler or from it
\* (runtime_support.rs: the drain, forward and wrapping tasks; stream.rs: BatchWriter and
\* BatchReader).
THEOREM ItemsStayConserved == Spec => []ItemsConserved
  <1> DEFINE I == TypeOK /\ ControlInv /\ ItemInv
  <1>1. Init => I
    BY InitType, ControlInit, ItemInit
  <1>2. I /\ [Next]_vars => I'
    <2> SUFFICES ASSUME TypeOK, ControlInv, ItemInv, [Next]_vars PROVE I'
      OBVIOUS
    <2>1. TypeOK' /\ ControlInv'
      BY NextType, ControlNext
    <2> QED
      BY <2>1, ItemNext
  <1>3. I => ItemsConserved
    BY ItemInvConserves
  <1> HIDE DEF I
  <1> QED
    BY <1>1, <1>2, <1>3, PTL DEF Spec
=============================================================================
