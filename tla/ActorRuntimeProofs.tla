------------------------- MODULE ActorRuntimeProofs -------------------------
(***************************************************************************)
(* Theorems about ActorRuntime, for any number of actors, names and        *)
(* messages and any mailbox capacities.                                    *)
(***************************************************************************)
EXTENDS ActorRuntime, TLAPS

-----------------------------------------------------------------------------
(***************************************************************************)
(* Type correctness.                                                       *)
(***************************************************************************)

\* A group of variables that a step leaves alone keeps its type.
LEMMA Unchanged ==
    /\ TaskType /\ UNCHANGED taskVars => TaskType'
    /\ RefType /\ UNCHANGED refVars => RefType'
    /\ StopType /\ UNCHANGED stopVars => StopType'
    /\ MsgType /\ UNCHANGED msgVars => MsgType'
  <1>1. TaskType /\ UNCHANGED taskVars => TaskType'
    BY DEF TaskType, taskVars
  <1>2. RefType /\ UNCHANGED refVars => RefType'
    BY DEF RefType, refVars
  <1>3. StopType /\ UNCHANGED stopVars => StopType'
    BY DEF StopType, stopVars
  <1>4. MsgType /\ UNCHANGED msgVars => MsgType'
    BY DEF MsgType, msgVars
  <1> QED
    BY <1>1, <1>2, <1>3, <1>4

\* An item put into a mailbox that is not full keeps its capacity.
LEMMA MailboxAppend ==
    ASSUME TaskType, NEW a \in Actors, ~IsFull(a), NEW i \in Items,
           mailbox' = [mailbox EXCEPT ![a] = Append(@, i)],
           UNCHANGED <<phase, alive, cur>>
    PROVE  TaskType'
  <1>0. mailbox[a] \in Seq(Items) /\ Capacity[a] \in Nat
    BY ConstantsAssumption DEF TaskType
  <1>1. Append(mailbox[a], i) \in Seq(Items) /\ Len(Append(mailbox[a], i)) = Len(mailbox[a]) + 1
    BY <1>0
  <1>2. Len(mailbox[a]) \in Nat
    BY <1>0
  <1>3. Capacity[a] > 0 => Len(Append(mailbox[a], i)) <= Capacity[a]
    BY <1>0, <1>1, <1>2 DEF IsFull
  <1> QED
    BY <1>1, <1>3 DEF TaskType

\* The head of a mailbox is an item, and taking it away keeps the types.
LEMMA MailboxTake ==
    ASSUME TaskType, NEW a \in Actors, mailbox[a] # <<>>
    PROVE  /\ Head(mailbox[a]) \in Items
           /\ Tail(mailbox[a]) \in Seq(Items)
           /\ Capacity[a] > 0 => Len(Tail(mailbox[a])) <= Capacity[a]
  <1>1. mailbox[a] \in Seq(Items) /\ Capacity[a] \in Nat
    BY ConstantsAssumption DEF TaskType
  <1>2. Head(mailbox[a]) \in Items /\ Tail(mailbox[a]) \in Seq(Items)
        /\ Len(Tail(mailbox[a])) = Len(mailbox[a]) - 1 /\ Len(mailbox[a]) \in Nat
    BY <1>1
  <1> QED
    BY <1>1, <1>2 DEF TaskType

\* Resolving a reply channel keeps the type of replies.
LEMMA ResolveType ==
    ASSUME MsgType, NEW i, NEW r \in Replies
    PROVE  Resolve(i, r) \in [Asks -> Replies]
  BY DEF MsgType, Resolve

LEMMA InitType == Init => TypeOK
  <1> SUFFICES ASSUME Init PROVE TypeOK
    OBVIOUS
  <1>1. TaskType
    BY ConstantsAssumption DEF Init, TaskType, Phases, Items
  <1>2. RefType
    BY DEF Init, RefType
  <1>3. StopType
    BY DEF Init, StopType, NoEntries
  <1>4. MsgType
    BY DEF Init, MsgType, Msgs, Fates, Replies
  <1> QED
    BY <1>1, <1>2, <1>3, <1>4 DEF TypeOK

\* The operations of the user side keep the types.
LEMMA UserStepType == TypeOK /\ UserStep => TypeOK'
  <1> SUFFICES ASSUME TypeOK, UserStep PROVE TypeOK'
    OBVIOUS
  <1> USE Unchanged DEF TypeOK
  <1>1. ASSUME NEW a \in Actors, NEW n \in Names, NEW o \in Strategies \cup {None}, Spawn(a, n, o)
        PROVE  TypeOK'
    <2>1. TaskType'
      BY <1>1 DEF Spawn, TaskType, Phases
    <2>2. RefType'
      BY <1>1 DEF Spawn, RefType
    <2>3. StopType'
      BY <1>1 DEF Spawn, StopType
    <2> QED
      BY <1>1, <2>1, <2>2, <2>3 DEF Spawn
  <1>2. ASSUME NEW a \in Actors, NEW m \in Msgs, OutboundStop(a, m)
        PROVE  TypeOK'
    <2>1. MsgType'
      BY <1>2, ResolveType DEF OutboundStop, MsgType, Fates, Replies
    <2> QED
      BY <1>2, <2>1 DEF OutboundStop
  <1>3. ASSUME NEW a \in Actors, NEW m \in Msgs, Send(a, m)
        PROVE  TypeOK'
    <2>1. TaskType'
      <3>1. CASE SendResult(a) = "ok"
        <4>1. m \in Items /\ ~IsFull(a)
          BY <3>1 DEF Items, SendResult
        <4> QED
          BY <1>3, <3>1, <4>1, MailboxAppend DEF Send
      <3>2. CASE SendResult(a) # "ok"
        BY <1>3, <3>2 DEF Send, taskVars
      <3> QED
        BY <3>1, <3>2
    <2>2. fate' \in [Msgs -> Fates]
      BY <1>3 DEF Send, MsgType, Fates
    <2>3. reply' \in [Asks -> Replies]
      <3>1. "waiting" \in Replies /\ "closed" \in Replies
        BY DEF Replies
      <3>2. reply' \in {reply, Resolve(m, "waiting"), Resolve(m, "closed")}
        BY <1>3 DEF Send
      <3> QED
        BY <3>1, <3>2, ResolveType DEF MsgType
    <2>4. MsgType'
      BY <1>3, <2>2, <2>3 DEF Send, MsgType
    <2> QED
      BY <1>3, <2>1, <2>4 DEF Send
  <1>4. ASSUME NEW m \in Msgs, Cancel(m)
        PROVE  TypeOK'
    <2>1. MsgType'
      BY <1>4, ConstantsAssumption DEF Cancel, MsgType
    <2> QED
      BY <1>4, <2>1 DEF Cancel
  <1>5. ASSUME NEW a \in Actors, Stop(a)
        PROVE  TypeOK'
    <2>2. TaskType'
      <3>1. CASE IsClosed(a) \/ IsFull(a)
        BY <1>5, <3>1 DEF Stop, TaskType
      <3>2. CASE ~(IsClosed(a) \/ IsFull(a))
        <4>1. None \in Items
          BY DEF Items
        <4>2. Append(mailbox[a], None) \in Seq(Items)
              /\ Len(Append(mailbox[a], None)) = Len(mailbox[a]) + 1
          BY <4>1 DEF TaskType
        <4>3. Capacity[a] > 0 => Len(Append(mailbox[a], None)) <= Capacity[a]
          BY <3>2, <4>2, ConstantsAssumption DEF IsFull, TaskType
        <4> QED
          BY <1>5, <3>2, <4>2, <4>3 DEF Stop, TaskType
      <3> QED
        BY <3>1, <3>2
    <2>3. stopCalls' \in [Actors -> Nat]
      BY <1>5 DEF Stop, StopType
    <2>4. StopType'
      BY <1>5, <2>3 DEF Stop, StopType
    <2> QED
      BY <1>5, <2>2, <2>4 DEF Stop
  <1>6. ASSUME NEW a \in Actors, DropRefs(a)
        PROVE  TypeOK'
    BY <1>6 DEF DropRefs, RefType
  <1>7. ASSUME NEW n \in Names, Lookup(n)
        PROVE  TypeOK'
    BY <1>7 DEF Lookup, RefType
  <1>8. ASSUME NEW n \in Names, Unregister(n)
        PROVE  TypeOK'
    BY <1>8 DEF Unregister, RefType
  <1>9. ASSUME NEW w \in Actors, NEW t \in Actors, Watch(w, t)
        PROVE  TypeOK'
    <2>1. watchers' \in [Actors -> [Actors -> Nat]]
      BY <1>9 DEF Watch, StopType
    <2>2. owed' \subseteq Actors \X Actors
      BY <1>9 DEF Watch, StopType
    <2>3. StopType'
      BY <1>9, <2>1, <2>2 DEF Watch, StopType
    <2> QED
      BY <1>9, <2>3 DEF Watch
  <1>10. ASSUME NEW w \in Actors, NEW t \in Actors, Unwatch(w, t)
        PROVE  TypeOK'
    <2>1. watchers' \in [Actors -> [Actors -> Nat]]
      BY <1>10 DEF Unwatch, StopType
    <2>2. StopType'
      BY <1>10, <2>1 DEF Unwatch, StopType
    <2> QED
      BY <1>10, <2>2 DEF Unwatch
  <1>11. ASSUME NEW a \in Actors, AwaitStop(a) \/ AwaitReturns(a)
        PROVE  TypeOK'
    <2>1. StopType'
      BY <1>11 DEF AwaitStop, AwaitReturns, StopType
    <2> QED
      BY <1>11, <2>1 DEF AwaitStop, AwaitReturns
  <1>12. CASE AwaitAll
    <2>1. StopType'
      BY <1>12 DEF AwaitAll, StopType
    <2> QED
      BY <1>12, <2>1 DEF AwaitAll
  <1>13. CASE CleanupFinished
    <2>1. StopType'
      BY <1>13 DEF CleanupFinished, StopType
    <2> QED
      BY <1>13, <2>1 DEF CleanupFinished
  <1> QED
    BY <1>1, <1>2, <1>3, <1>4, <1>5, <1>6, <1>7, <1>8, <1>9, <1>10, <1>11, <1>12, <1>13
    DEF UserStep

\* Dropping a mailbox keeps the types.
LEMMA DropMailboxType ==
    ASSUME TypeOK, NEW a \in Actors, DropMailbox(a)
    PROVE  /\ mailbox' \in [Actors -> Seq(Items)]
           /\ \A b \in Actors : Capacity[b] > 0 => Len(mailbox'[b]) <= Capacity[b]
           /\ fate' \in [Msgs -> Fates]
           /\ reply' \in [Asks -> Replies]
  <1>1. <<>> \in Seq(Items)
    OBVIOUS
  <1>2. mailbox' \in [Actors -> Seq(Items)]
    BY <1>1 DEF DropMailbox, TypeOK, TaskType
  <1>5. ASSUME NEW b \in Actors, Capacity[b] > 0
        PROVE  Len(mailbox'[b]) <= Capacity[b]
    <2>1. b # a => mailbox'[b] = mailbox[b]
      BY DEF DropMailbox, TypeOK, TaskType
    <2>2. mailbox'[a] = <<>>
      BY DEF DropMailbox, TypeOK, TaskType
    <2>3. Capacity[b] \in Nat
      BY ConstantsAssumption
    <2> QED
      BY <1>5, <2>1, <2>2, <2>3 DEF TypeOK, TaskType
  <1>3. fate' \in [Msgs -> Fates]
    BY DEF DropMailbox, TypeOK, MsgType, Fates
  <1>4. reply' \in [Asks -> Replies]
    BY DEF DropMailbox, TypeOK, MsgType, Replies
  <1> QED
    BY <1>2, <1>3, <1>4, <1>5

\* So does finishing the item in hand.
LEMMA FinishType ==
    ASSUME TypeOK, NEW a \in Actors, NEW f \in Fates, Finish(a, f)
    PROVE  cur' \in [Actors -> Items] /\ fate' \in [Msgs -> Fates]
  <1>1. cur' \in [Actors -> Items]
    BY DEF Finish, TypeOK, TaskType, Items
  <1>2. fate' \in [Msgs -> Fates]
    BY DEF Finish, TypeOK, MsgType
  <1> QED
    BY <1>1, <1>2

\* And counting a completion.
LEMMA OnCompleteType ==
    ASSUME TypeOK, NEW i
    PROVE  OnComplete(i) \in [Msgs -> Nat]
  BY DEF OnComplete, TypeOK, MsgType

\* The steps of a task keep the types.
LEMMA TaskStepType ==
    ASSUME TypeOK, NEW a \in Actors, TaskStep(a)
    PROVE  TypeOK'
  <1> USE Unchanged DEF TypeOK
  <1>1. CASE StartOk(a)
    BY <1>1 DEF StartOk, TaskType, Phases
  <1>2. CASE TaskUnwinds(a)
    <2>1. TaskType'
      BY <1>2, DropMailboxType DEF TaskUnwinds, TaskType, Phases
    <2>2. MsgType'
      BY <1>2, DropMailboxType DEF TaskUnwinds, MsgType
    <2> QED
      BY <1>2, <2>1, <2>2 DEF TaskUnwinds
  <1>3. CASE ReceiveStop(a)
    <2>1. TaskType'
      <3>1. CASE mailbox[a] # <<>>
        BY <1>3, <3>1, MailboxTake DEF ReceiveStop, LeaveLoop, TaskType, Phases
      <3>2. CASE mailbox[a] = <<>>
        BY <1>3, <3>2 DEF ReceiveStop, LeaveLoop, TaskType, Phases
      <3> QED
        BY <3>1, <3>2
    <2> QED
      BY <1>3, <2>1 DEF ReceiveStop
  <1>4. CASE Reject(a)
    <2>1. TaskType'
      BY <1>4, MailboxTake DEF Reject, TaskType
    <2>2. fate' \in [Msgs -> Fates]
      BY <1>4 DEF Reject, MsgType, Fates
    <2>3. MsgType'
      BY <1>4, <2>2, ResolveType DEF Reject, MsgType, Replies
    <2> QED
      BY <1>4, <2>1, <2>3 DEF Reject
  <1>5. CASE Admit(a)
    <2>1. TaskType'
      BY <1>5, MailboxTake DEF Admit, TaskType, Phases
    <2>2. MsgType'
      BY <1>5 DEF Admit, MsgType, Fates
    <2> QED
      BY <1>5, <2>1, <2>2 DEF Admit
  <1>6. CASE Dispatch(a)
    <2>1. "cancelled" \in Fates /\ "cancelled" \in Replies
      BY DEF Fates, Replies
    <2>2. cur' \in [Actors -> Items] /\ fate' \in [Msgs -> Fates]
      BY <1>6, <2>1, FinishType DEF Dispatch, TaskType, MsgType
    <2>3. TaskType'
      BY <1>6, <2>2 DEF Dispatch, TaskType, Phases
    <2>4. MsgType'
      BY <1>6, <2>1, <2>2, ResolveType DEF Dispatch, MsgType
    <2> QED
      BY <1>6, <2>3, <2>4 DEF Dispatch
  <1>7. CASE AbortHandler(a)
    <2>1. "aborted" \in Fates /\ "closed" \in Replies
      BY DEF Fates, Replies
    <2>2. TaskType'
      BY <1>7, <2>1, FinishType DEF AbortHandler, TaskType, Phases
    <2>3. MsgType'
      BY <1>7, <2>1, FinishType, ResolveType DEF AbortHandler, MsgType
    <2> QED
      BY <1>7, <2>2, <2>3 DEF AbortHandler
  <1>8. CASE HandlerReturns(a)
    <2>1. TaskType'
      BY <1>8 DEF HandlerReturns, TaskType, Phases
    <2>2. MsgType'
      BY <1>8, OnCompleteType DEF HandlerReturns, MsgType
    <2> QED
      BY <1>8, <2>1, <2>2 DEF HandlerReturns
  <1>9. CASE SendReply(a)
    <2>1. "handled" \in Fates /\ "ok" \in Replies
      BY DEF Fates, Replies
    <2>2. TaskType'
      BY <1>9, <2>1, FinishType DEF SendReply, TaskType, Phases
    <2>3. MsgType'
      BY <1>9, <2>1, FinishType, ResolveType DEF SendReply, MsgType
    <2> QED
      BY <1>9, <2>2, <2>3 DEF SendReply
  <1>10. CASE HandlerPanics(a)
    <2>1. TaskType'
      BY <1>10 DEF HandlerPanics, TaskType, Phases
    <2>2. MsgType'
      BY <1>10, ResolveType DEF HandlerPanics, MsgType, Replies
    <2> QED
      BY <1>10, <2>1, <2>2 DEF HandlerPanics
  <1>11. CASE OnError(a)
    <2>1. "panicked" \in Fates
      BY DEF Fates
    <2>2. TaskType'
      BY <1>11, <2>1, FinishType DEF OnError, LeaveLoop, TaskType, Phases
    <2>3. MsgType'
      BY <1>11, <2>1, FinishType, OnCompleteType DEF OnError, MsgType
    <2> QED
      BY <1>11, <2>2, <2>3 DEF OnError
  <1>16. CASE HookPanics(a)
    <2>1. "panicked" \in Fates /\ "closed" \in Replies
      BY DEF Fates, Replies
    <2>2. TaskType'
      BY <1>16, <2>1, FinishType DEF HookPanics, TaskType, Phases
    <2>3. MsgType'
      BY <1>16, <2>1, FinishType, ResolveType DEF HookPanics, MsgType
    <2> QED
      BY <1>16, <2>2, <2>3 DEF HookPanics
  <1>12. CASE RunOnStop(a)
    <2>1. TaskType'
      BY <1>12 DEF RunOnStop, TaskType, Phases
    <2>2. StopType'
      BY <1>12 DEF RunOnStop, StopType, NoEntries
    <2> QED
      BY <1>12, <2>1, <2>2 DEF RunOnStop
  <1>13. ASSUME NEW w \in Actors, NotifyWatcher(a, w)
         PROVE  TypeOK'
    <2>1. TaskType'
      <3>1. CASE SendResult(w) = "ok"
        <4>1. a \in Items /\ ~IsFull(w)
          BY <3>1 DEF Items, SendResult
        <4> QED
          BY <1>13, <3>1, <4>1, MailboxAppend DEF NotifyWatcher
      <3>2. CASE SendResult(w) # "ok"
        BY <1>13, <3>2 DEF NotifyWatcher, taskVars
      <3> QED
        BY <3>1, <3>2
    <2>2. due' \in [Actors -> [Actors -> Nat]]
      <3>1. due \in [Actors -> [Actors -> Nat]] /\ due[a][w] > 0
        BY <1>13 DEF NotifyWatcher, StopType
      <3>2. due[a] \in [Actors -> Nat] /\ due[a][w] - 1 \in Nat
        BY <3>1
      <3>3. [due[a] EXCEPT ![w] = @ - 1] \in [Actors -> Nat]
        BY <3>2
      <3> QED
        BY <1>13, <3>1, <3>3 DEF NotifyWatcher
    <2>3. told' \subseteq Actors \X Actors
      <3>1. <<w, a>> \in Actors \X Actors
        OBVIOUS
      <3>2. told' \subseteq told \cup {<<w, a>>}
        BY <1>13, Zenon DEF NotifyWatcher
      <3> QED
        BY <3>1, <3>2, Zenon DEF StopType
    <2>4. StopType'
      BY <1>13, <2>2, <2>3 DEF NotifyWatcher, StopType
    <2> QED
      BY <1>13, <2>1, <2>4 DEF NotifyWatcher
  <1>14. CASE SignalStop(a)
    BY <1>14 DEF SignalStop, TaskType, Phases
  <1>15. CASE EndTask(a)
    <2>1. TaskType'
      BY <1>15, DropMailboxType DEF EndTask, TaskType, Phases
    <2>2. MsgType'
      BY <1>15, DropMailboxType DEF EndTask, MsgType
    <2>3. StopType'
      BY <1>15 DEF EndTask, StopType, NoEntries
    <2>4. RefType'
      BY <1>15 DEF EndTask, RefType
    <2> QED
      BY <2>1, <2>2, <2>3, <2>4
  <1> QED
    BY <1>1, <1>2, <1>3, <1>4, <1>5, <1>6, <1>7, <1>8, <1>9, <1>10, <1>11, <1>12, <1>13,
       <1>14, <1>15, <1>16 DEF TaskStep

\* TypeOK is inductive.
LEMMA NextType == TypeOK /\ [Next]_vars => TypeOK'
  <1> SUFFICES ASSUME TypeOK, [Next]_vars PROVE TypeOK'
    OBVIOUS
  <1>1. CASE Next
    BY <1>1, UserStepType, TaskStepType DEF Next
  <1>2. CASE UNCHANGED vars
    BY <1>2, Unchanged DEF vars, taskVars, refVars, stopVars, msgVars, TypeOK
  <1> QED
    BY <1>1, <1>2

\* Every reachable state is well typed; in particular no interleaving of senders,
\* watcher notifications and stop signals overfills a bounded mailbox.
THEOREM TypeCorrect == Spec => []TypeOK
  BY InitType, NextType, PTL DEF Spec

-----------------------------------------------------------------------------
(***************************************************************************)
(* No caller waits for nobody.                                             *)
(***************************************************************************)

\* A message that was not sent is in no mailbox and in nobody's hands.
NewIsNowhere ==
    \A m \in Msgs : fate[m] = "new" =>
        \A a \in Actors : m \notin Elems(mailbox[a]) /\ cur[a] # m

\* A task has an item in hand only within its message loop.
CurPhase ==
    \A a \in Actors : cur[a] # None => phase[a] \in {"admitted", "handling", "panicked", "completing"}

\* The unwinding of a handler has dropped the reply sender of its ask.
PanickedResolved ==
    \A a \in Actors : (phase[a] = "panicked" /\ cur[a] \in Asks) => reply[cur[a]] # "waiting"

\* WaitingIsHeld is not inductive by itself: a step that lets go of an ask must
\* be known to have resolved it, or not to have it.
HeldInv == WaitingIsHeld /\ NewIsNowhere /\ CurPhase /\ PanickedResolved

LEMMA ElemsEmpty == Elems(<<>>) = {}
  <1>1. DOMAIN <<>> = {}
    OBVIOUS
  <1> QED
    BY <1>1, Zenon DEF Elems

LEMMA ElemsAppend ==
    ASSUME NEW S, NEW q \in Seq(S), NEW e \in S
    PROVE  Elems(Append(q, e)) = Elems(q) \cup {e}
  <1>1. /\ Append(q, e) \in Seq(S) /\ Len(Append(q, e)) = Len(q) + 1 /\ Len(q) \in Nat
        /\ DOMAIN Append(q, e) = 1..(Len(q) + 1) /\ DOMAIN q = 1..Len(q)
        /\ Append(q, e)[Len(q) + 1] = e
        /\ \A i \in 1..Len(q) : Append(q, e)[i] = q[i]
    OBVIOUS
  <1>2. ASSUME NEW x \in Elems(Append(q, e)) PROVE x \in Elems(q) \cup {e}
    <2>1. PICK i \in 1..(Len(q) + 1) : x = Append(q, e)[i]
      BY <1>1, <1>2 DEF Elems
    <2>2. CASE i = Len(q) + 1
      BY <1>1, <2>1, <2>2
    <2>3. CASE i # Len(q) + 1
      <3>1. i \in 1..Len(q)
        BY <1>1, <2>3
      <3> QED
        BY <1>1, <2>1, <3>1 DEF Elems
    <2> QED
      BY <2>2, <2>3
  <1>3. ASSUME NEW x \in Elems(q) PROVE x \in Elems(Append(q, e))
    <2>1. PICK i \in 1..Len(q) : x = q[i]
      BY <1>1, <1>3 DEF Elems
    <2>2. i \in 1..(Len(q) + 1)
      BY <1>1
    <2> QED
      BY <1>1, <2>1, <2>2 DEF Elems
  <1>4. e \in Elems(Append(q, e))
    <2>1. Len(q) + 1 \in 1..(Len(q) + 1)
      BY <1>1
    <2> QED
      BY <1>1, <2>1 DEF Elems
  <1> QED
    BY <1>2, <1>3, <1>4

LEMMA ElemsTake ==
    ASSUME NEW S, NEW q \in Seq(S), q # <<>>
    PROVE  Elems(q) = {Head(q)} \cup Elems(Tail(q))
  <1>1. /\ Len(q) \in Nat /\ Len(q) > 0 /\ Head(q) = q[1]
        /\ DOMAIN q = 1..Len(q) /\ DOMAIN Tail(q) = 1..(Len(q) - 1)
        /\ \A i \in 1..(Len(q) - 1) : Tail(q)[i] = q[i + 1]
    OBVIOUS
  <1>2. ASSUME NEW x \in Elems(q) PROVE x \in {Head(q)} \cup Elems(Tail(q))
    <2>1. PICK i \in 1..Len(q) : x = q[i]
      BY <1>1, <1>2 DEF Elems
    <2>2. CASE i = 1
      BY <1>1, <2>1, <2>2
    <2>3. CASE i # 1
      <3>1. i - 1 \in 1..(Len(q) - 1) /\ (i - 1) + 1 = i
        BY <1>1, <2>3
      <3>2. Tail(q)[i - 1] = q[i]
        BY <1>1, <3>1
      <3> QED
        BY <1>1, <2>1, <3>1, <3>2 DEF Elems
    <2> QED
      BY <2>2, <2>3
  <1>3. ASSUME NEW x \in Elems(Tail(q)) PROVE x \in Elems(q)
    <2>1. PICK i \in 1..(Len(q) - 1) : x = Tail(q)[i]
      BY <1>1, <1>3 DEF Elems
    <2>2. i + 1 \in 1..Len(q) /\ x = q[i + 1]
      BY <1>1, <2>1
    <2> QED
      BY <1>1, <2>2 DEF Elems
  <1>4. Head(q) \in Elems(q)
    <2>1. 1 \in 1..Len(q)
      BY <1>1
    <2> QED
      BY <1>1, <2>1 DEF Elems
  <1> QED
    BY <1>2, <1>3, <1>4

LEMMA InitHeld == Init => HeldInv
  <1> SUFFICES ASSUME Init PROVE HeldInv
    OBVIOUS
  <1>1. \A a \in Actors : Elems(mailbox[a]) = {} /\ cur[a] = None
    BY ElemsEmpty DEF Init
  <1>2. WaitingIsHeld
    BY DEF Init, WaitingIsHeld
  <1>3. NewIsNowhere
    BY <1>1, ConstantsAssumption DEF NewIsNowhere
  <1>4. CurPhase /\ PanickedResolved
    BY <1>1 DEF Init, CurPhase, PanickedResolved
  <1> QED
    BY <1>2, <1>3, <1>4 DEF HeldInv

\* Steps that move no message.
LEMMA HeldFrame ==
    ASSUME HeldInv, UNCHANGED <<phase, mailbox, cur, fate, reply>>
    PROVE  HeldInv'
  BY DEF HeldInv, WaitingIsHeld, NewIsNowhere, CurPhase, PanickedResolved, IsClosed, Elems

\* Steps of one task that only change its phase, neither ending it nor leaving
\* the handler by a panic.
LEMMA HeldPhase ==
    ASSUME TypeOK, HeldInv, NEW a \in Actors, NEW p,
           phase' = [phase EXCEPT ![a] = p],
           p \notin {"unborn", "ended", "crashed", "panicked"},
           cur[a] # None => p \in {"admitted", "handling", "completing"},
           UNCHANGED <<mailbox, cur, fate, reply>>
    PROVE  HeldInv'
  <1>1. WaitingIsHeld'
    BY DEF HeldInv, WaitingIsHeld, IsClosed, Elems, TypeOK, TaskType
  <1>2. NewIsNowhere'
    BY DEF HeldInv, NewIsNowhere, Elems
  <1>3. CurPhase' /\ PanickedResolved'
    BY DEF HeldInv, CurPhase, PanickedResolved, TypeOK, TaskType
  <1> QED
    BY <1>1, <1>2, <1>3 DEF HeldInv

\* An item that is not a message that may still be sent is put into a mailbox.
LEMMA HeldAppend ==
    ASSUME TypeOK, HeldInv, NEW a \in Actors, NEW i \in Items \ Msgs,
           mailbox' = [mailbox EXCEPT ![a] = Append(@, i)],
           UNCHANGED <<phase, cur, fate, reply>>
    PROVE  HeldInv'
  <1>1. \A b \in Actors : Elems(mailbox[b]) \subseteq Elems(mailbox'[b])
    BY ElemsAppend DEF TypeOK, TaskType
  <1>2. \A b \in Actors : Elems(mailbox'[b]) \subseteq Elems(mailbox[b]) \cup {i}
    BY ElemsAppend DEF TypeOK, TaskType
  <1>3. WaitingIsHeld'
    BY <1>1 DEF HeldInv, WaitingIsHeld, IsClosed
  <1>4. NewIsNowhere'
    BY <1>2 DEF HeldInv, NewIsNowhere
  <1>5. CurPhase' /\ PanickedResolved'
    BY DEF HeldInv, CurPhase, PanickedResolved
  <1> QED
    BY <1>3, <1>4, <1>5 DEF HeldInv

LEMMA HeldSend ==
    ASSUME TypeOK, HeldInv, NEW a \in Actors, NEW m \in Msgs, Send(a, m)
    PROVE  HeldInv'
  <1>1. fate[m] = "new" /\ m \in Items
    BY DEF Send, Items
  <1>2. \A b \in Actors : cur[b] # m
    BY <1>1 DEF HeldInv, NewIsNowhere
  <1>3. \A b \in Actors : Elems(mailbox[b]) \subseteq Elems(mailbox'[b])
                          /\ Elems(mailbox'[b]) \subseteq Elems(mailbox[b]) \cup {m}
    <2>1. CASE SendResult(a) = "ok"
      <3>1. mailbox' = [mailbox EXCEPT ![a] = Append(@, m)]
        BY <2>1 DEF Send
      <3>2. Elems(Append(mailbox[a], m)) = Elems(mailbox[a]) \cup {m}
        BY <1>1, ElemsAppend DEF TypeOK, TaskType
      <3> QED
        BY <3>1, <3>2 DEF TypeOK, TaskType
    <2>2. CASE SendResult(a) # "ok"
      BY <2>2 DEF Send
    <2> QED
      BY <2>1, <2>2
  <1>4. \A k \in Asks \ {m} : reply'[k] = reply[k]
    BY DEF Send, Resolve, TypeOK, MsgType
  <1>5. \A k \in Msgs : fate'[k] = "new" => fate[k] = "new" /\ k # m
    BY DEF Send, TypeOK, MsgType
  <1>6. ASSUME m \in Asks, reply'[m] = "waiting", reply[m] # "waiting"
        PROVE  ~IsClosed(a) /\ m \in Elems(mailbox'[a])
    <2>1. SendResult(a) = "ok"
      BY <1>6 DEF Send, Resolve, TypeOK, MsgType
    <2>2. mailbox'[a] = Append(mailbox[a], m)
      BY <2>1 DEF Send, TypeOK, TaskType
    <2>3. Elems(Append(mailbox[a], m)) = Elems(mailbox[a]) \cup {m}
      BY <1>1, ElemsAppend DEF TypeOK, TaskType
    <2> QED
      BY <2>1, <2>2, <2>3 DEF SendResult
  <1>7. WaitingIsHeld'
    BY <1>3, <1>4, <1>6 DEF HeldInv, WaitingIsHeld, IsClosed, Send
  <1>8. NewIsNowhere'
    BY <1>3, <1>5 DEF HeldInv, NewIsNowhere, Send
  <1>9. CurPhase' /\ PanickedResolved'
    BY <1>2, <1>4 DEF HeldInv, CurPhase, PanickedResolved, Send
  <1> QED
    BY <1>7, <1>8, <1>9 DEF HeldInv

LEMMA HeldUserStep ==
    ASSUME TypeOK, HeldInv, UserStep
    PROVE  HeldInv'
  <1>1. ASSUME NEW a \in Actors, NEW n \in Names, NEW o \in Strategies \cup {None}, Spawn(a, n, o)
        PROVE  HeldInv'
    <2>1. cur[a] = None
      BY <1>1 DEF Spawn, Spawned, HeldInv, CurPhase
    <2> QED
      BY <1>1, <2>1, HeldPhase DEF Spawn, msgVars
  <1>2. ASSUME NEW a \in Actors, NEW m \in Msgs, OutboundStop(a, m)
        PROVE  HeldInv'
    <2>1. \A k \in Asks : reply'[k] = "waiting" => reply[k] = "waiting"
      BY <1>2 DEF OutboundStop, Resolve, TypeOK, MsgType
    <2>2. \A k \in Msgs : fate'[k] = "new" => fate[k] = "new"
      BY <1>2 DEF OutboundStop, TypeOK, MsgType
    <2>3. UNCHANGED <<phase, mailbox, cur>>
      BY <1>2 DEF OutboundStop, taskVars
    <2>4. WaitingIsHeld'
      BY <2>1, <2>3 DEF HeldInv, WaitingIsHeld, IsClosed
    <2>5. NewIsNowhere' /\ CurPhase' /\ PanickedResolved'
      BY <2>1, <2>2, <2>3 DEF HeldInv, NewIsNowhere, CurPhase, PanickedResolved
    <2> QED
      BY <2>4, <2>5 DEF HeldInv
  <1>3. ASSUME NEW a \in Actors, NEW m \in Msgs, Send(a, m)
        PROVE  HeldInv'
    BY <1>3, HeldSend
  <1>4. ASSUME NEW m \in Msgs, Cancel(m)
        PROVE  HeldInv'
    BY <1>4, HeldFrame DEF Cancel, taskVars
  <1>5. ASSUME NEW a \in Actors, Stop(a)
        PROVE  HeldInv'
    <2>1. None \in Items \ Msgs
      BY ConstantsAssumption DEF Items
    <2>2. CASE IsClosed(a) \/ IsFull(a)
      <3>1. UNCHANGED <<phase, mailbox, cur, fate, reply>>
        BY <1>5, <2>2 DEF Stop, msgVars, TypeOK, TaskType
      <3> QED
        BY <3>1, HeldFrame
    <2>3. CASE ~(IsClosed(a) \/ IsFull(a))
      <3>1. mailbox' = [mailbox EXCEPT ![a] = Append(@, None)]
        BY <1>5, <2>3 DEF Stop
      <3> QED
        BY <1>5, <2>1, <3>1, HeldAppend DEF Stop, msgVars
    <2> QED
      BY <2>2, <2>3
  <1>6. ASSUME NEW a \in Actors, DropRefs(a)
        PROVE  HeldInv'
    BY <1>6, HeldFrame DEF DropRefs, taskVars, msgVars
  <1>7. ASSUME NEW n \in Names, Lookup(n) \/ Unregister(n)
        PROVE  HeldInv'
    BY <1>7, HeldFrame DEF Lookup, Unregister, taskVars, msgVars
  <1>8. ASSUME NEW w \in Actors, NEW t \in Actors, Watch(w, t) \/ Unwatch(w, t)
        PROVE  HeldInv'
    BY <1>8, HeldFrame DEF Watch, Unwatch, taskVars, msgVars
  <1>9. ASSUME NEW a \in Actors, AwaitStop(a) \/ AwaitReturns(a)
        PROVE  HeldInv'
    BY <1>9, HeldFrame DEF AwaitStop, AwaitReturns, taskVars, msgVars
  <1>10. CASE AwaitAll \/ CleanupFinished
    BY <1>10, HeldFrame DEF AwaitAll, CleanupFinished, taskVars, msgVars
  <1> QED
    BY <1>1, <1>2, <1>3, <1>4, <1>5, <1>6, <1>7, <1>8, <1>9, <1>10 DEF UserStep

\* A task takes the head of its mailbox and either settles it or has it in hand.
LEMMA HeldTake ==
    ASSUME TypeOK, HeldInv, NEW a \in Actors, phase[a] = "recv", mailbox[a] # <<>>,
           mailbox' = [mailbox EXCEPT ![a] = Tail(@)],
           phase' \in {phase, [phase EXCEPT ![a] = "admitted"], [phase EXCEPT ![a] = "exiting"]},
           \A k \in Msgs : fate'[k] = "new" => fate[k] = "new",
           \A k \in Asks : reply'[k] = "waiting" => reply[k] = "waiting",
           \/ cur' = cur /\ (Head(mailbox[a]) \in Asks => reply'[Head(mailbox[a])] # "waiting")
           \/ cur' = [cur EXCEPT ![a] = Head(mailbox[a])] /\ phase'[a] = "admitted"
    PROVE  HeldInv'
  <1>1. cur[a] = None
    BY DEF HeldInv, CurPhase
  <1>2. mailbox[a] \in Seq(Items)
    BY DEF TypeOK, TaskType
  <1>3. Elems(mailbox[a]) = {Head(mailbox[a])} \cup Elems(Tail(mailbox[a]))
    BY <1>2, ElemsTake
  <1>4. /\ mailbox'[a] = Tail(mailbox[a])
        /\ \A b \in Actors \ {a} : mailbox'[b] = mailbox[b] /\ phase'[b] = phase[b] /\ cur'[b] = cur[b]
        /\ phase'[a] \in {"recv", "admitted", "exiting"}
        /\ cur'[a] \in {None, Head(mailbox[a])}
    BY <1>1 DEF TypeOK, TaskType
  <1>5. WaitingIsHeld'
    <2> SUFFICES ASSUME NEW k \in Asks, reply'[k] = "waiting"
                 PROVE  \E b \in Actors : ~IsClosed(b)' /\ k \in Elems(mailbox'[b]) \cup {cur'[b]}
      BY DEF WaitingIsHeld
    <2>1. k # None
      BY ConstantsAssumption DEF Msgs
    <2>2. PICK b \in Actors : ~IsClosed(b) /\ k \in Elems(mailbox[b]) \cup {cur[b]}
      BY DEF HeldInv, WaitingIsHeld
    <2>3. CASE b # a
      BY <1>4, <2>2, <2>3 DEF IsClosed
    <2>4. CASE b = a
      <3>1. ~IsClosed(a)'
        BY <1>4 DEF IsClosed
      <3>2. k = Head(mailbox[a]) \/ k \in Elems(Tail(mailbox[a]))
        BY <1>1, <1>3, <2>1, <2>2, <2>4
      <3>3. k = Head(mailbox[a]) => cur'[a] = k
        BY DEF TypeOK, TaskType
      <3> QED
        BY <1>4, <3>1, <3>2, <3>3
    <2> QED
      BY <2>3, <2>4
  <1>6. NewIsNowhere'
    <2> SUFFICES ASSUME NEW k \in Msgs, fate'[k] = "new", NEW b \in Actors
                 PROVE  k \notin Elems(mailbox'[b]) /\ cur'[b] # k
      BY DEF NewIsNowhere
    <2>1. k # None /\ k \notin Elems(mailbox[b]) /\ cur[b] # k
      BY ConstantsAssumption DEF HeldInv, NewIsNowhere
    <2>2. CASE b # a
      BY <1>4, <2>1, <2>2
    <2>3. CASE b = a
      BY <1>3, <1>4, <2>1, <2>3
    <2> QED
      BY <2>2, <2>3
  <1>7. CurPhase'
    BY <1>1, <1>4 DEF HeldInv, CurPhase, TypeOK, TaskType
  <1>8. PanickedResolved'
    BY <1>4 DEF HeldInv, PanickedResolved
  <1> QED
    BY <1>5, <1>6, <1>7, <1>8 DEF HeldInv

\* A task is done with the item in hand, whose ask is not waiting any more.
LEMMA HeldFinish ==
    ASSUME TypeOK, HeldInv, NEW a \in Actors, NEW f \in Fates \ {"new"}, Finish(a, f),
           ~IsClosed(a),
           NEW p \in {"recv", "exiting", "unwinding"}, phase' = [phase EXCEPT ![a] = p],
           \A k \in Asks : reply'[k] = "waiting" => reply[k] = "waiting",
           cur[a] \in Asks => reply'[cur[a]] # "waiting",
           UNCHANGED mailbox
    PROVE  HeldInv'
  <1>1. /\ cur'[a] = None
        /\ \A b \in Actors \ {a} : cur'[b] = cur[b] /\ phase'[b] = phase[b]
        /\ phase'[a] \in {"recv", "exiting", "unwinding"}
    BY DEF Finish, TypeOK, TaskType
  <1>2. \A k \in Msgs : fate'[k] = "new" => fate[k] = "new"
    BY DEF Finish, TypeOK, MsgType
  <1>3. WaitingIsHeld'
    BY <1>1 DEF HeldInv, WaitingIsHeld, IsClosed
  <1>4. NewIsNowhere'
    BY <1>1, <1>2, ConstantsAssumption DEF HeldInv, NewIsNowhere
  <1>5. CurPhase' /\ PanickedResolved'
    BY <1>1 DEF HeldInv, CurPhase, PanickedResolved
  <1> QED
    BY <1>3, <1>4, <1>5 DEF HeldInv

\* A task that has nothing in hand ends and drops its mailbox.
LEMMA HeldDrop ==
    ASSUME TypeOK, HeldInv, NEW a \in Actors, DropMailbox(a),
           phase[a] \in {"starting", "signalled", "unwinding"},
           phase' \in {[phase EXCEPT ![a] = "ended"], [phase EXCEPT ![a] = "crashed"]},
           UNCHANGED cur
    PROVE  HeldInv'
  <1>1. cur[a] = None
    BY DEF HeldInv, CurPhase
  <1>2. /\ \A k \in Asks : reply'[k] = "waiting" => reply[k] = "waiting" /\ k \notin Elems(mailbox[a])
        /\ \A k \in Msgs : fate'[k] = "new" => fate[k] = "new"
    BY DEF DropMailbox, Msgs
  <1>3. /\ \A b \in Actors \ {a} : mailbox'[b] = mailbox[b] /\ phase'[b] = phase[b]
        /\ phase'[a] \in {"ended", "crashed"}
        /\ mailbox'[a] = <<>>
    BY DEF DropMailbox, TypeOK, TaskType
  <1>4. WaitingIsHeld'
    <2> SUFFICES ASSUME NEW k \in Asks, reply'[k] = "waiting"
                 PROVE  \E b \in Actors : ~IsClosed(b)' /\ k \in Elems(mailbox'[b]) \cup {cur'[b]}
      BY DEF WaitingIsHeld
    <2>1. k # None
      BY ConstantsAssumption DEF Msgs
    <2>2. PICK b \in Actors : ~IsClosed(b) /\ k \in Elems(mailbox[b]) \cup {cur[b]}
      BY <1>2 DEF HeldInv, WaitingIsHeld
    <2>3. b # a
      BY <1>1, <1>2, <2>1, <2>2
    <2> QED
      BY <1>3, <2>2, <2>3 DEF IsClosed
  <1>5. NewIsNowhere'
    BY <1>2, <1>3, ElemsEmpty DEF HeldInv, NewIsNowhere
  <1>6. CurPhase' /\ PanickedResolved'
    BY <1>1, <1>2, <1>3 DEF HeldInv, CurPhase, PanickedResolved
  <1> QED
    BY <1>4, <1>5, <1>6 DEF HeldInv

LEMMA HeldTaskStep ==
    ASSUME TypeOK, HeldInv, NEW a \in Actors, TaskStep(a)
    PROVE  HeldInv'
  <1>0. /\ "cancelled" \in Fates \ {"new"} /\ "aborted" \in Fates \ {"new"}
        /\ "handled" \in Fates \ {"new"} /\ "panicked" \in Fates \ {"new"}
    BY DEF Fates
  <1>1. CASE StartOk(a)
    <2>1. cur[a] = None
      BY <1>1 DEF StartOk, HeldInv, CurPhase
    <2> QED
      BY <1>1, <2>1, HeldPhase DEF StartOk, msgVars
  <1>2. CASE TaskUnwinds(a)
    BY <1>2, HeldDrop DEF TaskUnwinds
  <1>3. CASE ReceiveStop(a)
    <2>1. CASE mailbox[a] # <<>>
      <3>1. Head(mailbox[a]) \notin Asks
        BY <1>3, <2>1, ConstantsAssumption DEF ReceiveStop, Msgs
      <3> QED
        BY <1>3, <2>1, <3>1, HeldTake DEF ReceiveStop, LeaveLoop, msgVars
    <2>2. CASE mailbox[a] = <<>>
      <3>1. cur[a] = None
        BY <1>3 DEF ReceiveStop, HeldInv, CurPhase
      <3> QED
        BY <1>3, <2>2, <3>1, HeldPhase DEF ReceiveStop, LeaveLoop, msgVars
    <2> QED
      BY <2>1, <2>2
  <1>4. CASE Reject(a)
    <2>1. \A k \in Msgs : fate'[k] = "new" => fate[k] = "new"
      BY <1>4 DEF Reject, TypeOK, MsgType
    <2>2. /\ \A k \in Asks : reply'[k] = "waiting" => reply[k] = "waiting"
          /\ Head(mailbox[a]) \in Asks => reply'[Head(mailbox[a])] # "waiting"
      BY <1>4 DEF Reject, Resolve, TypeOK, MsgType
    <2> QED
      BY <1>4, <2>1, <2>2, HeldTake DEF Reject
  <1>5. CASE Admit(a)
    <2>1. \A k \in Msgs : fate'[k] = "new" => fate[k] = "new"
      BY <1>5 DEF Admit, TypeOK, MsgType
    <2>2. phase'[a] = "admitted"
      BY <1>5 DEF Admit, TypeOK, TaskType
    <2> QED
      BY <1>5, <2>1, <2>2, HeldTake DEF Admit
  <1>6. CASE Dispatch(a)
    <2>1. CASE cur[a] \in cancelled
      <3>1. /\ \A k \in Asks : reply'[k] = "waiting" => reply[k] = "waiting"
            /\ cur[a] \in Asks => reply'[cur[a]] # "waiting"
        BY <1>6, <2>1 DEF Dispatch, Resolve, TypeOK, MsgType
      <3> QED
        BY <1>0, <1>6, <2>1, <3>1, HeldFinish DEF Dispatch, IsClosed
    <2>2. CASE cur[a] \notin cancelled
      BY <1>6, <2>2, HeldPhase DEF Dispatch
    <2> QED
      BY <2>1, <2>2
  <1>7. CASE AbortHandler(a)
    <2>1. /\ \A k \in Asks : reply'[k] = "waiting" => reply[k] = "waiting"
          /\ cur[a] \in Asks => reply'[cur[a]] # "waiting"
      BY <1>7 DEF AbortHandler, Resolve, TypeOK, MsgType
    <2> QED
      BY <1>0, <1>7, <2>1, HeldFinish DEF AbortHandler, IsClosed
  <1>8. CASE HandlerReturns(a)
    BY <1>8, HeldPhase DEF HandlerReturns
  <1>9. CASE SendReply(a)
    <2>1. /\ \A k \in Asks : reply'[k] = "waiting" => reply[k] = "waiting"
          /\ cur[a] \in Asks => reply'[cur[a]] # "waiting"
      BY <1>9 DEF SendReply, Resolve, TypeOK, MsgType
    <2> QED
      BY <1>0, <1>9, <2>1, HeldFinish DEF SendReply, IsClosed
  <1>10. CASE HandlerPanics(a)
    <2>1. /\ \A k \in Asks : reply'[k] = "waiting" => reply[k] = "waiting"
          /\ cur[a] \in Asks => reply'[cur[a]] # "waiting"
      BY <1>10 DEF HandlerPanics, Resolve, TypeOK, MsgType
    <2>2. /\ phase' = [phase EXCEPT ![a] = "panicked"] /\ phase[a] = "handling"
          /\ UNCHANGED <<mailbox, cur, fate>>
      BY <1>10 DEF HandlerPanics
    <2>3. WaitingIsHeld'
      BY <2>1, <2>2 DEF HeldInv, WaitingIsHeld, IsClosed, TypeOK, TaskType
    <2>4. NewIsNowhere'
      BY <2>2 DEF HeldInv, NewIsNowhere
    <2>5. CurPhase' /\ PanickedResolved'
      BY <2>1, <2>2 DEF HeldInv, CurPhase, PanickedResolved, TypeOK, TaskType
    <2> QED
      BY <2>3, <2>4, <2>5 DEF HeldInv
  <1>11. CASE OnError(a)
    <2>1. cur[a] \in Asks => reply[cur[a]] # "waiting"
      BY <1>11 DEF OnError, HeldInv, PanickedResolved
    <2> QED
      BY <1>0, <1>11, <2>1, HeldFinish DEF OnError, LeaveLoop, IsClosed
  <1>16. CASE HookPanics(a)
    <2>1. /\ \A k \in Asks : reply'[k] = "waiting" => reply[k] = "waiting"
          /\ cur[a] \in Asks => reply'[cur[a]] # "waiting"
      BY <1>16 DEF HookPanics, Resolve, TypeOK, MsgType
    <2> QED
      BY <1>0, <1>16, <2>1, HeldFinish DEF HookPanics, IsClosed
  <1>12. CASE RunOnStop(a)
    <2>1. cur[a] = None
      BY <1>12 DEF RunOnStop, HeldInv, CurPhase
    <2> QED
      BY <1>12, <2>1, HeldPhase DEF RunOnStop, msgVars
  <1>13. ASSUME NEW w \in Actors, NotifyWatcher(a, w)
         PROVE  HeldInv'
    <2>1. a \in Items \ Msgs
      BY ConstantsAssumption DEF Items
    <2>2. CASE SendResult(w) = "ok"
      BY <1>13, <2>1, <2>2, HeldAppend DEF NotifyWatcher, msgVars
    <2>3. CASE SendResult(w) # "ok"
      BY <1>13, <2>3, HeldFrame DEF NotifyWatcher, msgVars
    <2> QED
      BY <2>2, <2>3
  <1>14. CASE SignalStop(a)
    <2>1. cur[a] = None
      BY <1>14 DEF SignalStop, HeldInv, CurPhase
    <2> QED
      BY <1>14, <2>1, HeldPhase DEF SignalStop, msgVars
  <1>15. CASE EndTask(a)
    BY <1>15, HeldDrop DEF EndTask
  <1> QED
    BY <1>1, <1>2, <1>3, <1>4, <1>5, <1>6, <1>7, <1>8, <1>9, <1>10, <1>11, <1>12, <1>13,
       <1>14, <1>15, <1>16 DEF TaskStep

LEMMA HeldInvariant == Spec => []HeldInv
  <1>1. Init => HeldInv
    BY InitHeld
  <1>2. TypeOK /\ HeldInv /\ [Next]_vars => HeldInv'
    <2> SUFFICES ASSUME TypeOK, HeldInv, [Next]_vars PROVE HeldInv'
      OBVIOUS
    <2>1. CASE Next
      BY <2>1, HeldUserStep, HeldTaskStep DEF Next
    <2>2. CASE UNCHANGED vars
      BY <2>2, HeldFrame DEF vars
    <2> QED
      BY <2>1, <2>2
  <1> QED
    BY <1>1, <1>2, TypeCorrect, PTL DEF Spec

\* No caller waits for nobody: in every reachable state, an ask whose reply channel
\* is open and empty is in the mailbox or in the hands of a task that still runs.
THEOREM NobodyWaitsInVain == Spec => []WaitingIsHeld
  <1>1. HeldInv => WaitingIsHeld
    BY DEF HeldInv
  <1> QED
    BY <1>1, HeldInvariant, PTL

-----------------------------------------------------------------------------
(***************************************************************************)
(* Termination is final, and a watch made in time is not missed.           *)
(***************************************************************************)

LoopPhases == Phases \ ({"unborn"} \cup Terminal)

\* References exist only for spawned actors.
RefsSpawned ==
    /\ \A a \in Actors : held[a] => Spawned(a)
    /\ \A n \in Names : registry[n] # None => Spawned(registry[n])

\* Only a task that is past its on_stop tells anyone.
ToldPhase ==
    \A w, t \in Actors : <<w, t>> \in told => phase[t] \in {"notifying", "signalled", "ended"}

\* await_stop returns only when the task has signalled its end.
ReturnedSignalled == \A t \in Actors : stopRx[t] = "returned" => StopSignalled(t)

\* A task that left its loop has cleared `alive', and nobody sets it again.
DeadWhenDown == \A a \in Actors : phase[a] \in Terminal \ {"unwinding", "crashed"} => ~alive[a]

\* Where the entry of a watch made in time is while its target goes down.
OwedIsDue ==
    \A w, t \in Actors : (<<w, t>> \in owed /\ Capacity[w] = 0) =>
        /\ Spawned(w)
        /\ \/ phase[t] \in LoopPhases \cup {"exiting"} /\ watchers[t][w] > 0
           \/ phase[t] = "notifying" /\ due[t][w] > 0
           \/ phase[t] \in {"unwinding", "crashed"}
           \/ phase[w] \in {"ended", "crashed"}
           \/ <<w, t>> \in told

EndInv == RefsSpawned /\ ToldPhase /\ ReturnedSignalled /\ DeadWhenDown /\ OwedIsDue

endVars == <<held, registry, watchers, due, owed, told, stopRx>>

LEMMA InitEnd == Init => EndInv
  <1> SUFFICES ASSUME Init PROVE EndInv
    OBVIOUS
  <1>1. RefsSpawned /\ ToldPhase /\ ReturnedSignalled /\ OwedIsDue
    BY DEF Init, RefsSpawned, ToldPhase, ReturnedSignalled, OwedIsDue
  <1>2. DeadWhenDown
    BY DEF Init, DeadWhenDown, Terminal
  <1> QED
    BY <1>1, <1>2 DEF EndInv

\* Steps that concern messages only.
LEMMA EndFrame ==
    ASSUME EndInv, UNCHANGED <<phase, alive>>, UNCHANGED endVars
    PROVE  EndInv'
  BY DEF EndInv, endVars, RefsSpawned, ToldPhase, ReturnedSignalled, DeadWhenDown, OwedIsDue,
         Spawned, StopSignalled

\* Steps of a task within its loop, and out of it.
LEMMA EndLoop ==
    ASSUME TypeOK, EndInv, NEW a \in Actors, NEW p \in LoopPhases \cup {"exiting", "unwinding", "crashed"},
           phase[a] \in LoopPhases \/ (phase[a] = "unwinding" /\ p = "crashed"),
           phase' = [phase EXCEPT ![a] = p],
           alive' \in {alive, [alive EXCEPT ![a] = FALSE]},
           p = "exiting" => ~alive'[a],
           UNCHANGED endVars
    PROVE  EndInv'
  <1>1. /\ phase'[a] = p
        /\ \A b \in Actors \ {a} : phase'[b] = phase[b] /\ alive'[b] = alive[b]
    BY DEF TypeOK, TaskType
  <1>2. p \notin {"unborn", "notifying", "signalled", "ended"}
    BY DEF LoopPhases, Terminal
  <1>3. /\ phase[a] \notin {"unborn", "notifying", "signalled", "ended", "crashed"}
        /\ phase[a] = "unwinding" => p = "crashed"
    BY DEF LoopPhases, Terminal
  <1>4. RefsSpawned'
    BY <1>1, <1>2, <1>3 DEF EndInv, endVars, RefsSpawned, Spawned, TypeOK, RefType
  <1>5. ToldPhase' /\ ReturnedSignalled'
    BY <1>1, <1>3 DEF EndInv, endVars, ToldPhase, ReturnedSignalled, StopSignalled
  <1>6. DeadWhenDown'
    BY <1>1, <1>2 DEF EndInv, DeadWhenDown, LoopPhases, Terminal
  <1>7. OwedIsDue'
    BY <1>1, <1>2, <1>3 DEF EndInv, endVars, OwedIsDue, Spawned
  <1> QED
    BY <1>4, <1>5, <1>6, <1>7 DEF EndInv

LEMMA EndUserStep ==
    ASSUME TypeOK, EndInv, UserStep
    PROVE  EndInv'
  <1>1. ASSUME NEW a \in Actors, NEW n \in Names, NEW o \in Strategies \cup {None}, Spawn(a, n, o)
        PROVE  EndInv'
    <2>1. /\ phase[a] = "unborn" /\ phase'[a] = "starting" /\ stopRx'[a] = "stored"
          /\ \A b \in Actors \ {a} : /\ phase'[b] = phase[b] /\ alive'[b] = alive[b]
                                     /\ stopRx'[b] = stopRx[b] /\ held'[b] = held[b]
          /\ UNCHANGED <<watchers, due, owed, told>>
      BY <1>1 DEF Spawn, Spawned, TypeOK, TaskType, StopType, RefType
    <2>2. RefsSpawned'
      <3>1. \A b \in Actors : Spawned(b) => Spawned(b)'
        BY <2>1 DEF Spawned
      <3>2. \A k \in Names : registry'[k] \in {registry[k], a}
        BY <1>1 DEF Spawn, TypeOK, RefType
      <3>3. Spawned(a)'
        BY <2>1 DEF Spawned
      <3>4. \A b \in Actors : held'[b] => phase'[b] # "unborn"
        BY <2>1, <3>1, <3>3 DEF EndInv, RefsSpawned, Spawned
      <3>5. \A k \in Names : registry'[k] # None => phase'[registry'[k]] # "unborn"
        <4>1. \A k \in Names : registry[k] # None =>
                  registry[k] \in Actors /\ phase[registry[k]] # "unborn"
          BY DEF EndInv, RefsSpawned, TypeOK, RefType, Spawned
        <4> QED
          BY <2>1, <3>2, <4>1
      <3> QED
        BY <3>4, <3>5 DEF RefsSpawned, Spawned
    <2>3. ToldPhase' /\ ReturnedSignalled'
      BY <2>1 DEF EndInv, ToldPhase, ReturnedSignalled, StopSignalled
    <2>4. DeadWhenDown'
      BY <2>1 DEF EndInv, DeadWhenDown, Terminal
    <2>5. OwedIsDue'
      BY <2>1 DEF EndInv, OwedIsDue, Spawned, LoopPhases, Terminal, Phases
    <2> QED
      BY <2>2, <2>3, <2>4, <2>5 DEF EndInv
  <1>2. ASSUME NEW a \in Actors, NEW m \in Msgs, OutboundStop(a, m) \/ Send(a, m)
        PROVE  EndInv'
    BY <1>2, EndFrame DEF OutboundStop, Send, taskVars, refVars, stopVars, endVars
  <1>3. ASSUME NEW m \in Msgs, Cancel(m)
        PROVE  EndInv'
    BY <1>3, EndFrame DEF Cancel, taskVars, refVars, stopVars, endVars
  <1>4. ASSUME NEW a \in Actors, Stop(a)
        PROVE  EndInv'
    <2>1. /\ UNCHANGED phase /\ UNCHANGED endVars
          /\ \A b \in Actors : alive'[b] => alive[b]
      BY <1>4 DEF Stop, refVars, endVars, TypeOK, TaskType
    <2>2. DeadWhenDown'
      BY <2>1 DEF EndInv, DeadWhenDown
    <2>3. RefsSpawned' /\ ToldPhase' /\ ReturnedSignalled' /\ OwedIsDue'
      BY <2>1 DEF EndInv, endVars, RefsSpawned, ToldPhase, ReturnedSignalled, OwedIsDue, Spawned,
                  StopSignalled
    <2> QED
      BY <2>2, <2>3 DEF EndInv
  <1>5. ASSUME NEW a \in Actors, DropRefs(a)
        PROVE  EndInv'
    <2>1. /\ UNCHANGED <<phase, alive, registry, watchers, due, owed, told, stopRx>>
          /\ \A b \in Actors : held'[b] => held[b]
      BY <1>5 DEF DropRefs, taskVars, stopVars, TypeOK, RefType
    <2> QED
      BY <2>1 DEF EndInv, RefsSpawned, ToldPhase, ReturnedSignalled, DeadWhenDown, OwedIsDue,
                  Spawned, StopSignalled
  <1>6. ASSUME NEW n \in Names, Lookup(n)
        PROVE  EndInv'
    <2>1. /\ UNCHANGED <<phase, alive, registry, watchers, due, owed, told, stopRx>>
          /\ \A b \in Actors : held'[b] => held[b] \/ b = registry[n]
          /\ registry[n] # None
      BY <1>6 DEF Lookup, taskVars, stopVars, TypeOK, RefType
    <2>2. RefsSpawned'
      BY <2>1 DEF EndInv, RefsSpawned, Spawned
    <2> QED
      BY <2>1, <2>2 DEF EndInv, ToldPhase, ReturnedSignalled, DeadWhenDown, OwedIsDue,
                        Spawned, StopSignalled
  <1>7. ASSUME NEW n \in Names, Unregister(n)
        PROVE  EndInv'
    <2>1. /\ UNCHANGED <<phase, alive, held, watchers, due, owed, told, stopRx>>
          /\ \A k \in Names : registry'[k] # None => registry'[k] = registry[k]
      BY <1>7 DEF Unregister, taskVars, stopVars, TypeOK, RefType
    <2>2. RefsSpawned'
      BY <2>1 DEF EndInv, RefsSpawned, Spawned
    <2> QED
      BY <2>1, <2>2 DEF EndInv, ToldPhase, ReturnedSignalled, DeadWhenDown, OwedIsDue,
                        Spawned, StopSignalled
  <1>8. ASSUME NEW w \in Actors, NEW t \in Actors, Watch(w, t)
        PROVE  EndInv'
    <2>1. UNCHANGED <<phase, alive, held, registry, due, told, stopRx>>
      BY <1>8 DEF Watch, taskVars, refVars
    <2>2. \A x, y \in Actors : watchers'[y][x] \in Nat /\ watchers'[y][x] >= watchers[y][x]
      BY <1>8 DEF Watch, TypeOK, StopType
    <2>3. watchers'[t][w] > 0
      BY <1>8 DEF Watch, TypeOK, StopType
    <2>4. Spawned(w)
      BY <1>8 DEF Watch, EndInv, RefsSpawned
    <2>5. IsAlive(t) => phase[t] \in LoopPhases \cup {"unwinding"}
      BY DEF IsAlive, IsClosed, EndInv, DeadWhenDown, LoopPhases, Terminal, TypeOK, TaskType
    <2>6. \A x, y \in Actors : <<x, y>> \in owed' => <<x, y>> \in owed \/ (x = w /\ y = t /\ IsAlive(t))
      BY <1>8 DEF Watch
    <2>7. OwedIsDue'
      <3> SUFFICES ASSUME NEW x \in Actors, NEW y \in Actors, <<x, y>> \in owed', Capacity[x] = 0
                   PROVE  /\ Spawned(x)
                          /\ \/ phase[y] \in LoopPhases \cup {"exiting"} /\ watchers'[y][x] > 0
                             \/ phase[y] = "notifying" /\ due[y][x] > 0
                             \/ phase[y] \in {"unwinding", "crashed"}
                             \/ phase[x] \in {"ended", "crashed"}
                             \/ <<x, y>> \in told
        BY <2>1 DEF OwedIsDue, Spawned
      <3>1. CASE <<x, y>> \in owed
        <4>1. watchers[y][x] > 0 => watchers'[y][x] > 0
          BY <2>2 DEF TypeOK, StopType
        <4> QED
          BY <3>1, <4>1 DEF EndInv, OwedIsDue
      <3>2. CASE <<x, y>> \notin owed
        BY <2>3, <2>4, <2>5, <2>6, <3>2
      <3> QED
        BY <3>1, <3>2
    <2>8. RefsSpawned' /\ ToldPhase' /\ ReturnedSignalled' /\ DeadWhenDown'
      BY <2>1 DEF EndInv, RefsSpawned, ToldPhase, ReturnedSignalled, DeadWhenDown, Spawned,
                  StopSignalled
    <2> QED
      BY <2>7, <2>8 DEF EndInv
  <1>9. ASSUME NEW w \in Actors, NEW t \in Actors, Unwatch(w, t)
        PROVE  EndInv'
    <2>1. UNCHANGED <<phase, alive, held, registry, due, told, stopRx>>
      BY <1>9 DEF Unwatch, taskVars, refVars
    <2>2. \A x, y \in Actors : <<x, y>> \in owed' =>
              <<x, y>> \in owed /\ watchers'[y][x] = watchers[y][x]
      BY <1>9 DEF Unwatch, TypeOK, StopType
    <2>3. OwedIsDue'
      BY <2>1, <2>2 DEF EndInv, OwedIsDue, Spawned
    <2>4. RefsSpawned' /\ ToldPhase' /\ ReturnedSignalled' /\ DeadWhenDown'
      BY <2>1 DEF EndInv, RefsSpawned, ToldPhase, ReturnedSignalled, DeadWhenDown, Spawned,
                  StopSignalled
    <2> QED
      BY <2>3, <2>4 DEF EndInv
  <1>10. ASSUME UNCHANGED taskVars, UNCHANGED refVars, UNCHANGED <<watchers, due, owed, told>>,
                \A t \in Actors : stopRx'[t] = "returned" => stopRx[t] = "returned" \/ StopSignalled(t)
         PROVE  EndInv'
    <2>1. UNCHANGED <<phase, alive, held, registry>>
      BY <1>10 DEF taskVars, refVars
    <2>2. ReturnedSignalled'
      BY <1>10, <2>1 DEF EndInv, ReturnedSignalled, StopSignalled
    <2> QED
      BY <1>10, <2>1, <2>2 DEF EndInv, RefsSpawned, ToldPhase, DeadWhenDown, OwedIsDue, Spawned
  <1>11. ASSUME NEW a \in Actors, AwaitStop(a) \/ AwaitReturns(a)
         PROVE  EndInv'
    <2>1. \A t \in Actors : stopRx'[t] = "returned" => stopRx[t] = "returned" \/ StopSignalled(t)
      BY <1>11 DEF AwaitStop, AwaitReturns, TypeOK, StopType
    <2> QED
      BY <1>10, <1>11, <2>1 DEF AwaitStop, AwaitReturns
  <1>12. CASE AwaitAll \/ CleanupFinished
    <2>1. \A t \in Actors : stopRx'[t] = "returned" => stopRx[t] = "returned"
      BY <1>12 DEF AwaitAll, CleanupFinished, TypeOK, StopType
    <2> QED
      BY <1>10, <1>12, <2>1 DEF AwaitAll, CleanupFinished
  <1> QED
    BY <1>1, <1>2, <1>3, <1>4, <1>5, <1>6, <1>7, <1>8, <1>9, <1>11, <1>12 DEF UserStep

\* The watcher w is told by the task of a: w takes the notification unless its
\* task is gone, because its mailbox is unbounded.
LEMMA EndNotify ==
    ASSUME TypeOK, EndInv, NEW a \in Actors, NEW w \in Actors, NotifyWatcher(a, w)
    PROVE  EndInv'
  <1>1. /\ UNCHANGED <<phase, alive, held, registry, watchers, owed, stopRx>>
        /\ phase[a] = "notifying"
    BY DEF NotifyWatcher, refVars
  <1>2. \A x, y \in Actors : <<x, y>> \in told' => <<x, y>> \in told \/ (x = w /\ y = a)
    BY DEF NotifyWatcher
  <1>3. told \subseteq told'
    BY DEF NotifyWatcher
  <1>4. \A x, y \in Actors : due'[y][x] = due[y][x] \/ (x = w /\ y = a)
    BY DEF NotifyWatcher, TypeOK, StopType
  <1>5. ToldPhase'
    BY <1>1, <1>2 DEF EndInv, ToldPhase
  <1>6. RefsSpawned' /\ ReturnedSignalled' /\ DeadWhenDown'
    BY <1>1 DEF EndInv, RefsSpawned, ReturnedSignalled, DeadWhenDown, Spawned, StopSignalled
  <1>7. OwedIsDue'
    <2> SUFFICES ASSUME NEW x \in Actors, NEW y \in Actors, <<x, y>> \in owed, Capacity[x] = 0
                 PROVE  /\ Spawned(x)
                        /\ \/ phase[y] \in LoopPhases \cup {"exiting"} /\ watchers[y][x] > 0
                           \/ phase[y] = "notifying" /\ due'[y][x] > 0
                           \/ phase[y] \in {"unwinding", "crashed"}
                           \/ phase[x] \in {"ended", "crashed"}
                           \/ <<x, y>> \in told'
      BY <1>1 DEF OwedIsDue, Spawned
    <2>1. CASE x = w /\ y = a
      <3>1. Spawned(w)
        BY <2>1 DEF EndInv, OwedIsDue
      <3>2. CASE IsClosed(w)
        BY <2>1, <3>1, <3>2 DEF IsClosed, Spawned
      <3>3. CASE ~IsClosed(w)
        <4>1. SendResult(w) = "ok"
          BY <2>1, <3>3 DEF SendResult, IsFull
        <4>2. <<w, a>> \in told'
          BY <4>1 DEF NotifyWatcher
        <4> QED
          BY <2>1, <3>1, <4>2
      <3> QED
        BY <3>2, <3>3
    <2>2. CASE ~(x = w /\ y = a)
      BY <1>3, <1>4, <2>2 DEF EndInv, OwedIsDue
    <2> QED
      BY <2>1, <2>2
  <1> QED
    BY <1>5, <1>6, <1>7 DEF EndInv

LEMMA EndTaskStep ==
    ASSUME TypeOK, EndInv, NEW a \in Actors, TaskStep(a)
    PROVE  EndInv'
  <1>0. /\ {"starting", "recv", "admitted", "handling", "panicked", "completing"} \subseteq LoopPhases
        /\ {"exiting", "notifying", "signalled", "ended"} \cap LoopPhases = {}
    BY DEF LoopPhases, Terminal, Phases
  <1>1. CASE StartOk(a) \/ TaskUnwinds(a)
    BY <1>0, <1>1, EndLoop DEF StartOk, TaskUnwinds, refVars, stopVars, endVars
  <1>2. CASE ReceiveStop(a)
    <2>1. ~alive'[a]
      BY <1>2 DEF ReceiveStop, LeaveLoop, TypeOK, TaskType
    <2> QED
      BY <1>0, <1>2, <2>1, EndLoop DEF ReceiveStop, LeaveLoop, refVars, stopVars, endVars
  <1>3. CASE Reject(a)
    BY <1>3, EndFrame DEF Reject, refVars, stopVars, endVars
  <1>4. CASE Admit(a) \/ AbortHandler(a) \/ HandlerReturns(a) \/ SendReply(a) \/ HandlerPanics(a) \/ HookPanics(a)
    BY <1>0, <1>4, EndLoop DEF Admit, AbortHandler, HandlerReturns, SendReply, HandlerPanics, HookPanics,
                               refVars, stopVars, endVars
  <1>5. CASE Dispatch(a)
    BY <1>0, <1>5, EndLoop DEF Dispatch, refVars, stopVars, endVars
  <1>6. CASE OnError(a)
    <2>1. LeaveLoop(a) => ~alive'[a]
      BY DEF LeaveLoop, TypeOK, TaskType
    <2> QED
      BY <1>0, <1>6, <2>1, EndLoop DEF OnError, LeaveLoop, refVars, stopVars, endVars
  <1>7. CASE RunOnStop(a)
    <2>1. /\ UNCHANGED <<alive, held, registry, owed, told, stopRx>>
          /\ phase[a] = "exiting" /\ phase'[a] = "notifying"
          /\ \A b \in Actors \ {a} : /\ phase'[b] = phase[b] /\ due'[b] = due[b]
                                     /\ watchers'[b] = watchers[b]
          /\ due'[a] = watchers[a]
      BY <1>7 DEF RunOnStop, refVars, TypeOK, TaskType, StopType
    <2>2. RefsSpawned'
      BY <2>1 DEF EndInv, RefsSpawned, Spawned, TypeOK, RefType
    <2>3. ToldPhase' /\ ReturnedSignalled'
      BY <2>1 DEF EndInv, ToldPhase, ReturnedSignalled, StopSignalled
    <2>4. DeadWhenDown'
      BY <2>1 DEF EndInv, DeadWhenDown, Terminal
    <2>5. OwedIsDue'
      BY <1>0, <2>1 DEF EndInv, OwedIsDue, Spawned
    <2> QED
      BY <2>2, <2>3, <2>4, <2>5 DEF EndInv
  <1>8. ASSUME NEW w \in Actors, NotifyWatcher(a, w)
        PROVE  EndInv'
    BY <1>8, EndNotify
  <1>9. CASE SignalStop(a)
    <2>1. /\ UNCHANGED <<alive, held, registry, watchers, due, owed, told, stopRx>>
          /\ phase[a] = "notifying" /\ phase'[a] = "signalled"
          /\ \A b \in Actors \ {a} : phase'[b] = phase[b]
          /\ \A w \in Actors : due[a][w] = 0
      BY <1>9 DEF SignalStop, NoEntries, refVars, stopVars, TypeOK, TaskType
    <2>2. RefsSpawned'
      BY <2>1 DEF EndInv, RefsSpawned, Spawned, TypeOK, RefType
    <2>3. ToldPhase' /\ ReturnedSignalled'
      BY <2>1 DEF EndInv, ToldPhase, ReturnedSignalled, StopSignalled
    <2>4. DeadWhenDown'
      BY <2>1 DEF EndInv, DeadWhenDown, Terminal
    <2>5. OwedIsDue'
      BY <1>0, <2>1 DEF EndInv, OwedIsDue, Spawned
    <2> QED
      BY <2>2, <2>3, <2>4, <2>5 DEF EndInv
  <1>10. CASE EndTask(a)
    <2>1. /\ UNCHANGED <<alive, held, watchers, due, owed, told, stopRx>>
          /\ phase[a] = "signalled" /\ phase'[a] = "ended"
          /\ \A b \in Actors \ {a} : phase'[b] = phase[b]
          /\ \A k \in Names : registry'[k] \in {registry[k], None}
      BY <1>10 DEF EndTask, TypeOK, TaskType, RefType
    <2>2. RefsSpawned'
      <3>1. \A k \in Names : registry[k] # None =>
                registry[k] \in Actors /\ phase[registry[k]] # "unborn"
        BY DEF EndInv, RefsSpawned, TypeOK, RefType, Spawned
      <3>2. \A k \in Names : registry'[k] # None => phase'[registry'[k]] # "unborn"
        BY <2>1, <3>1
      <3>3. \A b \in Actors : held'[b] => phase'[b] # "unborn"
        BY <2>1 DEF EndInv, RefsSpawned, Spawned
      <3> QED
        BY <3>2, <3>3 DEF RefsSpawned, Spawned
    <2>3. ToldPhase' /\ ReturnedSignalled'
      BY <2>1 DEF EndInv, ToldPhase, ReturnedSignalled, StopSignalled
    <2>4. DeadWhenDown'
      BY <2>1 DEF EndInv, DeadWhenDown, Terminal
    <2>5. OwedIsDue'
      BY <1>0, <2>1 DEF EndInv, OwedIsDue, Spawned
    <2> QED
      BY <2>2, <2>3, <2>4, <2>5 DEF EndInv
  <1> QED
    BY <1>1, <1>2, <1>3, <1>4, <1>5, <1>6, <1>7, <1>8, <1>9, <1>10 DEF TaskStep

LEMMA EndInvariant == Spec => []EndInv
  <1>1. TypeOK /\ EndInv /\ [Next]_vars => EndInv'
    <2> SUFFICES ASSUME TypeOK, EndInv, [Next]_vars PROVE EndInv'
      OBVIOUS
    <2>1. CASE Next
      BY <2>1, EndUserStep, EndTaskStep DEF Next
    <2>2. CASE UNCHANGED vars
      BY <2>2, EndFrame DEF vars, endVars
    <2> QED
      BY <2>1, <2>2
  <1> QED
    BY <1>1, InitEnd, TypeCorrect, PTL DEF Spec

\* Termination is final for whoever hears of it: a ChildTerminated under way and
\* an await_stop that returned both mean that the task is out of its loop and that
\* is_alive() is false for good, however many actors stop, watch and await.
THEOREM TerminationIsForGood == Spec => []TerminationIsFinal
  <1>1. EndInv => TerminationIsFinal
    BY DEF EndInv, ToldPhase, ReturnedSignalled, DeadWhenDown, TerminationIsFinal, StopSignalled,
           Terminal, IsAlive, IsClosed
  <1> QED
    BY <1>1, EndInvariant, PTL

\* A watch made while its target reports to be alive is never missed: `alive' is
\* cleared before the entries are taken from the map, so an entry added in time is
\* among those the terminating task notifies.
THEOREM TimelyWatchIsTold == Spec => []AliveWatchIsTold
  <1>1. EndInv => AliveWatchIsTold
    BY DEF EndInv, OwedIsDue, AliveWatchIsTold, IsClosed, LoopPhases, Terminal
  <1> QED
    BY <1>1, EndInvariant, PTL

-----------------------------------------------------------------------------
(***************************************************************************)
(* What a reply tells its caller.                                          *)
(***************************************************************************)

\* No message is twice in a mailbox.
OnceIn(q) == \A i, j \in 1..Len(q) : q[i] = q[j] /\ q[i] \in Msgs => i = j

\* A message in a mailbox is queued there only.
LettersOK(mb, ft) ==
    /\ \A a \in Actors : OnceIn(mb[a]) /\ \A m \in Msgs : m \in Elems(mb[a]) => ft[m] = "queued"
    /\ \A a, b \in Actors : \A m \in Msgs : m \in Elems(mb[a]) /\ m \in Elems(mb[b]) => a = b

\* How far the message m is with a task in phase p.
HandOK(p, m, ft, st, cp) ==
    /\ ft[m] = "current"
    /\ p = "admitted" => m \notin st /\ cp[m] = 0
    /\ p \in {"handling", "panicked"} => m \in st /\ cp[m] = 0
    /\ p = "completing" => m \in st /\ cp[m] = 1

\* A message is in one task's hands only.
HandsOK(ph, cr, ft, st, cp) ==
    /\ \A a \in Actors : cr[a] \in Msgs => HandOK(ph[a], cr[a], ft, st, cp)
    /\ \A a, b \in Actors : cr[a] = cr[b] /\ cr[a] \in Msgs => a = b

\* Nobody has worked on a message before its time, and a reply is given last.
Pending == {"new", "queued", "current"}
RecordOK(m, ft, rp, st, cp) ==
    /\ ft[m] \in {"new", "queued"} => m \notin st /\ cp[m] = 0
    /\ m \in Asks /\ rp[m] \in {"cancelled", "rejected"} => m \notin st /\ cp[m] = 0 /\ ft[m] \notin Pending
    /\ m \in Asks /\ rp[m] = "ok" => m \in st /\ cp[m] = 1 /\ ft[m] \notin Pending
RecordsOK(ft, rp, st, cp) == \A m \in Msgs : RecordOK(m, ft, rp, st, cp)

Letters == LettersOK(mailbox, fate)
Hands   == HandsOK(phase, cur, fate, started, completed)
Records == RecordsOK(fate, reply, started, completed)

\* ReplyIsTruthful needs to know that no other copy of the message is anywhere.
TruthInv == Letters /\ Hands /\ Records

\* The histories of message k are as before.
Same(k) ==
    /\ fate'[k] = fate[k] /\ completed'[k] = completed[k] /\ (k \in started' <=> k \in started)
    /\ k \in Asks => reply'[k] = reply[k]

LEMMA OnceAppend ==
    ASSUME NEW S, NEW q \in Seq(S), OnceIn(q), NEW i \in S, i \in Msgs => i \notin Elems(q)
    PROVE  OnceIn(Append(q, i))
  <1>1. /\ Len(Append(q, i)) = Len(q) + 1 /\ Len(q) \in Nat /\ DOMAIN q = 1..Len(q)
        /\ Append(q, i)[Len(q) + 1] = i
        /\ \A k \in 1..Len(q) : Append(q, i)[k] = q[k]
    OBVIOUS
  <1>2. \A k \in 1..(Len(q) + 1) : k = Len(q) + 1 \/ k \in 1..Len(q)
    BY <1>1
  <1>3. \A k \in 1..Len(q) : q[k] \in Elems(q)
    BY <1>1 DEF Elems
  <1> DEFINE a == Append(q, i)
             n == Len(q)
  <1> SUFFICES ASSUME NEW j \in 1..(n + 1), NEW k \in 1..(n + 1), a[j] = a[k], a[j] \in Msgs PROVE j = k
    BY <1>1 DEF OnceIn
  <1> HIDE DEF a
  <1>4. CASE j \in 1..n /\ k \in 1..n
    BY <1>1, <1>4 DEF OnceIn, a
  <1>5. CASE j = n + 1 /\ k \in 1..n
    BY <1>1, <1>3, <1>5 DEF a
  <1>6. CASE k = n + 1 /\ j \in 1..n
    BY <1>1, <1>3, <1>6 DEF a
  <1> QED
    BY <1>2, <1>4, <1>5, <1>6

LEMMA OnceTail ==
    ASSUME NEW S, NEW q \in Seq(S), q # <<>>, OnceIn(q)
    PROVE  OnceIn(Tail(q)) /\ (Head(q) \in Msgs => Head(q) \notin Elems(Tail(q)))
  <1>1. /\ Len(q) \in Nat /\ Len(q) > 0 /\ Head(q) = q[1] /\ Len(Tail(q)) = Len(q) - 1
        /\ DOMAIN Tail(q) = 1..(Len(q) - 1)
        /\ \A i \in 1..(Len(q) - 1) : Tail(q)[i] = q[i + 1]
    OBVIOUS
  <1>2. \A i \in 1..(Len(q) - 1) : i + 1 \in 1..Len(q) /\ i + 1 # 1
    BY <1>1
  <1>3. OnceIn(Tail(q))
    <2> SUFFICES ASSUME NEW j \in 1..(Len(q) - 1), NEW k \in 1..(Len(q) - 1), Tail(q)[j] = Tail(q)[k], Tail(q)[j] \in Msgs
                 PROVE  j = k
      BY <1>1 DEF OnceIn
    <2>1. q[j + 1] = q[k + 1] /\ q[j + 1] \in Msgs
      BY <1>1
    <2>2. j + 1 = k + 1
      BY <1>2, <2>1 DEF OnceIn
    <2> QED
      BY <2>2
  <1>4. ASSUME Head(q) \in Msgs, Head(q) \in Elems(Tail(q)) PROVE FALSE
    <2>1. PICK i \in 1..(Len(q) - 1) : Tail(q)[i] = Head(q)
      BY <1>1, <1>4 DEF Elems
    <2>2. q[i + 1] = q[1] /\ 1 \in 1..Len(q)
      BY <1>1, <2>1
    <2> QED
      BY <1>1, <1>2, <1>4, <2>2 DEF OnceIn
  <1> QED
    BY <1>3, <1>4

LEMMA InitTruth == Init => TruthInv
  <1> SUFFICES ASSUME Init PROVE TruthInv
    OBVIOUS
  <1>1. \A a \in Actors : mailbox[a] = <<>> /\ Elems(mailbox[a]) = {} /\ cur[a] = None
    BY ElemsEmpty DEF Init
  <1>2. OnceIn(<<>>)
    BY DEF OnceIn
  <1>3. Letters
    BY <1>1, <1>2 DEF Letters, LettersOK
  <1>4. Hands
    BY <1>1, ConstantsAssumption DEF Hands, HandsOK
  <1>5. Records
    BY DEF Init, Records, RecordsOK, RecordOK, Msgs
  <1> QED
    BY <1>3, <1>4, <1>5 DEF TruthInv

LEMMA SameKeeps ==
    ASSUME NEW k \in Msgs, Same(k)
    PROVE  /\ RecordOK(k, fate, reply, started, completed) => RecordOK(k, fate', reply', started', completed')
           /\ \A p : HandOK(p, k, fate, started, completed) => HandOK(p, k, fate', started', completed')
  BY DEF Same, RecordOK, HandOK

\* Steps that move no message.
LEMMA TruthFrame ==
    ASSUME TypeOK, TruthInv, UNCHANGED <<mailbox, cur, fate, reply, started, completed>>,
           \A b \in Actors : cur[b] \in Msgs => phase'[b] = phase[b]
    PROVE  TruthInv'
  <1>1. Letters' /\ Records'
    BY DEF TruthInv, Letters, Records
  <1>2. Hands'
    BY DEF TruthInv, Hands, HandsOK
  <1> QED
    BY <1>1, <1>2 DEF TruthInv

\* An item that is no message is put into a mailbox.
LEMMA TruthAppend ==
    ASSUME TypeOK, TruthInv, NEW a \in Actors, NEW i \in Items \ Msgs,
           mailbox' = [mailbox EXCEPT ![a] = Append(@, i)],
           UNCHANGED <<phase, cur, fate, reply, started, completed>>
    PROVE  TruthInv'
  <1>1. mailbox \in [Actors -> Seq(Items)] /\ mailbox[a] \in Seq(Items)
    BY DEF TypeOK, TaskType
  <1>2. OnceIn(Append(mailbox[a], i)) /\ Elems(Append(mailbox[a], i)) = Elems(mailbox[a]) \cup {i}
    BY <1>1, OnceAppend, ElemsAppend DEF TruthInv, Letters, LettersOK
  <1>3. \A b \in Actors : mailbox'[b] = IF b = a THEN Append(mailbox[a], i) ELSE mailbox[b]
    BY <1>1
  <1>4. \A b \in Actors : OnceIn(mailbox'[b]) /\ \A m \in Msgs : m \in Elems(mailbox'[b]) <=> m \in Elems(mailbox[b])
    BY <1>2, <1>3 DEF TruthInv, Letters, LettersOK
  <1>5. Letters'
    BY <1>4 DEF TruthInv, Letters, LettersOK
  <1>6. Hands' /\ Records'
    BY DEF TruthInv, Hands, Records
  <1> QED
    BY <1>5, <1>6 DEF TruthInv

\* A new message is turned away, or put into a mailbox.
LEMMA TruthSend ==
    ASSUME TypeOK, HeldInv, TruthInv, NEW a \in Actors, NEW m \in Msgs, fate[m] = "new",
           UNCHANGED <<phase, cur>>, \A k \in Msgs : k # m => Same(k),
           RecordOK(m, fate', reply', started', completed'),
           \/ UNCHANGED mailbox
           \/ mailbox' = [mailbox EXCEPT ![a] = Append(@, m)] /\ fate'[m] = "queued"
    PROVE  TruthInv'
  <1>1. \A b \in Actors : m \notin Elems(mailbox[b]) /\ cur[b] # m
    BY DEF HeldInv, NewIsNowhere
  <1>2. Records'
    BY SameKeeps DEF TruthInv, Records, RecordsOK
  <1>3. Hands'
    BY <1>1, SameKeeps DEF TruthInv, Hands, HandsOK
  <1>4. Letters'
    <2>1. CASE UNCHANGED mailbox
      <3>1. \A k \in Msgs : k # m => fate'[k] = fate[k]
        BY DEF Same
      <3> QED
        BY <1>1, <2>1, <3>1 DEF TruthInv, Letters, LettersOK
    <2>2. CASE mailbox' = [mailbox EXCEPT ![a] = Append(@, m)] /\ fate'[m] = "queued"
      <3>1. mailbox \in [Actors -> Seq(Items)] /\ mailbox[a] \in Seq(Items) /\ m \in Items
        BY DEF TypeOK, TaskType, Items
      <3>2. OnceIn(Append(mailbox[a], m)) /\ Elems(Append(mailbox[a], m)) = Elems(mailbox[a]) \cup {m}
        BY <1>1, <3>1, OnceAppend, ElemsAppend DEF TruthInv, Letters, LettersOK
      <3>3. \A b \in Actors : mailbox'[b] = IF b = a THEN Append(mailbox[a], m) ELSE mailbox[b]
        BY <2>2, <3>1
      <3>4. \A b \in Actors : /\ OnceIn(mailbox'[b])
                              /\ \A k \in Msgs : k \in Elems(mailbox'[b]) <=> k \in Elems(mailbox[b]) \/ (b = a /\ k = m)
        BY <3>2, <3>3 DEF TruthInv, Letters, LettersOK
      <3>5. \A k \in Msgs : k # m => fate'[k] = fate[k]
        BY DEF Same
      <3> QED
        BY <1>1, <2>2, <3>4, <3>5 DEF TruthInv, Letters, LettersOK
    <2> QED
      BY <2>1, <2>2
  <1> QED
    BY <1>2, <1>3, <1>4 DEF TruthInv

\* A task takes the head h of its mailbox, and settles it or has it in hand.
LEMMA TruthTake ==
    ASSUME TypeOK, HeldInv, TruthInv, NEW a \in Actors, phase[a] = "recv", mailbox[a] # <<>>,
           mailbox' = [mailbox EXCEPT ![a] = Tail(@)], NEW h, h = Head(mailbox[a]),
           \A b \in Actors : b # a => phase'[b] = phase[b] /\ cur'[b] = cur[b],
           cur'[a] \in {None, h},
           \A k \in Msgs : k # h => Same(k),
           h \in Msgs => RecordOK(h, fate', reply', started', completed'),
           h \in Msgs /\ cur'[a] = h => HandOK(phase'[a], h, fate', started', completed')
    PROVE  TruthInv'
  <1>1. mailbox \in [Actors -> Seq(Items)] /\ mailbox[a] \in Seq(Items)
    BY DEF TypeOK, TaskType
  <1>2. OnceIn(Tail(mailbox[a])) /\ (h \in Msgs => h \notin Elems(Tail(mailbox[a])))
        /\ Elems(mailbox[a]) = {h} \cup Elems(Tail(mailbox[a]))
    BY <1>1, OnceTail, ElemsTake DEF TruthInv, Letters, LettersOK
  <1>3. \A b \in Actors : mailbox'[b] = IF b = a THEN Tail(mailbox[a]) ELSE mailbox[b]
    BY <1>1
  <1>4. h \in Msgs => fate[h] = "queued" /\ \A b \in Actors : b # a => h \notin Elems(mailbox[b])
    BY <1>2 DEF TruthInv, Letters, LettersOK
  <1>5. \A b \in Actors : /\ OnceIn(mailbox'[b])
                          /\ \A k \in Msgs : k \in Elems(mailbox'[b]) <=> k \in Elems(mailbox[b]) /\ k # h
    BY <1>2, <1>3, <1>4 DEF TruthInv, Letters, LettersOK
  <1>6. Letters'
    <2>1. \A k \in Msgs : k # h => fate'[k] = fate[k]
      BY DEF Same
    <2> QED
      BY <1>5, <2>1 DEF TruthInv, Letters, LettersOK
  <1>7. Records'
    BY SameKeeps DEF TruthInv, Records, RecordsOK
  <1>8. Hands'
    <2>1. \A b \in Actors : cur[b] \in Msgs => cur[b] # h
      BY <1>4 DEF TruthInv, Hands, HandsOK, HandOK
    <2>2. None \notin Msgs
      BY ConstantsAssumption
    <2>3. ASSUME NEW b \in Actors, cur'[b] \in Msgs PROVE HandOK(phase'[b], cur'[b], fate', started', completed')
      <3>1. CASE b = a
        BY <2>2, <2>3, <3>1
      <3>2. CASE b # a
        <4>1. cur[b] \in Msgs /\ cur'[b] = cur[b] /\ phase'[b] = phase[b] /\ cur[b] # h
          BY <2>1, <2>3, <3>2
        <4>2. HandOK(phase[b], cur[b], fate, started, completed)
          BY <4>1 DEF TruthInv, Hands, HandsOK
        <4> QED
          BY <4>1, <4>2, SameKeeps
      <3> QED
        BY <3>1, <3>2
    <2>4. ASSUME NEW b \in Actors, NEW c \in Actors, cur'[b] = cur'[c], cur'[b] \in Msgs PROVE b = c
      BY <2>1, <2>2, <2>4 DEF TruthInv, Hands, HandsOK
    <2> QED
      BY <2>3, <2>4 DEF Hands, HandsOK
  <1> QED
    BY <1>6, <1>7, <1>8 DEF TruthInv

\* A task goes on with the item c in hand, or is done with it.
LEMMA TruthWork ==
    ASSUME TypeOK, TruthInv, NEW a \in Actors, NEW c, c = cur[a], UNCHANGED mailbox,
           \A b \in Actors : b # a => phase'[b] = phase[b] /\ cur'[b] = cur[b],
           cur'[a] \in {None, c},
           \A k \in Msgs : k # c => Same(k),
           c \in Msgs => RecordOK(c, fate', reply', started', completed'),
           c \in Msgs /\ cur'[a] = c => HandOK(phase'[a], c, fate', started', completed')
    PROVE  TruthInv'
  <1>1. \A b \in Actors : \A m \in Msgs : m \in Elems(mailbox[b]) => m # c
    BY DEF TruthInv, Letters, LettersOK, Hands, HandsOK, HandOK
  <1>2. Letters'
    <2>1. \A k \in Msgs : k # c => fate'[k] = fate[k]
      BY DEF Same
    <2> QED
      BY <1>1, <2>1 DEF TruthInv, Letters, LettersOK
  <1>3. Records'
    BY SameKeeps DEF TruthInv, Records, RecordsOK
  <1>4. Hands'
    <2>1. \A b \in Actors : b # a /\ cur[b] \in Msgs => cur[b] # c
      BY DEF TruthInv, Hands, HandsOK
    <2>2. None \notin Msgs
      BY ConstantsAssumption
    <2>3. ASSUME NEW b \in Actors, cur'[b] \in Msgs PROVE HandOK(phase'[b], cur'[b], fate', started', completed')
      <3>1. CASE b = a
        BY <2>2, <2>3, <3>1
      <3>2. CASE b # a
        <4>1. cur[b] \in Msgs /\ cur'[b] = cur[b] /\ phase'[b] = phase[b] /\ cur[b] # c
          BY <2>1, <2>3, <3>2
        <4>2. HandOK(phase[b], cur[b], fate, started, completed)
          BY <4>1 DEF TruthInv, Hands, HandsOK
        <4> QED
          BY <4>1, <4>2, SameKeeps
      <3> QED
        BY <3>1, <3>2
    <2>4. ASSUME NEW b \in Actors, NEW d \in Actors, cur'[b] = cur'[d], cur'[b] \in Msgs PROVE b = d
      BY <2>1, <2>2, <2>4 DEF TruthInv, Hands, HandsOK
    <2> QED
      BY <2>3, <2>4 DEF Hands, HandsOK
  <1> QED
    BY <1>2, <1>3, <1>4 DEF TruthInv

\* A task that has nothing in hand ends and drops its mailbox.
LEMMA TruthDrop ==
    ASSUME TypeOK, TruthInv, NEW a \in Actors, DropMailbox(a), cur[a] = None,
           \A b \in Actors : b # a => phase'[b] = phase[b],
           UNCHANGED <<cur, started, completed>>
    PROVE  TruthInv'
  <1> DEFINE D == Elems(mailbox[a])
  <1>1. /\ \A b \in Actors : mailbox'[b] = IF b = a THEN <<>> ELSE mailbox[b]
        /\ \A m \in Msgs : fate'[m] = IF m \in D THEN "lost" ELSE fate[m]
        /\ \A m \in Asks : reply'[m] = IF m \in D THEN "closed" ELSE reply[m]
    BY DEF DropMailbox, TypeOK, TaskType
  <1>2. \A m \in Msgs : m \in D => fate[m] = "queued" /\ \A b \in Actors : m \in Elems(mailbox[b]) => b = a
    BY DEF TruthInv, Letters, LettersOK
  <1>3. OnceIn(<<>>) /\ Elems(<<>>) = {}
    BY ElemsEmpty DEF OnceIn
  <1> HIDE DEF D
  <1>4. Letters'
    <2>1. \A b \in Actors : /\ OnceIn(mailbox'[b])
                            /\ \A m \in Msgs : m \in Elems(mailbox'[b]) => m \in Elems(mailbox[b]) /\ m \notin D
      BY <1>1, <1>2, <1>3 DEF TruthInv, Letters, LettersOK
    <2> QED
      BY <1>1, <2>1 DEF TruthInv, Letters, LettersOK
  <1>5. ASSUME NEW m \in Msgs, m \notin D PROVE Same(m)
    BY <1>1, <1>5 DEF Same
  <1>6. Records'
    <2> SUFFICES ASSUME NEW m \in Msgs PROVE RecordOK(m, fate', reply', started', completed')
      BY DEF Records, RecordsOK
    <2>1. RecordOK(m, fate, reply, started, completed)
      BY DEF TruthInv, Records, RecordsOK
    <2>2. CASE m \in D
      BY <1>1, <2>2 DEF RecordOK
    <2>3. CASE m \notin D
      BY <1>5, <2>1, <2>3, SameKeeps
    <2> QED
      BY <2>2, <2>3
  <1>7. Hands'
    <2>1. \A b \in Actors : cur[b] \in Msgs => b # a /\ cur[b] \notin D
      BY <1>2, ConstantsAssumption DEF TruthInv, Hands, HandsOK, HandOK
    <2>2. ASSUME NEW b \in Actors, cur[b] \in Msgs PROVE HandOK(phase'[b], cur[b], fate', started', completed')
      <3>1. HandOK(phase[b], cur[b], fate, started, completed) /\ phase'[b] = phase[b]
        BY <2>1, <2>2 DEF TruthInv, Hands, HandsOK
      <3> QED
        BY <1>5, <2>1, <2>2, <3>1, SameKeeps
    <2> QED
      BY <2>2 DEF TruthInv, Hands, HandsOK
  <1> QED
    BY <1>4, <1>6, <1>7 DEF TruthInv

\* What resolving a reply channel and finishing an item change.
LEMMA ResolveAt ==
    ASSUME TypeOK, NEW i, NEW r
    PROVE  \A k \in Asks : Resolve(i, r)[k] = IF k = i THEN r ELSE reply[k]
  BY DEF Resolve, TypeOK, MsgType

\* What becomes of `fate' when item i, if it is a message, fares as f.
FateSet(i, f) == IF i \in Msgs THEN [fate EXCEPT ![i] = f] ELSE fate

LEMMA SetFate ==
    ASSUME TypeOK, NEW i, NEW f
    PROVE  \A k \in Msgs : FateSet(i, f)[k] = IF k = i THEN f ELSE fate[k]
  BY DEF FateSet, TypeOK, MsgType

LEMMA CompleteAt ==
    ASSUME TypeOK, NEW i
    PROVE  \A k \in Msgs : OnComplete(i)[k] = IF k = i THEN completed[k] + 1 ELSE completed[k]
  BY DEF OnComplete, TypeOK, MsgType

LEMMA TruthUserStep ==
    ASSUME TypeOK, HeldInv, TruthInv, UserStep
    PROVE  TruthInv'
  <1>0. None \notin Msgs /\ Asks \subseteq Msgs
    BY ConstantsAssumption DEF Msgs
  <1>1. ASSUME NEW a \in Actors, NEW n \in Names, NEW o \in Strategies \cup {None}, Spawn(a, n, o)
        PROVE  TruthInv'
    <2>1. cur[a] = None
      BY <1>1 DEF Spawn, Spawned, HeldInv, CurPhase
    <2>2. UNCHANGED <<mailbox, cur, fate, reply, started, completed>>
      BY <1>1 DEF Spawn, msgVars
    <2>3. \A b \in Actors : b # a => phase'[b] = phase[b]
      BY <1>1 DEF Spawn, TypeOK, TaskType
    <2> QED
      BY <1>0, <2>1, <2>2, <2>3, TruthFrame
  <1>2. ASSUME NEW a \in Actors, NEW m \in Msgs, OutboundStop(a, m)
        PROVE  TruthInv'
    <2>1. /\ fate[m] = "new" /\ UNCHANGED <<phase, mailbox, cur, started, completed>>
          /\ \A k \in Msgs : fate'[k] = IF k = m THEN "intercepted" ELSE fate[k]
          /\ \A k \in Asks : reply'[k] = IF k = m THEN "rejected" ELSE reply[k]
      BY <1>2, ResolveAt DEF OutboundStop, taskVars, TypeOK, MsgType
    <2>2. \A k \in Msgs : k # m => Same(k)
      BY <2>1 DEF Same
    <2>3. RecordOK(m, fate', reply', started', completed')
      BY <2>1 DEF TruthInv, Records, RecordsOK, RecordOK, Pending
    <2> QED
      BY <2>1, <2>2, <2>3, TruthSend
  <1>3. ASSUME NEW a \in Actors, NEW m \in Msgs, Send(a, m)
        PROVE  TruthInv'
    <2>1. fate[m] = "new" /\ UNCHANGED <<phase, cur, started, completed>>
      BY <1>3 DEF Send
    <2>2. PICK f \in {"queued", "lost", "refusedFull", "refusedStopped"} : fate' = [fate EXCEPT ![m] = f]
      BY <1>3 DEF Send
    <2>3. reply' \in {reply, Resolve(m, "waiting"), Resolve(m, "closed")}
      BY <1>3 DEF Send
    <2>4. mailbox' = mailbox \/ (mailbox' = [mailbox EXCEPT ![a] = Append(@, m)] /\ fate' = [fate EXCEPT ![m] = "queued"])
      BY <1>3 DEF Send
    <2>5. /\ \A k \in Msgs : fate'[k] = IF k = m THEN f ELSE fate[k]
          /\ fate' = [fate EXCEPT ![m] = "queued"] => fate'[m] = "queued"
      BY <2>2 DEF TypeOK, MsgType
    <2>6. (\A k \in Asks : k # m => reply'[k] = reply[k]) /\ (m \in Asks => reply'[m] \in {reply[m], "waiting", "closed"})
      BY <2>3, ResolveAt
    <2>7. \A k \in Msgs : k # m => Same(k)
      BY <2>1, <2>5, <2>6 DEF Same
    <2>8. RecordOK(m, fate', reply', started', completed')
      BY <2>1, <2>5, <2>6 DEF TruthInv, Records, RecordsOK, RecordOK, Pending
    <2> QED
      BY <2>1, <2>4, <2>5, <2>7, <2>8, TruthSend
  <1>4. ASSUME NEW m \in Msgs, Cancel(m)
        PROVE  TruthInv'
    BY <1>4, TruthFrame DEF Cancel, taskVars
  <1>5. ASSUME NEW a \in Actors, Stop(a)
        PROVE  TruthInv'
    <2>1. None \in Items \ Msgs
      BY <1>0 DEF Items
    <2>2. CASE IsClosed(a) \/ IsFull(a)
      <3>1. UNCHANGED <<phase, mailbox, cur, fate, reply, started, completed>>
        BY <1>5, <2>2 DEF Stop, msgVars, TypeOK, TaskType
      <3> QED
        BY <3>1, TruthFrame
    <2>3. CASE ~(IsClosed(a) \/ IsFull(a))
      <3>1. mailbox' = [mailbox EXCEPT ![a] = Append(@, None)]
        BY <1>5, <2>3 DEF Stop
      <3> QED
        BY <1>5, <2>1, <3>1, TruthAppend DEF Stop, msgVars
    <2> QED
      BY <2>2, <2>3
  <1>6. ASSUME NEW a \in Actors, DropRefs(a) \/ AwaitStop(a) \/ AwaitReturns(a)
        PROVE  TruthInv'
    BY <1>6, TruthFrame DEF DropRefs, AwaitStop, AwaitReturns, taskVars, msgVars
  <1>7. ASSUME NEW n \in Names, Lookup(n) \/ Unregister(n)
        PROVE  TruthInv'
    BY <1>7, TruthFrame DEF Lookup, Unregister, taskVars, msgVars
  <1>8. ASSUME NEW w \in Actors, NEW t \in Actors, Watch(w, t) \/ Unwatch(w, t)
        PROVE  TruthInv'
    BY <1>8, TruthFrame DEF Watch, Unwatch, taskVars, msgVars
  <1>9. CASE AwaitAll \/ CleanupFinished
    BY <1>9, TruthFrame DEF AwaitAll, CleanupFinished, taskVars, msgVars
  <1> QED
    BY <1>1, <1>2, <1>3, <1>4, <1>5, <1>6, <1>7, <1>8, <1>9 DEF UserStep

\* The steps that work on the item in hand.
LEMMA TruthLoopStep ==
    ASSUME TypeOK, HeldInv, TruthInv, NEW a \in Actors,
           \/ Dispatch(a) \/ AbortHandler(a) \/ HandlerReturns(a) \/ SendReply(a) \/ HandlerPanics(a) \/ OnError(a)
           \/ HookPanics(a)
    PROVE  TruthInv'
  <1> DEFINE c == cur[a]
  <1>0. /\ None \notin Msgs /\ Asks \subseteq Msgs /\ cancelled \subseteq Asks /\ UNCHANGED mailbox
        /\ \A b \in Actors : b # a => phase'[b] = phase[b]
    BY ConstantsAssumption
    DEF Msgs, Dispatch, AbortHandler, HandlerReturns, SendReply, HandlerPanics, OnError, HookPanics,
        LeaveLoop, TypeOK, TaskType, MsgType
  <1>1. c \in Msgs => HandOK(phase[a], c, fate, started, completed) /\ RecordOK(c, fate, reply, started, completed)
    BY DEF TruthInv, Hands, HandsOK, Records, RecordsOK
  <1>2. ASSUME NEW f, Finish(a, f)
        PROVE  /\ cur'[a] = None /\ (\A b \in Actors : b # a => cur'[b] = cur[b])
               /\ \A k \in Msgs : fate'[k] = IF k = c THEN f ELSE fate[k]
    <2>1. cur'[a] = None /\ (\A b \in Actors : b # a => cur'[b] = cur[b])
      BY <1>2 DEF Finish, TypeOK, TaskType
    <2>2. fate' = FateSet(c, f)
      BY <1>2 DEF Finish, FateSet
    <2> HIDE DEF c
    <2> QED
      BY <2>1, <2>2, SetFate
  <1>3. CASE Dispatch(a) /\ c \in cancelled
    <2>1. Finish(a, "cancelled") /\ reply' = Resolve(c, "cancelled") /\ UNCHANGED <<started, completed>> /\ phase[a] = "admitted"
      BY <1>3 DEF Dispatch
    <2>2. \A k \in Asks : reply'[k] = IF k = c THEN "cancelled" ELSE reply[k]
      BY <2>1, ResolveAt
    <2>3. \A k \in Msgs : k # c => Same(k)
      BY <1>2, <2>1, <2>2 DEF Same
    <2>4. c \in Msgs => RecordOK(c, fate', reply', started', completed')
      BY <1>1, <1>2, <2>1, <2>2 DEF HandOK, RecordOK, Pending
    <2> QED
      BY <1>0, <1>2, <2>1, <2>3, <2>4, TruthWork
  <1>4. CASE Dispatch(a) /\ c \notin cancelled
    <2>1. /\ phase[a] = "admitted" /\ phase' = [phase EXCEPT ![a] = "handling"]
          /\ started' = (started \cup {c}) \cap Msgs /\ UNCHANGED <<cur, fate, reply, completed>>
      BY <1>4 DEF Dispatch
    <2>2. phase'[a] = "handling" /\ started \subseteq Msgs
      BY <2>1 DEF TypeOK, TaskType, MsgType
    <2>3. \A k \in Msgs : k # c => Same(k)
      BY <2>1, <2>2 DEF Same
    <2>4. c \in Msgs => /\ RecordOK(c, fate', reply', started', completed')
                        /\ HandOK(phase'[a], c, fate', started', completed')
      BY <1>1, <2>1, <2>2 DEF HandOK, RecordOK, Pending
    <2> QED
      BY <1>0, <2>1, <2>3, <2>4, TruthWork
  <1>5. CASE AbortHandler(a) \/ SendReply(a) \/ HookPanics(a)
    <2>1. PICK f \in {"aborted", "handled", "panicked"}, r \in {"closed", "ok"} :
              /\ Finish(a, f) /\ reply' = Resolve(c, r) /\ UNCHANGED <<started, completed>>
              /\ r = "ok" => phase[a] = "completing"
      BY <1>5 DEF AbortHandler, SendReply, HookPanics
    <2>2. \A k \in Asks : reply'[k] = IF k = c THEN r ELSE reply[k]
      BY <2>1, ResolveAt
    <2>3. \A k \in Msgs : k # c => Same(k)
      BY <1>2, <2>1, <2>2 DEF Same
    <2>4. c \in Msgs => RecordOK(c, fate', reply', started', completed')
      BY <1>1, <1>2, <2>1, <2>2 DEF HandOK, RecordOK, Pending
    <2> QED
      BY <1>0, <1>2, <2>1, <2>3, <2>4, TruthWork
  <1>6. CASE HandlerReturns(a)
    <2>1. /\ phase[a] = "handling" /\ phase' = [phase EXCEPT ![a] = "completing"] /\ completed' = OnComplete(c)
          /\ UNCHANGED <<cur, fate, reply, started>>
      BY <1>6 DEF HandlerReturns
    <2>2. phase'[a] = "completing" /\ \A k \in Msgs : completed'[k] = IF k = c THEN completed[k] + 1 ELSE completed[k]
      BY <2>1, CompleteAt DEF TypeOK, TaskType
    <2>3. \A k \in Msgs : k # c => Same(k)
      BY <2>1, <2>2 DEF Same
    <2>4. c \in Msgs => /\ RecordOK(c, fate', reply', started', completed')
                        /\ HandOK(phase'[a], c, fate', started', completed')
      BY <1>1, <2>1, <2>2 DEF HandOK, RecordOK, Pending
    <2> QED
      BY <1>0, <2>1, <2>3, <2>4, TruthWork
  <1>7. CASE HandlerPanics(a)
    <2>1. /\ phase[a] = "handling" /\ phase' = [phase EXCEPT ![a] = "panicked"] /\ reply' = Resolve(c, "closed")
          /\ UNCHANGED <<cur, fate, completed, started>>
      BY <1>7 DEF HandlerPanics
    <2>2. phase'[a] = "panicked" /\ \A k \in Asks : reply'[k] = IF k = c THEN "closed" ELSE reply[k]
      BY <2>1, ResolveAt DEF TypeOK, TaskType
    <2>3. \A k \in Msgs : k # c => Same(k)
      BY <2>1, <2>2 DEF Same
    <2>4. c \in Msgs => /\ RecordOK(c, fate', reply', started', completed')
                        /\ HandOK(phase'[a], c, fate', started', completed')
      BY <1>1, <2>1, <2>2 DEF HandOK, RecordOK, Pending
    <2> QED
      BY <1>0, <2>1, <2>3, <2>4, TruthWork
  <1>8. CASE OnError(a)
    <2>1. Finish(a, "panicked") /\ completed' = OnComplete(c) /\ UNCHANGED <<reply, started>> /\ phase[a] = "panicked"
      BY <1>8 DEF OnError
    <2>2. \A k \in Msgs : completed'[k] = IF k = c THEN completed[k] + 1 ELSE completed[k]
      BY <2>1, CompleteAt
    <2>3. \A k \in Msgs : k # c => Same(k)
      BY <1>2, <2>1, <2>2 DEF Same
    <2>4. c \in Msgs => RecordOK(c, fate', reply', started', completed')
      BY <1>1, <1>2, <2>1, <2>2 DEF HandOK, RecordOK, Pending
    <2> QED
      BY <1>0, <1>2, <2>1, <2>3, <2>4, TruthWork
  <1> QED
    BY <1>3, <1>4, <1>5, <1>6, <1>7, <1>8

LEMMA TruthTaskStep ==
    ASSUME TypeOK, HeldInv, TruthInv, NEW a \in Actors, TaskStep(a)
    PROVE  TruthInv'
  <1>0. None \notin Msgs /\ Asks \subseteq Msgs
    BY ConstantsAssumption DEF Msgs
  <1>1. CASE StartOk(a) \/ RunOnStop(a) \/ SignalStop(a)
    <2>1. cur[a] = None
      BY <1>1 DEF StartOk, RunOnStop, SignalStop, HeldInv, CurPhase
    <2>2. UNCHANGED <<mailbox, cur, fate, reply, started, completed>>
      BY <1>1 DEF StartOk, RunOnStop, SignalStop, msgVars
    <2>3. \A b \in Actors : b # a => phase'[b] = phase[b]
      BY <1>1 DEF StartOk, RunOnStop, SignalStop, TypeOK, TaskType
    <2> QED
      BY <1>0, <2>1, <2>2, <2>3, TruthFrame
  <1>2. CASE TaskUnwinds(a) \/ EndTask(a)
    <2>1. cur[a] = None
      BY <1>2 DEF TaskUnwinds, EndTask, HeldInv, CurPhase
    <2>2. DropMailbox(a) /\ UNCHANGED <<cur, started, completed>>
      BY <1>2 DEF TaskUnwinds, EndTask
    <2>3. \A b \in Actors : b # a => phase'[b] = phase[b]
      BY <1>2 DEF TaskUnwinds, EndTask, TypeOK, TaskType
    <2> QED
      BY <2>1, <2>2, <2>3, TruthDrop
  <1>3. CASE ReceiveStop(a)
    <2>1. cur[a] = None /\ phase[a] = "recv" /\ UNCHANGED <<cur, fate, reply, started, completed>>
      BY <1>3 DEF ReceiveStop, HeldInv, CurPhase, msgVars
    <2>2. \A b \in Actors : b # a => phase'[b] = phase[b]
      BY <1>3 DEF ReceiveStop, LeaveLoop, TypeOK, TaskType
    <2>3. CASE mailbox[a] # <<>>
      <3> DEFINE h == Head(mailbox[a])
      <3>1. mailbox' = [mailbox EXCEPT ![a] = Tail(@)] /\ h = None
        BY <1>3, <2>3 DEF ReceiveStop
      <3>2. \A k \in Msgs : k # h => Same(k)
        BY <2>1 DEF Same
      <3> QED
        BY <1>0, <2>1, <2>2, <2>3, <3>1, <3>2, TruthTake
    <2>4. CASE mailbox[a] = <<>>
      <3>1. UNCHANGED mailbox
        BY <1>3, <2>4 DEF ReceiveStop
      <3> QED
        BY <1>0, <2>1, <2>2, <3>1, TruthFrame
    <2> QED
      BY <2>3, <2>4
  <1>4. CASE Reject(a)
    <2> DEFINE h == Head(mailbox[a])
    <2>1. /\ phase[a] = "recv" /\ mailbox[a] # <<>> /\ mailbox' = [mailbox EXCEPT ![a] = Tail(@)]
          /\ fate' = (IF h \in Msgs THEN [fate EXCEPT ![h] = "rejected"] ELSE fate)
          /\ reply' = Resolve(h, "rejected") /\ UNCHANGED <<phase, cur, started, completed>>
      BY <1>4 DEF Reject
    <2>2. cur[a] = None
      BY <2>1 DEF HeldInv, CurPhase
    <2>3. /\ \A k \in Msgs : fate'[k] = IF k = h THEN "rejected" ELSE fate[k]
          /\ \A k \in Asks : reply'[k] = IF k = h THEN "rejected" ELSE reply[k]
      <3>1. fate' = FateSet(h, "rejected") /\ reply' = Resolve(h, "rejected")
        BY <2>1 DEF FateSet
      <3> HIDE DEF h
      <3> QED
        BY <3>1, SetFate, ResolveAt
    <2>4. \A k \in Msgs : k # h => Same(k)
      BY <2>1, <2>3 DEF Same
    <2>5. h \in Msgs => fate[h] = "queued"
      <3>1. mailbox[a] \in Seq(Items)
        BY DEF TypeOK, TaskType
      <3>2. h \in Elems(mailbox[a])
        BY <2>1, <3>1, ElemsTake
      <3> QED
        BY <3>2 DEF TruthInv, Letters, LettersOK
    <2>6. h \in Msgs => RecordOK(h, fate', reply', started', completed')
      BY <2>1, <2>3, <2>5 DEF TruthInv, Records, RecordsOK, RecordOK, Pending
    <2> HIDE DEF h
    <2> QED
      BY <1>0, <2>1, <2>2, <2>4, <2>6, TruthTake DEF h
  <1>5. CASE Admit(a)
    <2> DEFINE h == Head(mailbox[a])
    <2>1. /\ phase[a] = "recv" /\ mailbox[a] # <<>> /\ mailbox' = [mailbox EXCEPT ![a] = Tail(@)]
          /\ fate' = (IF h \in Msgs THEN [fate EXCEPT ![h] = "current"] ELSE fate)
          /\ cur' = [cur EXCEPT ![a] = h] /\ phase' = [phase EXCEPT ![a] = "admitted"]
          /\ UNCHANGED <<reply, started, completed>>
      BY <1>5 DEF Admit
    <2>2. cur'[a] = h /\ phase'[a] = "admitted" /\ \A b \in Actors : b # a => phase'[b] = phase[b] /\ cur'[b] = cur[b]
      BY <2>1 DEF TypeOK, TaskType
    <2>3. \A k \in Msgs : fate'[k] = IF k = h THEN "current" ELSE fate[k]
      <3>1. fate' = FateSet(h, "current")
        BY <2>1 DEF FateSet
      <3> HIDE DEF h
      <3> QED
        BY <3>1, SetFate
    <2>4. \A k \in Msgs : k # h => Same(k)
      BY <2>1, <2>3 DEF Same
    <2>5. h \in Msgs => fate[h] = "queued"
      <3>1. mailbox[a] \in Seq(Items)
        BY DEF TypeOK, TaskType
      <3>2. h \in Elems(mailbox[a])
        BY <2>1, <3>1, ElemsTake
      <3> QED
        BY <3>2 DEF TruthInv, Letters, LettersOK
    <2>6. h \in Msgs => /\ RecordOK(h, fate', reply', started', completed')
                        /\ HandOK(phase'[a], h, fate', started', completed')
      BY <2>1, <2>2, <2>3, <2>5 DEF TruthInv, Records, RecordsOK, RecordOK, HandOK, Pending
    <2> HIDE DEF h
    <2> QED
      BY <2>1, <2>2, <2>4, <2>6, TruthTake DEF h
  <1>6. CASE \/ Dispatch(a) \/ AbortHandler(a) \/ HandlerReturns(a) \/ SendReply(a) \/ HandlerPanics(a) \/ OnError(a)
             \/ HookPanics(a)
    BY <1>6, TruthLoopStep
  <1>7. ASSUME NEW w \in Actors, NotifyWatcher(a, w)
        PROVE  TruthInv'
    <2>1. a \in Items \ Msgs
      BY ConstantsAssumption DEF Items
    <2>2. CASE SendResult(w) = "ok"
      BY <1>7, <2>1, <2>2, TruthAppend DEF NotifyWatcher, msgVars
    <2>3. CASE SendResult(w) # "ok"
      BY <1>7, <2>3, TruthFrame DEF NotifyWatcher, msgVars
    <2> QED
      BY <2>2, <2>3
  <1> QED
    BY <1>1, <1>2, <1>3, <1>4, <1>5, <1>6, <1>7 DEF TaskStep

LEMMA TruthInvariant == Spec => []TruthInv
  <1>1. TypeOK /\ HeldInv /\ TruthInv /\ [Next]_vars => TruthInv'
    <2> SUFFICES ASSUME TypeOK, HeldInv, TruthInv, [Next]_vars PROVE TruthInv'
      OBVIOUS
    <2>1. CASE Next
      BY <2>1, TruthUserStep, TruthTaskStep DEF Next
    <2>2. CASE UNCHANGED vars
      BY <2>2, TruthFrame DEF vars
    <2> QED
      BY <2>1, <2>2
  <1> QED
    BY <1>1, InitTruth, TypeCorrect, HeldInvariant, PTL DEF Spec

\* What the caller of an ask is told is true: a request answered with Cancelled or a
\* rejection was not worked on, and one that succeeded was completed once, whatever
\* was cancelled, stopped or panicked meanwhile.
THEOREM RepliesAreTruthful == Spec => []ReplyIsTruthful
  <1>1. TruthInv => ReplyIsTruthful
    <2>1. Asks \subseteq Msgs
      BY DEF Msgs
    <2> QED
      BY <2>1 DEF TruthInv, Records, RecordsOK, RecordOK, ReplyIsTruthful
  <1> QED
    BY <1>1, TruthInvariant, PTL

-----------------------------------------------------------------------------
(***************************************************************************)
(* Every step of the runtime is a step of the contract, or none.           *)
(***************************************************************************)

\* The refinement mapping, one actor and one message at a time.
LifeOf(p)      == IF p = "unborn" THEN "none" ELSE IF p \in Terminal THEN "down" ELSE "up"
BusyOf(p, c)   == IF p \in {"handling", "panicked", "completing"} /\ c \in Msgs THEN c ELSE None
StateOf(m, f, st) ==
    CASE f = "new" -> "new"
      [] f = "queued" -> "accepted"
      [] f = "current" -> IF m \in st THEN "running" ELSE "accepted"
      [] f = "handled" -> "done"
      [] OTHER -> "failed"

\* What a step does to the life and the work of one actor ...
SameLife(b)    == LifeOf(phase'[b]) = LifeOf(phase[b])
SameBusy(b)    == BusyOf(phase'[b], cur'[b]) = BusyOf(phase[b], cur[b])
LifeBecomes(a, v) == LifeOf(phase'[a]) = v /\ \A b \in Actors : b # a => SameLife(b)
BusyBecomes(a, v) == BusyOf(phase'[a], cur'[a]) = v /\ \A b \in Actors : b # a => SameBusy(b)

\* ... and to the states of messages.
SameState(m)   == StateOf(m, fate'[m], started') = StateOf(m, fate[m], started)
StateBecomes(m, v) == StateOf(m, fate'[m], started') = v /\ \A k \in Msgs : k # m => SameState(k)
FailExactly(M) == \A k \in Msgs : IF k \in M THEN StateOf(k, fate'[k], started') = "failed" ELSE SameState(k)

IsFcn(f, S) == f = [x \in S |-> f[x]]

LEMMA UpdateAt ==
    ASSUME NEW S, NEW f, NEW g, IsFcn(f, S), IsFcn(g, S), NEW a \in S, NEW v,
           g[a] = v, \A x \in S : x # a => g[x] = f[x]
    PROVE  g = [f EXCEPT ![a] = v]
  BY DEF IsFcn

LEMMA EqualAt ==
    ASSUME NEW S, NEW f, NEW g, IsFcn(f, S), IsFcn(g, S), \A x \in S : g[x] = f[x]
    PROVE  g = f
  BY DEF IsFcn

LEMMA Mapped ==
    /\ IsFcn(ContractLife, Actors) /\ IsFcn(ContractBusy, Actors) /\ IsFcn(ContractState, Msgs)
    /\ \A a \in Actors : ContractLife[a] = LifeOf(phase[a]) /\ ContractBusy[a] = BusyOf(phase[a], cur[a])
    /\ \A m \in Msgs : ContractState[m] = StateOf(m, fate[m], started)
  <1>1. IsFcn(ContractLife, Actors) /\ \A a \in Actors : ContractLife[a] = LifeOf(phase[a])
    BY DEF IsFcn, ContractLife, LifeOf
  <1>2. IsFcn(ContractBusy, Actors) /\ \A a \in Actors : ContractBusy[a] = BusyOf(phase[a], cur[a])
    BY DEF IsFcn, ContractBusy, BusyOf
  <1>3. IsFcn(ContractState, Msgs) /\ \A m \in Msgs : ContractState[m] = StateOf(m, fate[m], started)
    BY DEF IsFcn, ContractState, StateOf
  <1> QED
    BY <1>1, <1>2, <1>3

LEMMA MappedNext ==
    /\ IsFcn(ContractLife', Actors) /\ IsFcn(ContractBusy', Actors) /\ IsFcn(ContractState', Msgs)
    /\ \A a \in Actors : ContractLife'[a] = LifeOf(phase'[a]) /\ ContractBusy'[a] = BusyOf(phase'[a], cur'[a])
    /\ \A m \in Msgs : ContractState'[m] = StateOf(m, fate'[m], started')
  <1>1. IsFcn(ContractLife', Actors) /\ \A a \in Actors : ContractLife'[a] = LifeOf(phase'[a])
    BY DEF IsFcn, ContractLife, LifeOf
  <1>2. IsFcn(ContractBusy', Actors) /\ \A a \in Actors : ContractBusy'[a] = BusyOf(phase'[a], cur'[a])
    BY DEF IsFcn, ContractBusy, BusyOf
  <1>3. IsFcn(ContractState', Msgs) /\ \A m \in Msgs : ContractState'[m] = StateOf(m, fate'[m], started')
    BY DEF IsFcn, ContractState, StateOf
  <1> QED
    BY <1>1, <1>2, <1>3

LEMMA LifeSame ==
    ASSUME \A b \in Actors : SameLife(b)
    PROVE  ContractLife' = ContractLife
  BY Mapped, MappedNext, EqualAt DEF SameLife

LEMMA BusySame ==
    ASSUME \A b \in Actors : SameBusy(b)
    PROVE  ContractBusy' = ContractBusy
  BY Mapped, MappedNext, EqualAt DEF SameBusy

LEMMA StateSame ==
    ASSUME \A k \in Msgs : SameState(k)
    PROVE  ContractState' = ContractState
  BY Mapped, MappedNext, EqualAt DEF SameState

LEMMA LifeSet ==
    ASSUME NEW a \in Actors, NEW v, LifeBecomes(a, v)
    PROVE  ContractLife' = [ContractLife EXCEPT ![a] = v]
  <1>1. ContractLife'[a] = v /\ \A x \in Actors : x # a => ContractLife'[x] = ContractLife[x]
    BY Mapped, MappedNext DEF SameLife, LifeBecomes
  <1> QED
    BY <1>1, Mapped, MappedNext, UpdateAt

LEMMA BusySet ==
    ASSUME NEW a \in Actors, NEW v, BusyBecomes(a, v)
    PROVE  ContractBusy' = [ContractBusy EXCEPT ![a] = v]
  <1>1. ContractBusy'[a] = v /\ \A x \in Actors : x # a => ContractBusy'[x] = ContractBusy[x]
    BY Mapped, MappedNext DEF SameBusy, BusyBecomes
  <1> QED
    BY <1>1, Mapped, MappedNext, UpdateAt

LEMMA StateSet ==
    ASSUME NEW m \in Msgs, NEW v, StateBecomes(m, v)
    PROVE  ContractState' = [ContractState EXCEPT ![m] = v]
  <1>1. ContractState'[m] = v /\ \A x \in Msgs : x # m => ContractState'[x] = ContractState[x]
    BY Mapped, MappedNext DEF SameState, StateBecomes
  <1> QED
    BY <1>1, Mapped, MappedNext, UpdateAt

LEMMA StateFail ==
    ASSUME NEW M \in SUBSET Msgs, FailExactly(M)
    PROVE  ContractState' = [k \in Msgs |-> IF k \in M THEN "failed" ELSE ContractState[k]]
  <1> DEFINE g == [k \in Msgs |-> IF k \in M THEN "failed" ELSE ContractState[k]]
  <1>1. \A k \in Msgs : ContractState'[k] = g[k]
    BY Mapped, MappedNext DEF SameState, FailExactly
  <1>2. IsFcn(g, Msgs)
    BY DEF IsFcn
  <1> HIDE DEF g
  <1>3. ContractState' = g
    BY <1>1, <1>2, MappedNext, EqualAt
  <1> QED
    BY <1>3 DEF g

\* The step of a contract action, read off one actor and one message.
LEMMA IsStutter ==
    ASSUME \A b \in Actors : SameLife(b) /\ SameBusy(b), \A k \in Msgs : SameState(k)
    PROVE  UNCHANGED Contract!vars
  BY LifeSame, BusySame, StateSame DEF Contract!vars

LEMMA IsSpawn ==
    ASSUME NEW a \in Actors, LifeOf(phase[a]) = "none", LifeBecomes(a, "up"),
           \A b \in Actors : SameBusy(b), \A k \in Msgs : SameState(k)
    PROVE  Contract!Next
  <1>1. Contract!Spawn(a)
    BY Mapped, LifeSet, BusySame, StateSame DEF Contract!Spawn
  <1> QED
    BY <1>1 DEF Contract!Next

LEMMA IsSubmit ==
    ASSUME NEW m \in Msgs, StateOf(m, fate[m], started) = "new",
           NEW v \in {"accepted", "failed"}, StateBecomes(m, v),
           \A b \in Actors : SameLife(b) /\ SameBusy(b)
    PROVE  Contract!Next
  <1>1. Contract!Submit(m)
    BY Mapped, LifeSame, BusySame, StateSet DEF Contract!Submit
  <1> QED
    BY <1>1 DEF Contract!Next

LEMMA IsBegin ==
    ASSUME NEW a \in Actors, NEW m \in Msgs,
           LifeOf(phase[a]) = "up", BusyOf(phase[a], cur[a]) = None, StateOf(m, fate[m], started) = "accepted",
           \A b \in Actors : SameLife(b), BusyBecomes(a, m), StateBecomes(m, "running")
    PROVE  Contract!Next
  <1>1. Contract!Begin(a, m)
    BY Mapped, LifeSame, BusySet, StateSet DEF Contract!Begin
  <1> QED
    BY <1>1 DEF Contract!Next

LEMMA IsEnd ==
    ASSUME NEW a \in Actors, NEW m \in Msgs,
           BusyOf(phase[a], cur[a]) = m, StateOf(m, fate[m], started) = "running", BusyBecomes(a, None),
           NEW v \in {"done", "failed"}, StateBecomes(m, v),
           (\A b \in Actors : SameLife(b)) \/ (v = "failed" /\ LifeBecomes(a, "down"))
    PROVE  Contract!Next
  <1>1. /\ ContractBusy[a] = m /\ ContractState[m] = "running" /\ ContractBusy' = [ContractBusy EXCEPT ![a] = None]
        /\ ContractState' = [ContractState EXCEPT ![m] = v]
    BY Mapped, BusySet, StateSet
  <1>2. ContractLife' = ContractLife \/ (v = "failed" /\ ContractLife' = [ContractLife EXCEPT ![a] = "down"])
    BY LifeSame, LifeSet
  <1>3. Contract!End(a, m)
    BY <1>1, <1>2 DEF Contract!End
  <1> QED
    BY <1>3 DEF Contract!Next

LEMMA IsGoDown ==
    ASSUME NEW a \in Actors, NEW M \in SUBSET Msgs, LifeOf(phase[a]) = "up", BusyOf(phase[a], cur[a]) = None,
           \A m \in M : StateOf(m, fate[m], started) = "accepted",
           LifeBecomes(a, "down"), \A b \in Actors : SameBusy(b), FailExactly(M)
    PROVE  Contract!Next
  <1>1. Contract!GoDown(a, M)
    BY Mapped, LifeSet, BusySame, StateFail DEF Contract!GoDown
  <1> QED
    BY <1>1 DEF Contract!Next

LEMMA IsFail ==
    ASSUME NEW M \in SUBSET Msgs, \A m \in M : StateOf(m, fate[m], started) = "accepted",
           \A b \in Actors : SameLife(b) /\ SameBusy(b), FailExactly(M)
    PROVE  Contract!Next \/ UNCHANGED Contract!vars
  <1>1. CASE M = {}
    BY <1>1, IsStutter DEF FailExactly
  <1>2. CASE M # {}
    <2>1. Contract!Fail(M)
      BY <1>2, Mapped, LifeSame, BusySame, StateFail DEF Contract!Fail
    <2> QED
      BY <2>1 DEF Contract!Next
  <1> QED
    BY <1>1, <1>2

LEMMA ContractInit ==
    ASSUME Init
    PROVE  Contract!Init
  <1>1. ContractLife = [a \in Actors |-> "none"]
    BY DEF Init, ContractLife
  <1>2. ContractBusy = [a \in Actors |-> None]
    BY DEF Init, ContractBusy
  <1>3. ContractState = [m \in Msgs |-> "new"]
    BY DEF Init, ContractState
  <1> QED
    BY <1>1, <1>2, <1>3 DEF Contract!Init

\* Steps that leave the tasks and the messages alone, or only move a task within
\* a part of its life in which it works on nothing.
LEMMA QuietStep ==
    ASSUME UNCHANGED <<phase, cur, fate, started>>
    PROVE  UNCHANGED Contract!vars
  BY IsStutter DEF SameLife, SameBusy, SameState

LEMMA PhaseStep ==
    ASSUME TypeOK, NEW a \in Actors, NEW p, phase' = [phase EXCEPT ![a] = p], UNCHANGED <<cur, fate, started>>,
           LifeOf(p) = LifeOf(phase[a]), BusyOf(p, cur[a]) = BusyOf(phase[a], cur[a])
    PROVE  UNCHANGED Contract!vars
  <1>1. \A b \in Actors : phase'[b] = IF b = a THEN p ELSE phase[b]
    BY DEF TypeOK, TaskType
  <1>2. \A b \in Actors : SameLife(b) /\ SameBusy(b)
    BY <1>1 DEF SameLife, SameBusy
  <1> QED
    BY <1>2, IsStutter DEF SameState

LEMMA ContractSubmit ==
    ASSUME TypeOK, NEW m \in Msgs, fate[m] = "new", UNCHANGED <<phase, cur, started>>,
           NEW f \in {"queued", "intercepted", "lost", "refusedFull", "refusedStopped"},
           fate' = [fate EXCEPT ![m] = f]
    PROVE  Contract!Next
  <1>1. \A k \in Msgs : fate'[k] = IF k = m THEN f ELSE fate[k]
    BY DEF TypeOK, MsgType
  <1>2. \A b \in Actors : SameLife(b) /\ SameBusy(b)
    BY DEF SameLife, SameBusy
  <1>3. StateOf(m, fate[m], started) = "new"
    BY DEF StateOf
  <1>4. \A k \in Msgs : k # m => SameState(k)
    BY <1>1 DEF SameState
  <1>5. CASE f = "queued"
    BY <1>1, <1>2, <1>3, <1>4, <1>5, IsSubmit DEF StateBecomes, StateOf
  <1>6. CASE f # "queued"
    BY <1>1, <1>2, <1>3, <1>4, <1>6, IsSubmit DEF StateBecomes, StateOf
  <1> QED
    BY <1>5, <1>6

LEMMA ContractUserStep ==
    ASSUME TypeOK, UserStep
    PROVE  Contract!Next \/ UNCHANGED Contract!vars
  <1>1. ASSUME NEW a \in Actors, NEW n \in Names, NEW o \in Strategies \cup {None}, Spawn(a, n, o)
        PROVE  Contract!Next
    <2>1. phase[a] = "unborn" /\ phase' = [phase EXCEPT ![a] = "starting"] /\ UNCHANGED <<cur, fate, started>>
      BY <1>1 DEF Spawn, Spawned, msgVars
    <2>2. \A b \in Actors : phase'[b] = IF b = a THEN "starting" ELSE phase[b]
      BY <2>1 DEF TypeOK, TaskType
    <2>3. LifeOf(phase[a]) = "none" /\ LifeBecomes(a, "up")
      BY <2>1, <2>2 DEF LifeOf, LifeBecomes, SameLife, Terminal
    <2>4. (\A b \in Actors : SameBusy(b)) /\ \A k \in Msgs : SameState(k)
      BY <2>1, <2>2 DEF SameBusy, SameState, BusyOf
    <2> QED
      BY <2>3, <2>4, IsSpawn
  <1>2. ASSUME NEW a \in Actors, NEW m \in Msgs, OutboundStop(a, m) \/ Send(a, m)
        PROVE  Contract!Next
    <2>1. fate[m] = "new" /\ UNCHANGED <<phase, cur, started>>
      BY <1>2 DEF OutboundStop, Send, taskVars
    <2>2. \E f \in {"queued", "intercepted", "lost", "refusedFull", "refusedStopped"} : fate' = [fate EXCEPT ![m] = f]
      BY <1>2 DEF OutboundStop, Send
    <2> QED
      BY <2>1, <2>2, ContractSubmit
  <1>3. ASSUME UNCHANGED <<phase, cur, fate, started>>
        PROVE  UNCHANGED Contract!vars
    BY <1>3, QuietStep
  <1>4. ASSUME NEW m \in Msgs, Cancel(m)
        PROVE  UNCHANGED <<phase, cur, fate, started>>
    BY <1>4 DEF Cancel, taskVars
  <1>5. ASSUME NEW a \in Actors, Stop(a) \/ DropRefs(a) \/ AwaitStop(a) \/ AwaitReturns(a)
        PROVE  UNCHANGED <<phase, cur, fate, started>>
    BY <1>5 DEF Stop, DropRefs, AwaitStop, AwaitReturns, taskVars, msgVars
  <1>6. ASSUME NEW n \in Names, Lookup(n) \/ Unregister(n)
        PROVE  UNCHANGED <<phase, cur, fate, started>>
    BY <1>6 DEF Lookup, Unregister, taskVars, msgVars
  <1>7. ASSUME NEW w \in Actors, NEW t \in Actors, Watch(w, t) \/ Unwatch(w, t)
        PROVE  UNCHANGED <<phase, cur, fate, started>>
    BY <1>7 DEF Watch, Unwatch, taskVars, msgVars
  <1>8. ASSUME AwaitAll \/ CleanupFinished
        PROVE  UNCHANGED <<phase, cur, fate, started>>
    BY <1>8 DEF AwaitAll, CleanupFinished, taskVars, msgVars
  <1> QED
    BY <1>1, <1>2, <1>3, <1>4, <1>5, <1>6, <1>7, <1>8 DEF UserStep

\* A task drops its mailbox, and with it messages that were accepted.
LEMMA ContractDrop ==
    ASSUME TypeOK, TruthInv, NEW a \in Actors, DropMailbox(a), UNCHANGED started
    PROVE  /\ FailExactly(Elems(mailbox[a]) \cap Msgs)
           /\ \A m \in Elems(mailbox[a]) \cap Msgs : StateOf(m, fate[m], started) = "accepted"
  <1>1. \A k \in Msgs : fate'[k] = IF k \in Elems(mailbox[a]) THEN "lost" ELSE fate[k]
    BY DEF DropMailbox
  <1>2. \A m \in Elems(mailbox[a]) \cap Msgs : fate[m] = "queued"
    BY DEF TruthInv, Letters, LettersOK
  <1>3. \A m \in Elems(mailbox[a]) \cap Msgs : StateOf(m, fate[m], started) = "accepted"
    BY <1>2 DEF StateOf
  <1>4. FailExactly(Elems(mailbox[a]) \cap Msgs)
    BY <1>1 DEF FailExactly, SameState, StateOf
  <1> QED
    BY <1>3, <1>4

\* An accepted message that nobody has worked on fares as f.
LEMMA ContractFate ==
    ASSUME TypeOK, NEW m \in Msgs, fate[m] = "queued" \/ (fate[m] = "current" /\ m \notin started),
           NEW f \in Fates \ {"new", "queued", "current", "handled"}, fate' = FateSet(m, f), UNCHANGED started,
           \A b \in Actors : SameLife(b) /\ SameBusy(b)
    PROVE  Contract!Next \/ UNCHANGED Contract!vars
  <1>1. \A k \in Msgs : fate'[k] = IF k = m THEN f ELSE fate[k]
    BY SetFate
  <1>2. \A k \in {m} : StateOf(k, fate[k], started) = "accepted"
    BY DEF StateOf
  <1>3. StateOf(m, fate'[m], started') = "failed"
    BY <1>1 DEF StateOf
  <1>4. FailExactly({m})
    BY <1>1, <1>3 DEF FailExactly, SameState
  <1> QED
    BY <1>2, <1>4, IsFail

\* The work of a on the message it has in hand ends, and the message fares as f.
LEMMA ContractEnd ==
    ASSUME TypeOK, NEW a \in Actors, phase[a] \in {"handling", "panicked", "completing"}, cur[a] \in Msgs,
           fate[cur[a]] = "current", cur[a] \in started, UNCHANGED started,
           NEW f \in Fates \ {"new", "queued", "current"}, Finish(a, f),
           NEW p \in {"recv", "exiting", "unwinding"}, phase' = [phase EXCEPT ![a] = p],
           f = "handled" => p = "recv"
    PROVE  Contract!Next
  <1> DEFINE c == cur[a]
  <1>1. /\ \A b \in Actors : phase'[b] = IF b = a THEN p ELSE phase[b]
        /\ \A b \in Actors : cur'[b] = IF b = a THEN None ELSE cur[b]
    BY DEF TypeOK, TaskType, Finish
  <1>2. fate' = FateSet(c, f)
    BY DEF Finish, FateSet
  <1> HIDE DEF c
  <1>3. \A k \in Msgs : fate'[k] = IF k = c THEN f ELSE fate[k]
    BY <1>2, SetFate
  <1>4. c \in Msgs /\ c \in started /\ fate[c] = "current"
    BY DEF c
  <1>5. BusyOf(phase[a], cur[a]) = c /\ StateOf(c, fate[c], started) = "running"
    BY <1>4 DEF BusyOf, StateOf, c
  <1>6. BusyBecomes(a, None)
    BY <1>1 DEF BusyBecomes, BusyOf, SameBusy
  <1>7. \A k \in Msgs : k # c => SameState(k)
    BY <1>3 DEF SameState
  <1>8. /\ p = "recv" => \A b \in Actors : SameLife(b)
        /\ p \in {"exiting", "unwinding"} => LifeBecomes(a, "down")
    BY <1>1 DEF SameLife, LifeBecomes, LifeOf, Terminal
  <1>9. CASE f = "handled"
    <2>1. StateBecomes(c, "done")
      BY <1>3, <1>4, <1>7, <1>9 DEF StateBecomes, StateOf
    <2> QED
      BY <1>4, <1>5, <1>6, <1>8, <1>9, <2>1, IsEnd
  <1>10. CASE f # "handled"
    <2>1. StateBecomes(c, "failed")
      BY <1>3, <1>4, <1>7, <1>10 DEF StateBecomes, StateOf
    <2> QED
      BY <1>4, <1>5, <1>6, <1>8, <2>1, IsEnd
  <1> QED
    BY <1>9, <1>10

\* The loop is done with a notification.
LEMMA ContractIdleEnd ==
    ASSUME TypeOK, NEW a \in Actors, phase[a] \in {"admitted", "handling", "panicked", "completing"}, cur[a] \notin Msgs,
           UNCHANGED started, NEW f, Finish(a, f),
           NEW p \in {"recv", "exiting", "unwinding"}, phase' = [phase EXCEPT ![a] = p]
    PROVE  Contract!Next \/ UNCHANGED Contract!vars
  <1>1. /\ \A b \in Actors : phase'[b] = IF b = a THEN p ELSE phase[b]
        /\ \A b \in Actors : cur'[b] = IF b = a THEN None ELSE cur[b]
        /\ fate' = fate
    BY DEF TypeOK, TaskType, Finish
  <1>2. \A b \in Actors : SameBusy(b)
    BY <1>1 DEF SameBusy, BusyOf
  <1>3. \A k \in Msgs : SameState(k)
    BY <1>1 DEF SameState
  <1>4. LifeOf(phase[a]) = "up" /\ BusyOf(phase[a], cur[a]) = None
    BY DEF LifeOf, BusyOf, Terminal
  <1>5. CASE p = "recv"
    <2>1. \A b \in Actors : SameLife(b)
      BY <1>1, <1>5 DEF SameLife, LifeOf, Terminal
    <2> QED
      BY <1>2, <1>3, <2>1, IsStutter
  <1>6. CASE p \in {"exiting", "unwinding"}
    <2>1. LifeBecomes(a, "down")
      BY <1>1, <1>6 DEF LifeBecomes, SameLife, LifeOf, Terminal
    <2>2. FailExactly({})
      BY <1>3 DEF FailExactly
    <2> QED
      BY <1>2, <1>4, <2>1, <2>2, IsGoDown
  <1> QED
    BY <1>5, <1>6

LEMMA ContractTaskStep ==
    ASSUME TypeOK, HeldInv, TruthInv, NEW a \in Actors, TaskStep(a)
    PROVE  Contract!Next \/ UNCHANGED Contract!vars
  <1> DEFINE c == cur[a]
             h == Head(mailbox[a])
  <1>0. Asks \subseteq Msgs /\ cancelled \subseteq Asks /\ started \subseteq Msgs
    BY DEF Msgs, TypeOK, MsgType
  <1>1. c \in Msgs => HandOK(phase[a], c, fate, started, completed)
    BY DEF TruthInv, Hands, HandsOK
  <1>2. CASE StartOk(a)
    BY <1>2, PhaseStep DEF StartOk, msgVars, LifeOf, BusyOf, Terminal
  <1>3. CASE TaskUnwinds(a) /\ phase[a] = "starting"
    <2>1. phase[a] = "starting" /\ phase' = [phase EXCEPT ![a] = "crashed"] /\ UNCHANGED <<cur, started>> /\ DropMailbox(a)
      BY <1>3 DEF TaskUnwinds
    <2>2. \A b \in Actors : phase'[b] = IF b = a THEN "crashed" ELSE phase[b]
      BY <2>1 DEF TypeOK, TaskType
    <2>3. LifeOf(phase[a]) = "up" /\ BusyOf(phase[a], cur[a]) = None /\ LifeBecomes(a, "down")
      BY <2>1, <2>2 DEF LifeOf, BusyOf, LifeBecomes, SameLife, Terminal
    <2>4. \A b \in Actors : SameBusy(b)
      BY <2>1, <2>2 DEF SameBusy, BusyOf
    <2> QED
      BY <2>1, <2>3, <2>4, ContractDrop, IsGoDown
  <1>19. CASE TaskUnwinds(a) /\ phase[a] = "unwinding"
    <2>1. phase' = [phase EXCEPT ![a] = "crashed"] /\ UNCHANGED <<cur, started>> /\ DropMailbox(a)
      BY <1>19 DEF TaskUnwinds
    <2>2. \A b \in Actors : phase'[b] = IF b = a THEN "crashed" ELSE phase[b]
      BY <2>1 DEF TypeOK, TaskType
    <2>3. \A b \in Actors : SameLife(b) /\ SameBusy(b)
      BY <1>19, <2>1, <2>2 DEF SameLife, SameBusy, LifeOf, BusyOf, Terminal
    <2> QED
      BY <2>1, <2>3, ContractDrop, IsFail
  <1>4. CASE ReceiveStop(a)
    <2>1. phase[a] = "recv" /\ phase' = [phase EXCEPT ![a] = "exiting"] /\ UNCHANGED <<cur, fate, started>>
      BY <1>4 DEF ReceiveStop, LeaveLoop, msgVars
    <2>2. \A b \in Actors : phase'[b] = IF b = a THEN "exiting" ELSE phase[b]
      BY <2>1 DEF TypeOK, TaskType
    <2>3. LifeOf(phase[a]) = "up" /\ BusyOf(phase[a], cur[a]) = None /\ LifeBecomes(a, "down")
      BY <2>1, <2>2 DEF LifeOf, BusyOf, LifeBecomes, SameLife, Terminal
    <2>4. (\A b \in Actors : SameBusy(b)) /\ FailExactly({})
      BY <2>1, <2>2 DEF SameBusy, BusyOf, FailExactly, SameState
    <2> QED
      BY <2>3, <2>4, IsGoDown
  <1>5. h \in Msgs /\ mailbox[a] # <<>> => fate[h] = "queued" /\ h \notin started
    <2>1. mailbox[a] \in Seq(Items)
      BY DEF TypeOK, TaskType
    <2>2. mailbox[a] # <<>> => h \in Elems(mailbox[a])
      BY <2>1, ElemsTake
    <2> QED
      BY <2>2 DEF TruthInv, Letters, LettersOK, Records, RecordsOK, RecordOK
  <1>6. CASE Reject(a)
    <2>1. mailbox[a] # <<>> /\ UNCHANGED <<phase, cur, started>> /\ fate' = FateSet(h, "rejected")
      BY <1>6 DEF Reject, FateSet
    <2>2. \A b \in Actors : SameLife(b) /\ SameBusy(b)
      BY <2>1 DEF SameLife, SameBusy
    <2> HIDE DEF h
    <2>3. CASE h \in Msgs
      BY <1>5, <2>1, <2>2, <2>3, ContractFate DEF Fates
    <2>4. CASE h \notin Msgs
      BY <2>1, <2>4, QuietStep DEF FateSet
    <2> QED
      BY <2>3, <2>4
  <1>7. CASE Admit(a)
    <2>1. /\ phase[a] = "recv" /\ mailbox[a] # <<>> /\ fate' = FateSet(h, "current") /\ UNCHANGED started
          /\ phase' = [phase EXCEPT ![a] = "admitted"] /\ cur' = [cur EXCEPT ![a] = h]
      BY <1>7 DEF Admit, FateSet
    <2>2. \A b \in Actors : phase'[b] = (IF b = a THEN "admitted" ELSE phase[b]) /\ (b # a => cur'[b] = cur[b])
      BY <2>1 DEF TypeOK, TaskType
    <2>3. \A b \in Actors : SameLife(b) /\ SameBusy(b)
      BY <2>1, <2>2 DEF SameLife, SameBusy, LifeOf, BusyOf, Terminal
    <2> HIDE DEF h
    <2>4. \A k \in Msgs : fate'[k] = IF k = h THEN "current" ELSE fate[k]
      BY <2>1, SetFate
    <2>5. \A k \in Msgs : SameState(k)
      BY <1>5, <2>1, <2>4 DEF SameState, StateOf
    <2> QED
      BY <2>3, <2>5, IsStutter
  <1>8. CASE Dispatch(a) /\ c \in cancelled
    <2>1. phase[a] = "admitted" /\ Finish(a, "cancelled") /\ phase' = [phase EXCEPT ![a] = "recv"] /\ UNCHANGED started
      BY <1>8 DEF Dispatch
    <2>2. /\ \A b \in Actors : phase'[b] = IF b = a THEN "recv" ELSE phase[b]
          /\ \A b \in Actors : cur'[b] = IF b = a THEN None ELSE cur[b]
      BY <2>1 DEF TypeOK, TaskType, Finish
    <2>3. \A b \in Actors : SameLife(b) /\ SameBusy(b)
      BY <2>1, <2>2 DEF SameLife, SameBusy, LifeOf, BusyOf, Terminal
    <2>4. c \in Msgs /\ fate[c] = "current" /\ c \notin started
      BY <1>0, <1>1, <1>8, <2>1 DEF HandOK
    <2>5. fate' = FateSet(c, "cancelled")
      BY <2>1 DEF Finish, FateSet
    <2> HIDE DEF c
    <2> QED
      BY <2>1, <2>3, <2>4, <2>5, ContractFate DEF Fates
  <1>9. CASE Dispatch(a) /\ c \notin cancelled
    <2>1. /\ phase[a] = "admitted" /\ phase' = [phase EXCEPT ![a] = "handling"] /\ UNCHANGED <<cur, fate>>
          /\ started' = (started \cup {c}) \cap Msgs
      BY <1>9 DEF Dispatch
    <2>2. \A b \in Actors : phase'[b] = IF b = a THEN "handling" ELSE phase[b]
      BY <2>1 DEF TypeOK, TaskType
    <2>3. LifeOf(phase[a]) = "up" /\ BusyOf(phase[a], c) = None /\ \A b \in Actors : SameLife(b)
      BY <2>1, <2>2 DEF LifeOf, BusyOf, SameLife, Terminal
    <2>4. CASE c \in Msgs
      <3>1. StateOf(c, fate[c], started) = "accepted" /\ StateOf(c, fate'[c], started') = "running"
        BY <1>1, <2>1, <2>4 DEF HandOK, StateOf
      <3>2. StateBecomes(c, "running")
        BY <2>1, <3>1 DEF StateBecomes, SameState, StateOf
      <3>3. BusyBecomes(a, c)
        BY <2>1, <2>2, <2>4 DEF BusyBecomes, BusyOf, SameBusy
      <3> QED
        BY <2>3, <2>4, <3>1, <3>2, <3>3, IsBegin
    <2>5. CASE c \notin Msgs
      <3>1. started' = started
        BY <1>0, <2>1, <2>5
      <3> QED
        BY <2>1, <2>5, <3>1, PhaseStep DEF LifeOf, BusyOf, Terminal
    <2> QED
      BY <2>4, <2>5
  <1>10. CASE AbortHandler(a)
    <2>1. /\ phase[a] = "handling" /\ c \in cancelled /\ Finish(a, "aborted") /\ phase' = [phase EXCEPT ![a] = "recv"]
          /\ UNCHANGED started
      BY <1>10 DEF AbortHandler
    <2>2. c \in Msgs /\ fate[c] = "current" /\ c \in started
      BY <1>0, <1>1, <2>1 DEF HandOK
    <2> QED
      BY <2>1, <2>2, ContractEnd DEF Fates
  <1>11. CASE HandlerReturns(a)
    BY <1>11, PhaseStep DEF HandlerReturns, LifeOf, BusyOf, Terminal
  <1>12. CASE SendReply(a)
    <2>1. phase[a] = "completing" /\ Finish(a, "handled") /\ phase' = [phase EXCEPT ![a] = "recv"] /\ UNCHANGED started
      BY <1>12 DEF SendReply
    <2>2. CASE c \in Msgs
      <3>1. fate[c] = "current" /\ c \in started
        BY <1>1, <2>1, <2>2 DEF HandOK
      <3> QED
        BY <2>1, <2>2, <3>1, ContractEnd DEF Fates
    <2> QED
      BY <2>1, <2>2, ContractIdleEnd
  <1>13. CASE HandlerPanics(a)
    BY <1>13, PhaseStep DEF HandlerPanics, LifeOf, BusyOf, Terminal
  <1>14. CASE OnError(a)
    <2>1. /\ phase[a] = "panicked" /\ Finish(a, "panicked") /\ UNCHANGED started
          /\ \E p \in {"recv", "exiting"} : phase' = [phase EXCEPT ![a] = p]
      BY <1>14 DEF OnError, LeaveLoop
    <2>2. CASE c \in Msgs
      <3>1. fate[c] = "current" /\ c \in started
        BY <1>1, <2>1, <2>2 DEF HandOK
      <3> QED
        BY <2>1, <2>2, <3>1, ContractEnd DEF Fates
    <2> QED
      BY <2>1, <2>2, ContractIdleEnd
  <1>20. CASE HookPanics(a)
    <2>1. /\ phase[a] \in {"admitted", "handling", "panicked"} /\ Finish(a, "panicked") /\ UNCHANGED started
          /\ phase' = [phase EXCEPT ![a] = "unwinding"]
      BY <1>20 DEF HookPanics
    <2>2. CASE c \in Msgs /\ phase[a] # "admitted"
      <3>1. fate[c] = "current" /\ c \in started /\ phase[a] \in {"handling", "panicked", "completing"}
        BY <1>1, <2>1, <2>2 DEF HandOK
      <3>2. "panicked" \in Fates \ {"new", "queued", "current"}
        BY DEF Fates
      <3> QED
        BY <2>1, <2>2, <3>1, <3>2, ContractEnd
    <2>3. CASE c \in Msgs /\ phase[a] = "admitted"
      <3>1. fate[c] = "current" /\ c \notin started
        BY <1>1, <2>3 DEF HandOK
      <3>2. /\ \A b \in Actors : phase'[b] = IF b = a THEN "unwinding" ELSE phase[b]
            /\ \A b \in Actors : cur'[b] = IF b = a THEN None ELSE cur[b]
        BY <2>1 DEF TypeOK, TaskType, Finish
      <3>3. LifeOf(phase[a]) = "up" /\ BusyOf(phase[a], cur[a]) = None /\ LifeBecomes(a, "down")
        BY <2>3, <3>2 DEF LifeOf, BusyOf, LifeBecomes, SameLife, Terminal
      <3>4. \A b \in Actors : SameBusy(b)
        BY <2>3, <3>2 DEF SameBusy, BusyOf
      <3>5. fate' = FateSet(c, "panicked")
        BY <2>1 DEF Finish, FateSet
      <3> HIDE DEF c
      <3>6. \A k \in Msgs : fate'[k] = IF k = c THEN "panicked" ELSE fate[k]
        BY <3>5, SetFate
      <3>7. FailExactly({c}) /\ \A k \in {c} : StateOf(k, fate[k], started) = "accepted"
        BY <2>1, <2>3, <3>1, <3>6 DEF FailExactly, SameState, StateOf
      <3> QED
        BY <2>3, <3>3, <3>4, <3>7, IsGoDown
    <2> QED
      BY <2>1, <2>2, <2>3, ContractIdleEnd
  <1>15. CASE RunOnStop(a)
    BY <1>15, PhaseStep DEF RunOnStop, msgVars, LifeOf, BusyOf, Terminal
  <1>16. ASSUME NEW w \in Actors, NotifyWatcher(a, w)
         PROVE  UNCHANGED Contract!vars
    BY <1>16, QuietStep DEF NotifyWatcher, msgVars
  <1>17. CASE SignalStop(a)
    BY <1>17, PhaseStep DEF SignalStop, msgVars, LifeOf, BusyOf, Terminal
  <1>18. CASE EndTask(a)
    <2>1. phase[a] = "signalled" /\ phase' = [phase EXCEPT ![a] = "ended"] /\ UNCHANGED <<cur, started>> /\ DropMailbox(a)
      BY <1>18 DEF EndTask
    <2>2. \A b \in Actors : phase'[b] = IF b = a THEN "ended" ELSE phase[b]
      BY <2>1 DEF TypeOK, TaskType
    <2>3. \A b \in Actors : SameLife(b) /\ SameBusy(b)
      BY <2>1, <2>2 DEF SameLife, SameBusy, LifeOf, BusyOf, Terminal
    <2> QED
      BY <2>1, <2>3, ContractDrop, IsFail
  <1> QED
    BY <1>2, <1>3, <1>4, <1>6, <1>7, <1>8, <1>9, <1>10, <1>11, <1>12, <1>13, <1>14, <1>15, <1>16,
       <1>17, <1>18, <1>19, <1>20 DEF TaskStep, TaskUnwinds

\* The runtime implements the safety part of ActorContract, whatever the actors,
\* messages, capacities and strategies are: an actor's life is one way, it works on
\* one message at a time and on none once it is down, and no message is worked on
\* twice or after it failed.  About the task loop of TestRuntime::spawn_internal
\* under every interleaving with the users of its references.
THEOREM RuntimeFollowsContract == Spec => Contract!Safety
  <1>1. Init => Contract!Init
    BY ContractInit
  <1>2. TypeOK /\ HeldInv /\ TruthInv /\ [Next]_vars => [Contract!Next]_(Contract!vars)
    <2> SUFFICES ASSUME TypeOK, HeldInv, TruthInv, [Next]_vars
                 PROVE  Contract!Next \/ UNCHANGED Contract!vars
      OBVIOUS
    <2>1. CASE UserStep
      BY <2>1, ContractUserStep
    <2>2. ASSUME NEW a \in Actors, TaskStep(a) PROVE Contract!Next \/ UNCHANGED Contract!vars
      BY <2>2, ContractTaskStep
    <2>3. CASE UNCHANGED vars
      BY <2>3, QuietStep DEF vars
    <2> QED
      BY <2>1, <2>2, <2>3 DEF Next
  <1> QED
    BY <1>1, <1>2, TypeCorrect, HeldInvariant, TruthInvariant, PTL DEF Spec, Contract!Safety
=============================================================================
