---------------------------- MODULE AdapterProofs ----------------------------
(***************************************************************************)
(* Proofs about the runtimes of dactor-ractor, dactor-kameo and            *)
(* dactor-coerce, for any number of actors and messages, any capacities    *)
(* and any set of operations: no caller waits for nobody, a dead letter    *)
(* is not worked on, and each runtime follows the contract of an actor.    *)
(* The second half is about the control plane of a node of these runtimes: *)
(* who is announced as a peer, what a routed envelope promises, and the    *)
(* ids and factories of spawned actors.                                    *)
(***************************************************************************)
EXTENDS Adapters, ControlPlane, TLAPS, SequenceTheorems

(***************************************************************************)
(* Queues.                                                                 *)
(***************************************************************************)

\* No message is twice in a queue (notifications may be).
OnceIn(q) == \A i, j \in 1..Len(q) : q[i] = q[j] /\ q[i] \in Msgs => i = j

LEMMA EmptyQueue == ToSet(<<>>) = {} /\ OnceIn(<<>>)
  BY DEF ToSet, OnceIn

LEMMA NonEmptyQueue ==
    ASSUME NEW S, NEW q \in Seq(S), NEW x \in ToSet(q)
    PROVE  q # <<>>
  BY DEF ToSet

LEMMA AppendSet ==
    ASSUME NEW S, NEW q \in Seq(S), NEW i \in S
    PROVE  ToSet(Append(q, i)) = ToSet(q) \cup {i}
  <1> DEFINE a == Append(q, i)
  <1>1. /\ DOMAIN a = 1..(Len(q) + 1) /\ DOMAIN q = 1..Len(q) /\ Len(q) \in Nat
        /\ \A k \in 1..Len(q) : a[k] = q[k]
        /\ a[Len(q) + 1] = i
    OBVIOUS
  <1>2. \A k \in 1..(Len(q) + 1) : k \in 1..Len(q) \/ k = Len(q) + 1
    BY <1>1
  <1>3. \A k \in 1..Len(q) : k \in 1..(Len(q) + 1)
    BY <1>1
  <1>4. Len(q) + 1 \in 1..(Len(q) + 1)
    BY <1>1
  <1> HIDE DEF a
  <1>5. ASSUME NEW x \in ToSet(a) PROVE x \in ToSet(q) \cup {i}
    <2>1. PICK k \in 1..(Len(q) + 1) : x = a[k]
      BY <1>1 DEF ToSet
    <2> QED
      BY <1>1, <1>2, <2>1 DEF ToSet
  <1>6. ASSUME NEW x \in ToSet(q) PROVE x \in ToSet(a)
    <2>1. PICK k \in 1..Len(q) : x = q[k]
      BY <1>1 DEF ToSet
    <2> QED
      BY <1>1, <1>3, <2>1 DEF ToSet
  <1>7. i \in ToSet(a)
    BY <1>1, <1>4 DEF ToSet
  <1> QED
    BY <1>5, <1>6, <1>7 DEF a

LEMMA TailSet ==
    ASSUME NEW S, NEW q \in Seq(S), q # <<>>
    PROVE  Head(q) \in ToSet(q) /\ ToSet(q) = {Head(q)} \cup ToSet(Tail(q)) /\ Head(q) \in S /\ Tail(q) \in Seq(S)
  <1> DEFINE t == Tail(q)
  <1>1. /\ DOMAIN t = 1..(Len(q) - 1) /\ DOMAIN q = 1..Len(q) /\ Len(q) \in Nat /\ Len(q) > 0
        /\ \A k \in 1..(Len(q) - 1) : t[k] = q[k + 1]
        /\ Head(q) = q[1] /\ Head(q) \in S /\ t \in Seq(S)
    OBVIOUS
  <1>2. \A k \in 1..(Len(q) - 1) : k + 1 \in 1..Len(q)
    BY <1>1
  <1>3. \A k \in 1..Len(q) : k = 1 \/ (k - 1 \in 1..(Len(q) - 1) /\ (k - 1) + 1 = k)
    BY <1>1
  <1>4. 1 \in 1..Len(q)
    BY <1>1
  <1> HIDE DEF t
  <1>5. Head(q) \in ToSet(q)
    BY <1>1, <1>4 DEF ToSet
  <1>6. ASSUME NEW x \in ToSet(t) PROVE x \in ToSet(q)
    <2>1. PICK k \in 1..(Len(q) - 1) : x = t[k]
      BY <1>1 DEF ToSet
    <2> QED
      BY <1>1, <1>2, <2>1 DEF ToSet
  <1>7. ASSUME NEW x \in ToSet(q) PROVE x = Head(q) \/ x \in ToSet(t)
    <2>1. PICK k \in 1..Len(q) : x = q[k]
      BY <1>1 DEF ToSet
    <2>2. k = 1 \/ x = t[k - 1]
      BY <1>1, <1>3, <2>1
    <2> QED
      BY <1>1, <1>3, <2>1, <2>2 DEF ToSet
  <1> QED
    BY <1>1, <1>5, <1>6, <1>7 DEF t

LEMMA OnceAppend ==
    ASSUME NEW S, NEW q \in Seq(S), OnceIn(q), NEW i \in S, i \in Msgs => i \notin ToSet(q)
    PROVE  OnceIn(Append(q, i))
  <1>1. /\ Len(Append(q, i)) = Len(q) + 1 /\ Len(q) \in Nat /\ DOMAIN q = 1..Len(q)
        /\ Append(q, i)[Len(q) + 1] = i
        /\ \A k \in 1..Len(q) : Append(q, i)[k] = q[k]
    OBVIOUS
  <1>2. \A k \in 1..(Len(q) + 1) : k = Len(q) + 1 \/ k \in 1..Len(q)
    BY <1>1
  <1>3. \A k \in 1..Len(q) : q[k] \in ToSet(q)
    BY <1>1 DEF ToSet
  <1> DEFINE a == Append(q, i)
             n == Len(q)
  <1> SUFFICES ASSUME NEW j \in 1..(n + 1), NEW k \in 1..(n + 1), a[j] = a[k], a[j] \in Msgs PROVE j = k
    BY <1>1 DEF OnceIn
  <1> HIDE DEF a
  <1>4. CASE j \in 1..n /\ k \in 1..n
    BY <1>1, <1>4 DEF OnceIn, a
  <1>5. CASE j = n + 1 /\ k \in 1..n
    BY <1>1, <1>3, <1>5 DEF a
  <1>6. CASE k = n + 1 /\ j \in 1..n
    BY <1>1, <1>3, <1>6 DEF a
  <1> QED
    BY <1>2, <1>4, <1>5, <1>6

LEMMA OnceTail ==
    ASSUME NEW S, NEW q \in Seq(S), q # <<>>, OnceIn(q)
    PROVE  OnceIn(Tail(q)) /\ (Head(q) \in Msgs => Head(q) \notin ToSet(Tail(q)))
  <1>1. /\ Len(q) \in Nat /\ Len(q) > 0 /\ Head(q) = q[1] /\ Len(Tail(q)) = Len(q) - 1
        /\ DOMAIN Tail(q) = 1..(Len(q) - 1)
        /\ \A i \in 1..(Len(q) - 1) : Tail(q)[i] = q[i + 1]
    OBVIOUS
  <1>2. \A i \in 1..(Len(q) - 1) : i + 1 \in 1..Len(q) /\ i + 1 # 1
    BY <1>1
  <1>3. OnceIn(Tail(q))
    <2> SUFFICES ASSUME NEW j \in 1..(Len(q) - 1), NEW k \in 1..(Len(q) - 1), Tail(q)[j] = Tail(q)[k], Tail(q)[j] \in Msgs
                 PROVE  j = k
      BY <1>1 DEF OnceIn
    <2>1. q[j + 1] = q[k + 1] /\ q[j + 1] \in Msgs
      BY <1>1
    <2>2. j + 1 = k + 1
      BY <1>2, <2>1 DEF OnceIn
    <2> QED
      BY <2>2
  <1>4. ASSUME Head(q) \in Msgs, Head(q) \in ToSet(Tail(q)) PROVE FALSE
    <2>1. PICK i \in 1..(Len(q) - 1) : Tail(q)[i] = Head(q)
      BY <1>1, <1>4 DEF ToSet
    <2>2. q[i + 1] = q[1] /\ 1 \in 1..Len(q)
      BY <1>1, <2>1
    <2> QED
      BY <1>1, <1>2, <1>4, <2>2 DEF OnceIn
  <1> QED
    BY <1>3, <1>4

\* What StopHook does to the inbox of a watcher: n notifications about actor t.
Notified(q, n, t) == q \o [i \in 1..n |-> t]

LEMMA NotifiedQueue ==
    ASSUME NEW S, NEW q \in Seq(S), NEW n \in Nat, NEW t \in S, t \notin Msgs, OnceIn(q)
    PROVE  /\ Notified(q, n, t) \in Seq(S) /\ OnceIn(Notified(q, n, t))
           /\ \A m \in Msgs : m \in ToSet(Notified(q, n, t)) <=> m \in ToSet(q)
  <1> DEFINE x == [i \in 1..n |-> t]
             z == Notified(q, n, t)
  <1>1. x \in Seq(S) /\ Len(x) = n /\ \A i \in 1..n : x[i] = t
    OBVIOUS
  <1> HIDE DEF x
  <1>2. q \o x \in Seq(S) /\ Len(q \o x) = Len(q) + n /\ Len(q) \in Nat /\ DOMAIN q = 1..Len(q) /\ DOMAIN (q \o x) = 1..(Len(q) + n)
    BY <1>1
  <1>3. \A i \in 1..(Len(q) + n) : (q \o x)[i] = IF i <= Len(q) THEN q[i] ELSE x[i - Len(q)]
    BY <1>1
  <1>4. z = q \o x
    BY DEF Notified, x
  <1> HIDE DEF z
  <1>5. /\ z \in Seq(S) /\ Len(z) = Len(q) + n /\ DOMAIN z = 1..(Len(q) + n)
        /\ \A i \in 1..Len(q) : i \in 1..(Len(q) + n) /\ z[i] = q[i]
    BY <1>2, <1>3, <1>4
  <1>6. \A i \in 1..(Len(q) + n) : i \in 1..Len(q) \/ z[i] = t
    <2> SUFFICES ASSUME NEW i \in 1..(Len(q) + n), ~(i <= Len(q)) PROVE z[i] = t
      BY <1>2
    <2>1. i - Len(q) \in 1..n
      BY <1>2
    <2> QED
      BY <1>1, <1>3, <1>4, <2>1
  <1>7. OnceIn(z)
    BY <1>5, <1>6 DEF OnceIn
  <1>8. \A m \in Msgs : m \in ToSet(z) <=> m \in ToSet(q)
    BY <1>2, <1>5, <1>6 DEF ToSet
  <1> QED
    BY <1>5, <1>7, <1>8 DEF z

-----------------------------------------------------------------------------
(***************************************************************************)
(* The inductive invariant: where each message is, and what is known of it *)
(* there.                                                                  *)
(***************************************************************************)

Places  == {"front", "inbox", "hand"}
Pending == {"queued", "current", "entered"}
Working == {"admitted", "handling"}

\* The actor x (a record of act) has message m in its front channel, inbox or hands.
HasIn(x, k, m) ==
    CASE k = "front" -> m \in ToSet(x.front)
      [] k = "inbox" -> m \in ToSet(x.inbox)
      [] OTHER       -> x.cur = m

\* The fate a message has in place k of an actor in phase p.
FateAt(p, k) == IF k # "hand" THEN "queued" ELSE IF p = "admitted" THEN "current" ELSE "entered"

\* One actor: no queue holds a message twice or outlives its reader.
ActOK(a, x) ==
    /\ x \in ActorState
    /\ Capacity[a] > 0 => Len(x.front) <= Capacity[a]
    /\ OnceIn(x.front) /\ OnceIn(x.inbox)
    /\ x.front # <<>> => x.fwd = "up"
    /\ x.inbox # <<>> => x.open
    /\ x.cur # None => x.phase \in Working
    /\ x.phase = "unborn" => x.fwd = "none"

\* One message: it is in one place at most, in one if it is under way, and its
\* caller waits only then.
SolePlace(A, m) ==
    \A a, b \in Actors, k, l \in Places : HasIn(A[a], k, m) /\ HasIn(A[b], l, m) => a = b /\ k = l
KnownFate(A, s, m) ==
    \A a \in Actors, k \in Places : HasIn(A[a], k, m) => s.fate = FateAt(A[a].phase, k)
Placed(A, s, m) ==
    s.fate \in Pending => \E a \in Actors, k \in Places : HasIn(A[a], k, m)
RecordOK(s) ==
    /\ s \in MsgState
    /\ s.reply = "waiting" => s.chan # "none" /\ s.fate \in Pending
    /\ s.fate = "new" => s.reply = "none" /\ ~s.dead
    /\ s.dead => s.fate = "failed"
MsgOK(A, s, m) == SolePlace(A, m) /\ KnownFate(A, s, m) /\ Placed(A, s, m) /\ RecordOK(s)

RestOK ==
    /\ cancelled \subseteq Cancellable
    /\ watchers \in [Actors -> [Actors -> Nat]]
    /\ stopRx \in [Actors -> {"none", "stored", "awaiting", "returned ok", "returned err", "dropped"}]
    /\ told \subseteq Actors \X Actors \X {"none", "failed"}

IsOn(f, S) == f = [x \in S |-> f[x]]

AInv ==
    /\ IsOn(act, Actors) /\ IsOn(msg, Msgs)
    /\ \A a \in Actors : ActOK(a, act[a])
    /\ \A m \in Msgs : MsgOK(act, msg[m], m)
    /\ RestOK

LEMMA InvImplies == AInv => CallerIsServed
  <1> SUFFICES ASSUME AInv PROVE CallerIsServed
    OBVIOUS
  <1>1. act \in [Actors -> ActorState] /\ \A a \in Actors : Capacity[a] > 0 => Len(act[a].front) <= Capacity[a]
    BY DEF AInv, ActOK, IsOn
  <1>2. msg \in [Msgs -> MsgState]
    BY DEF AInv, MsgOK, RecordOK, IsOn
  <1>3. ATypeOK
    BY <1>1, <1>2 DEF AInv, RestOK, ATypeOK
  <1>4. ASSUME NEW m \in Msgs, msg[m].reply = "waiting"
        PROVE  \E a \in Actors : \/ act[a].fwd = "up" /\ m \in ToSet(act[a].front)
                                 \/ act[a].open /\ m \in ToSet(act[a].inbox)
                                 \/ act[a].phase \in {"admitted", "handling"} /\ act[a].cur = m
    <2>1. PICK a \in Actors, k \in Places : HasIn(act[a], k, m)
      BY <1>4 DEF AInv, MsgOK, RecordOK, Placed
    <2>2. act[a].front \in Seq(Msgs) /\ act[a].inbox \in Seq(Items)
      BY <1>1 DEF ActorState
    <2>3. CASE k = "front"
      <3>1. m \in ToSet(act[a].front)
        BY <2>1, <2>3 DEF HasIn
      <3>2. act[a].front # <<>>
        BY <2>2, <3>1, NonEmptyQueue
      <3> QED
        BY <3>1, <3>2 DEF AInv, ActOK
    <2>4. CASE k = "inbox"
      <3>1. m \in ToSet(act[a].inbox)
        BY <2>1, <2>4 DEF HasIn
      <3>2. act[a].inbox # <<>>
        BY <2>2, <3>1, NonEmptyQueue
      <3> QED
        BY <3>1, <3>2 DEF AInv, ActOK
    <2>5. CASE k = "hand"
      <3>1. act[a].cur = m /\ m # None
        BY <2>1, <2>5, AdapterAssumption DEF HasIn
      <3> QED
        BY <3>1 DEF AInv, ActOK, Working
    <2> QED
      BY <2>3, <2>4, <2>5 DEF Places
  <1> QED
    BY <1>3, <1>4 DEF CallerIsServed

LEMMA InvInit == Init => AInv
  <1> SUFFICES ASSUME NEW ad, AInit(ad) PROVE AInv
    BY DEF Init
  <1> DEFINE x == [phase |-> "unborn", cur |-> None, front |-> <<>>, inbox |-> <<>>, open |-> FALSE,
                   fwd |-> "none", halt |-> FALSE, overflow |-> None, reason |-> "none", signal |-> "none"]
             s == [chan |-> "none", fate |-> "new", reply |-> "none", dead |-> FALSE]
  <1>1. act = [a \in Actors |-> x] /\ msg = [m \in Msgs |-> s]
    BY DEF AInit
  <1>2. IsOn(act, Actors) /\ IsOn(msg, Msgs)
    BY <1>1 DEF IsOn
  <1>3. x \in ActorState /\ x.front = <<>> /\ x.inbox = <<>> /\ x.cur = None /\ x.fwd = "none"
    BY DEF ActorState, Phases, Items
  <1>4. s \in MsgState /\ s.fate = "new" /\ s.reply = "none" /\ s.dead = FALSE
    BY DEF MsgState
  <1> HIDE DEF x, s
  <1>5. ASSUME NEW a \in Actors PROVE ActOK(a, act[a])
    <2>1. Capacity[a] > 0 => Len(<<>>) <= Capacity[a]
      BY AdapterAssumption
    <2> QED
      BY <1>1, <1>3, <2>1, EmptyQueue DEF ActOK
  <1>6. ASSUME NEW m \in Msgs PROVE MsgOK(act, msg[m], m)
    <2>1. \A k \in Places : ~HasIn(x, k, m)
      BY <1>3, EmptyQueue, AdapterAssumption DEF HasIn, Places
    <2>2. RecordOK(s)
      BY <1>4 DEF RecordOK
    <2> QED
      BY <1>1, <1>4, <2>1, <2>2 DEF MsgOK, SolePlace, KnownFate, Placed, Pending
  <1>7. RestOK
    BY DEF AInit, RestOK, NoEntries
  <1> QED
    BY <1>2, <1>5, <1>6, <1>7 DEF AInv

(***************************************************************************)
(* What a step does to a message.                                          *)
(***************************************************************************)

Keeps(m) ==
    /\ msg'[m] = msg[m]
    /\ \A b \in Actors, k \in Places : HasIn(act'[b], k, m) <=> HasIn(act[b], k, m)
    /\ \A b \in Actors : act'[b].cur = m => FateAt(act'[b].phase, "hand") = FateAt(act[b].phase, "hand")
GoesTo(m, a, k) ==
    /\ \A b \in Actors, l \in Places : HasIn(act'[b], l, m) <=> b = a /\ l = k
    /\ msg'[m].fate = FateAt(act'[a].phase, k)
Leaves(m) ==
    /\ \A b \in Actors, l \in Places : ~HasIn(act'[b], l, m)
    /\ msg'[m].fate \notin Pending

LEMMA KeepsOK ==
    ASSUME NEW m \in Msgs, MsgOK(act, msg[m], m), Keeps(m)
    PROVE  MsgOK(act', msg'[m], m)
  <1>1. SolePlace(act', m)
    BY DEF MsgOK, SolePlace, Keeps
  <1>2. KnownFate(act', msg'[m], m)
    <2> SUFFICES ASSUME NEW a \in Actors, NEW k \in Places, HasIn(act'[a], k, m)
                 PROVE  msg[m].fate = FateAt(act'[a].phase, k)
      BY DEF KnownFate, Keeps
    <2>1. msg[m].fate = FateAt(act[a].phase, k)
      BY DEF MsgOK, KnownFate, Keeps
    <2>2. CASE k = "hand"
      <3>1. act'[a].cur = m
        BY <2>2 DEF HasIn
      <3> QED
        BY <2>1, <2>2, <3>1 DEF Keeps
    <2>3. CASE k # "hand"
      BY <2>1, <2>3 DEF FateAt
    <2> QED
      BY <2>2, <2>3
  <1>3. Placed(act', msg'[m], m)
    BY DEF MsgOK, Placed, Keeps
  <1> QED
    BY <1>1, <1>2, <1>3 DEF MsgOK, Keeps

LEMMA GoesToOK ==
    ASSUME NEW m \in Msgs, NEW a \in Actors, NEW k \in Places, GoesTo(m, a, k), RecordOK(msg'[m])
    PROVE  MsgOK(act', msg'[m], m)
  BY DEF MsgOK, SolePlace, KnownFate, Placed, GoesTo

LEMMA LeavesOK ==
    ASSUME NEW m \in Msgs, Leaves(m), RecordOK(msg'[m])
    PROVE  MsgOK(act', msg'[m], m)
  BY DEF MsgOK, SolePlace, KnownFate, Placed, Leaves

(***************************************************************************)
(* Steps that change one actor only.                                       *)
(***************************************************************************)

OnlyActor(a) == \A b \in Actors : b # a => act'[b] = act[b]

\* The message is nowhere but with a, if there.
OnlyAt(m, a) == \A b \in Actors, k \in Places : HasIn(act[b], k, m) => b = a

LEMMA SoleIsOnly ==
    ASSUME NEW m \in Msgs, MsgOK(act, msg[m], m), NEW a \in Actors, NEW k \in Places, HasIn(act[a], k, m)
    PROVE  OnlyAt(m, a) /\ msg[m].fate = FateAt(act[a].phase, k) /\ \A l \in Places : HasIn(act[a], l, m) => l = k
  BY DEF MsgOK, SolePlace, KnownFate, OnlyAt

LEMMA NewIsNowhere ==
    ASSUME NEW m \in Msgs, MsgOK(act, msg[m], m), msg[m].fate \notin Pending
    PROVE  \A b \in Actors, k \in Places : ~HasIn(act[b], k, m)
  BY DEF MsgOK, KnownFate, FateAt, Pending

LEMMA OneKeeps ==
    ASSUME NEW m \in Msgs, NEW a \in Actors, OnlyActor(a), msg'[m] = msg[m],
           \A k \in Places : HasIn(act'[a], k, m) <=> HasIn(act[a], k, m),
           act'[a].cur = m => FateAt(act'[a].phase, "hand") = FateAt(act[a].phase, "hand")
    PROVE  Keeps(m)
  BY DEF Keeps, OnlyActor

LEMMA OneGoesTo ==
    ASSUME NEW m \in Msgs, NEW a \in Actors, NEW k \in Places, OnlyActor(a), OnlyAt(m, a),
           \A l \in Places : HasIn(act'[a], l, m) <=> l = k,
           msg'[m].fate = FateAt(act'[a].phase, k)
    PROVE  GoesTo(m, a, k)
  BY DEF GoesTo, OnlyActor, OnlyAt

LEMMA OneLeaves ==
    ASSUME NEW m \in Msgs, NEW a \in Actors, OnlyActor(a), OnlyAt(m, a),
           \A l \in Places : ~HasIn(act'[a], l, m),
           msg'[m].fate \notin Pending
    PROVE  Leaves(m)
  BY DEF Leaves, OnlyActor, OnlyAt

\* All that can happen to a message in a step.
Fares(m) ==
    \/ Keeps(m)
    \/ /\ msg[m].fate \in Pending \cup {"new"} /\ RecordOK(msg'[m])
       /\ Leaves(m) \/ \E a \in Actors, k \in Places : GoesTo(m, a, k)

\* Only a message that is new or under way is touched.
Honest == \A m \in Msgs : msg'[m] = msg[m] \/ msg[m].fate \in Pending \cup {"new"}

LEMMA StepOK ==
    ASSUME AInv, IsOn(act', Actors), IsOn(msg', Msgs), \A a \in Actors : ActOK(a, act'[a]),
           \A m \in Msgs : Fares(m), RestOK'
    PROVE  AInv' /\ Honest
  <1>1. \A m \in Msgs : MsgOK(act, msg[m], m)
    BY DEF AInv
  <1>2. ASSUME NEW m \in Msgs PROVE MsgOK(act', msg'[m], m)
    <2>1. CASE Keeps(m)
      BY <1>1, <2>1, KeepsOK
    <2>2. CASE RecordOK(msg'[m]) /\ Leaves(m)
      BY <2>2, LeavesOK
    <2>3. ASSUME RecordOK(msg'[m]), NEW a \in Actors, NEW k \in Places, GoesTo(m, a, k)
          PROVE  MsgOK(act', msg'[m], m)
      BY <2>3, GoesToOK
    <2> QED
      BY <2>1, <2>2, <2>3 DEF Fares
  <1>3. AInv'
    BY <1>2 DEF AInv
  <1>4. Honest
    BY DEF Honest, Fares, Keeps
  <1> QED
    BY <1>3, <1>4

LEMMA OneActorOK ==
    ASSUME AInv, NEW a \in Actors, OnlyActor(a), ActOK(a, act'[a])
    PROVE  \A b \in Actors : ActOK(b, act'[b])
  BY DEF AInv, OnlyActor

\* What is known of one actor.
LEMMA ActorFacts ==
    ASSUME AInv, NEW a \in Actors
    PROVE  /\ act[a] \in ActorState /\ act[a].front \in Seq(Msgs) /\ act[a].inbox \in Seq(Items)
           /\ act[a].cur \in Items /\ act[a].phase \in Phases
           /\ act[a].cur \in Msgs => act[a].phase \in Working
           /\ None \notin Msgs /\ None \in Items /\ Msgs \subseteq Items
  <1>1. ActOK(a, act[a])
    BY DEF AInv
  <1>2. act[a] \in ActorState
    BY <1>1 DEF ActOK
  <1>3. /\ act[a].front \in Seq(Msgs) /\ act[a].inbox \in Seq(Items)
        /\ act[a].cur \in Items /\ act[a].phase \in Phases
    BY <1>2 DEF ActorState
  <1>4. None \notin Msgs /\ None \in Items /\ Msgs \subseteq Items
    BY AdapterAssumption DEF Items
  <1>5. act[a].cur \in Msgs => act[a].phase \in Working
    BY <1>1, <1>4 DEF ActOK
  <1> QED
    BY <1>2, <1>3, <1>4, <1>5

\* The record of a is replaced by x.
LEMMA ReplaceActor ==
    ASSUME AInv, NEW a \in Actors, NEW x, act' = [act EXCEPT ![a] = x]
    PROVE  IsOn(act', Actors) /\ act'[a] = x /\ OnlyActor(a)
  BY DEF AInv, IsOn, OnlyActor

LEMMA ReplaceMsg ==
    ASSUME AInv, NEW m \in Msgs, NEW s, msg' = [msg EXCEPT ![m] = s]
    PROVE  IsOn(msg', Msgs) /\ msg'[m] = s /\ \A k \in Msgs : k # m => msg'[k] = msg[k]
  BY DEF AInv, IsOn

\* Answering a dispatch.
LEMMA SettleOK ==
    ASSUME NEW s, RecordOK(s), s.fate \in Pending, NEW f \in {"handled", "failed"}, NEW r \in {"ok", "error", "closed"}
    PROVE  /\ RecordOK(Settle(s, f, r)) /\ Settle(s, f, r).fate = f
           /\ f = "failed" => \A d \in BOOLEAN : RecordOK([Settle(s, f, r) EXCEPT !.dead = d])
  <1>1. s \in MsgState /\ (s.reply = "waiting" => s.chan # "none") /\ ~s.dead
    BY DEF RecordOK, Pending
  <1>2. Answer(s, r) \in {"none", "waiting", "ok", "error", "closed"} /\ Answer(s, r) # "waiting"
    BY <1>1 DEF Answer, MsgState
  <1> DEFINE v == Answer(s, r)
             t == [s EXCEPT !.fate = f, !.reply = v, !.chan = "none"]
  <1>3. Settle(s, f, r) = t
    BY DEF Settle
  <1> HIDE DEF v
  <1>4. t \in MsgState /\ t.fate = f /\ t.reply = v /\ t.dead = s.dead
    BY <1>1, <1>2 DEF MsgState, v
  <1>5. ASSUME NEW d \in BOOLEAN PROVE [t EXCEPT !.dead = d] \in MsgState /\ [t EXCEPT !.dead = d].fate = f
                                       /\ [t EXCEPT !.dead = d].reply = v /\ [t EXCEPT !.dead = d].dead = d
    BY <1>1, <1>2 DEF MsgState, v
  <1> HIDE DEF t
  <1>6. RecordOK(t)
    BY <1>1, <1>2, <1>4 DEF RecordOK, v
  <1>7. ASSUME NEW d \in BOOLEAN, f = "failed" PROVE RecordOK([t EXCEPT !.dead = d])
    BY <1>2, <1>5, <1>7 DEF RecordOK, v
  <1> QED
    BY <1>3, <1>4, <1>6, <1>7

(***************************************************************************)
(* Steps that move no message.                                             *)
(***************************************************************************)

LEMMA StillOK ==
    ASSUME AInv, UNCHANGED <<act, msg>>, RestOK'
    PROVE  AInv' /\ Honest
  BY DEF AInv, Honest

\* The actor a goes on as x, with the same messages.
SameMsgs(x, y) ==
    /\ \A m \in Msgs : m \in ToSet(y.front) <=> m \in ToSet(x.front)
    /\ \A m \in Msgs : m \in ToSet(y.inbox) <=> m \in ToSet(x.inbox)
    /\ y.cur = x.cur /\ (x.cur # None => y.phase = x.phase)

LEMMA QuietActorOK ==
    ASSUME AInv, NEW a \in Actors, NEW x, act' = [act EXCEPT ![a] = x], ActOK(a, x), SameMsgs(act[a], x),
           msg' = msg, RestOK'
    PROVE  AInv' /\ Honest
  <1>1. IsOn(act', Actors) /\ act'[a] = x /\ OnlyActor(a)
    BY ReplaceActor
  <1>2. \A b \in Actors : ActOK(b, act'[b])
    BY <1>1, OneActorOK
  <1>3. ASSUME NEW m \in Msgs PROVE Fares(m)
    <2>1. m # None
      BY AdapterAssumption
    <2>2. \A k \in Places : HasIn(x, k, m) <=> HasIn(act[a], k, m)
      BY DEF HasIn, SameMsgs, Places
    <2>3. x.cur = m => x.phase = act[a].phase
      BY <2>1 DEF SameMsgs
    <2>4. Keeps(m)
      BY <1>1, <2>2, <2>3, OneKeeps
    <2> QED
      BY <2>4 DEF Fares
  <1>4. IsOn(msg', Msgs)
    BY DEF AInv
  <1> QED
    BY <1>1, <1>2, <1>3, <1>4, StepOK

\* Fields other than the queues and the message in hand change.
LEMMA FlagsOK ==
    ASSUME AInv, NEW a \in Actors, NEW x \in ActorState, act' = [act EXCEPT ![a] = x], msg' = msg, RestOK',
           x.front = act[a].front, x.inbox = act[a].inbox, x.cur = act[a].cur,
           act[a].phase \in Working => x.phase = act[a].phase,
           x.fwd = act[a].fwd \/ act[a].fwd = "none",
           act[a].open => x.open,
           x.phase = "unborn" => x.fwd = "none"
    PROVE  AInv' /\ Honest
  <1>1. ActOK(a, act[a])
    BY DEF AInv
  <1>2. ActOK(a, x)
    BY <1>1 DEF ActOK
  <1>3. SameMsgs(act[a], x)
    BY <1>1 DEF ActOK, SameMsgs
  <1> QED
    BY <1>2, <1>3, QuietActorOK

LEMMA RestFrame ==
    ASSUME AInv, UNCHANGED <<cancelled, watchers, stopRx, told>>
    PROVE  RestOK'
  BY DEF AInv, RestOK

LEMMA BeginOK ==
    ASSUME AInv, NEW a \in Actors, NEW o \in Strategies \cup {None}, NEW p \in {"recv", "starting"}, Begin(a, o, p)
    PROVE  AInv' /\ Honest
  <1> DEFINE w == IF Capacity[a] = 0 THEN "none" ELSE "up"
             x == [act[a] EXCEPT !.phase = p, !.open = TRUE, !.overflow = o, !.fwd = w]
  <1>1. act[a].phase = "unborn" /\ act' = [act EXCEPT ![a] = x] /\ msg' = msg
    BY DEF Begin, Spawned
  <1>2. ActOK(a, act[a]) /\ act[a] \in ActorState
    BY DEF AInv, ActOK
  <1>3. act[a].fwd = "none" /\ act[a].phase \notin Working
    BY <1>1, <1>2 DEF ActOK, Working
  <1>4. /\ x \in ActorState /\ x.front = act[a].front /\ x.inbox = act[a].inbox /\ x.cur = act[a].cur
        /\ x.open = TRUE /\ x.phase # "unborn"
    BY <1>2 DEF ActorState, Phases
  <1>5. RestOK'
    <2>1. stopRx' = [stopRx EXCEPT ![a] = IF a \in Awaited THEN "stored" ELSE "none"] /\ UNCHANGED <<cancelled, watchers, told>>
      BY DEF Begin
    <2> QED
      BY <2>1 DEF AInv, RestOK
  <1> HIDE DEF x
  <1> QED
    BY <1>1, <1>3, <1>4, <1>5, FlagsOK

LEMMA StartedOK ==
    ASSUME AInv, NEW a \in Actors, Started(a)
    PROVE  AInv' /\ Honest
  <1> DEFINE x == [act[a] EXCEPT !.phase = "recv"]
  <1>1. /\ act[a].phase = "starting" /\ act' = [act EXCEPT ![a] = x] /\ msg' = msg
        /\ UNCHANGED <<cancelled, watchers, stopRx, told>>
    BY DEF Started
  <1>2. act[a] \in ActorState
    BY ActorFacts
  <1>3. /\ x \in ActorState /\ x.front = act[a].front /\ x.inbox = act[a].inbox /\ x.cur = act[a].cur
        /\ x.open = act[a].open /\ x.fwd = act[a].fwd /\ x.phase # "unborn" /\ act[a].phase \notin Working
    BY <1>1, <1>2 DEF ActorState, Phases, Working
  <1> HIDE DEF x
  <1> QED
    BY <1>1, <1>3, FlagsOK, RestFrame

LEMMA SpawnFailsOK ==
    ASSUME AInv, NEW a \in Actors, RactorSpawnFails(a)
    PROVE  AInv' /\ Honest
  <1> DEFINE x == [act[a] EXCEPT !.signal = "dropped"]
  <1>1. act' = [act EXCEPT ![a] = x] /\ msg' = msg /\ UNCHANGED <<cancelled, watchers, stopRx, told>>
    BY DEF RactorSpawnFails
  <1>2. act[a] \in ActorState /\ ActOK(a, act[a])
    BY ActorFacts DEF AInv
  <1>3. /\ x \in ActorState /\ x.front = act[a].front /\ x.inbox = act[a].inbox /\ x.cur = act[a].cur
        /\ x.open = act[a].open /\ x.fwd = act[a].fwd /\ x.phase = act[a].phase
    BY <1>2 DEF ActorState
  <1>4. x.phase = "unborn" => x.fwd = "none"
    BY <1>2, <1>3 DEF ActOK
  <1> HIDE DEF x
  <1> QED
    BY <1>1, <1>3, <1>4, FlagsOK, RestFrame

LEMMA StopFlagOK ==
    ASSUME AInv, NEW a \in Actors, RactorStop(a) \/ KameoStop(a)
    PROVE  AInv' /\ Honest
  <1> DEFINE x == [act[a] EXCEPT !.halt = TRUE]
  <1>1. act' = [act EXCEPT ![a] = x] /\ msg' = msg /\ UNCHANGED <<cancelled, watchers, stopRx, told>>
    BY DEF RactorStop, KameoStop
  <1>2. act[a] \in ActorState /\ ActOK(a, act[a])
    BY ActorFacts DEF AInv
  <1>3. /\ x \in ActorState /\ x.front = act[a].front /\ x.inbox = act[a].inbox /\ x.cur = act[a].cur
        /\ x.open = act[a].open /\ x.fwd = act[a].fwd /\ x.phase = act[a].phase
    BY <1>2 DEF ActorState
  <1>4. x.phase = "unborn" => x.fwd = "none"
    BY <1>2, <1>3 DEF ActOK
  <1> HIDE DEF x
  <1> QED
    BY <1>1, <1>3, <1>4, FlagsOK, RestFrame

LEMMA RactorLeavesOK ==
    ASSUME AInv, NEW a \in Actors, RactorLeaves(a)
    PROVE  AInv' /\ Honest
  <1> DEFINE x == [act[a] EXCEPT !.phase = "exiting"]
  <1>1. /\ act[a].phase = "recv" /\ act' = [act EXCEPT ![a] = x] /\ msg' = msg
        /\ UNCHANGED <<cancelled, watchers, stopRx, told>>
    BY DEF RactorLeaves
  <1>2. act[a] \in ActorState
    BY ActorFacts
  <1>3. /\ x \in ActorState /\ x.front = act[a].front /\ x.inbox = act[a].inbox /\ x.cur = act[a].cur
        /\ x.open = act[a].open /\ x.fwd = act[a].fwd /\ x.phase # "unborn" /\ act[a].phase \notin Working
    BY <1>1, <1>2 DEF ActorState, Phases, Working
  <1> HIDE DEF x
  <1> QED
    BY <1>1, <1>3, FlagsOK, RestFrame

\* coerce: the stop message goes into the inbox ...
LEMMA CoerceStopOK ==
    ASSUME AInv, NEW a \in Actors, CoerceStop(a)
    PROVE  AInv' /\ Honest
  <1> DEFINE q == Append(act[a].inbox, None)
             x == [act[a] EXCEPT !.halt = TRUE, !.inbox = q]
  <1>1. act[a].open /\ act' = [act EXCEPT ![a] = x] /\ msg' = msg /\ UNCHANGED <<cancelled, watchers, stopRx, told>>
    BY DEF CoerceStop
  <1>2. ActOK(a, act[a]) /\ act[a] \in ActorState /\ act[a].inbox \in Seq(Items) /\ None \notin Msgs /\ None \in Items
    BY ActorFacts DEF AInv
  <1>3. q \in Seq(Items) /\ OnceIn(q) /\ ToSet(q) = ToSet(act[a].inbox) \cup {None}
    BY <1>2, OnceAppend, AppendSet DEF ActOK
  <1> HIDE DEF q
  <1>4. /\ x \in ActorState /\ x.front = act[a].front /\ x.inbox = q /\ x.cur = act[a].cur
        /\ x.open = act[a].open /\ x.fwd = act[a].fwd /\ x.phase = act[a].phase
    BY <1>2, <1>3 DEF ActorState
  <1> HIDE DEF x
  <1>5. ActOK(a, x)
    BY <1>1, <1>2, <1>3, <1>4 DEF ActOK
  <1>6. SameMsgs(act[a], x)
    BY <1>2, <1>3, <1>4 DEF SameMsgs
  <1> QED
    BY <1>1, <1>5, <1>6, QuietActorOK, RestFrame

\* ... and comes out of it.
LEMMA CoerceLeavesOK ==
    ASSUME AInv, NEW a \in Actors, CoerceLeaves(a)
    PROVE  AInv' /\ Honest
  <1> DEFINE q == Tail(act[a].inbox)
             x == [act[a] EXCEPT !.inbox = q, !.phase = "exiting"]
  <1>1. /\ act[a].phase = "recv" /\ act[a].inbox # <<>> /\ Head(act[a].inbox) = None
        /\ act' = [act EXCEPT ![a] = x] /\ msg' = msg /\ UNCHANGED <<cancelled, watchers, stopRx, told>>
    BY DEF CoerceLeaves
  <1>2. ActOK(a, act[a]) /\ act[a] \in ActorState /\ act[a].inbox \in Seq(Items) /\ None \notin Msgs
    BY ActorFacts DEF AInv
  <1>3. q \in Seq(Items) /\ OnceIn(q) /\ ToSet(act[a].inbox) = {None} \cup ToSet(q)
    BY <1>1, <1>2, OnceTail, TailSet DEF ActOK
  <1> HIDE DEF q
  <1>4. /\ x \in ActorState /\ x.front = act[a].front /\ x.inbox = q /\ x.cur = act[a].cur
        /\ x.open = act[a].open /\ x.fwd = act[a].fwd /\ x.phase = "exiting"
    BY <1>2, <1>3 DEF ActorState, Phases
  <1> HIDE DEF x
  <1>5. act[a].cur = None /\ act[a].open
    BY <1>1, <1>2 DEF ActOK, Working
  <1>6. ActOK(a, x)
    BY <1>2, <1>3, <1>4, <1>5 DEF ActOK
  <1>7. SameMsgs(act[a], x)
    BY <1>2, <1>3, <1>4, <1>5 DEF SameMsgs
  <1> QED
    BY <1>1, <1>6, <1>7, QuietActorOK, RestFrame

\* The runtime's own maps.
LEMMA MapsOK ==
    ASSUME AInv,
           \/ \E m \in Msgs : CancelToken(m)
           \/ \E w, t \in Actors : WatchEntry(w, t) \/ UnwatchEntries(w, t)
           \/ \E a \in Actors : TakeReceivers({a}) \/ AwaitReturns(a)
           \/ TakeReceivers(Actors) \/ DropFinished \/ UNCHANGED avars
    PROVE  AInv' /\ Honest
  <1>1. RestOK
    BY DEF AInv
  <1>2. ASSUME NEW m \in Msgs, CancelToken(m) PROVE UNCHANGED <<act, msg>> /\ RestOK'
    BY <1>1, <1>2 DEF CancelToken, RestOK
  <1>3. ASSUME NEW w \in Actors, NEW t \in Actors, WatchEntry(w, t) PROVE UNCHANGED <<act, msg>> /\ RestOK'
    <2>1. watchers' = [watchers EXCEPT ![t][w] = watchers[t][w] + 1] /\ UNCHANGED <<act, msg, cancelled, stopRx, told>>
      BY <1>3 DEF WatchEntry
    <2>2. watchers \in [Actors -> [Actors -> Nat]]
      BY <1>1 DEF RestOK
    <2>3. watchers[t][w] + 1 \in Nat
      BY <2>2
    <2>4. watchers' \in [Actors -> [Actors -> Nat]]
      BY <2>1, <2>2, <2>3
    <2> QED
      BY <1>1, <2>1, <2>4 DEF RestOK
  <1>4. ASSUME NEW w \in Actors, NEW t \in Actors, UnwatchEntries(w, t) PROVE UNCHANGED <<act, msg>> /\ RestOK'
    BY <1>1, <1>4 DEF UnwatchEntries, RestOK
  <1>5. ASSUME NEW A, TakeReceivers(A) PROVE UNCHANGED <<act, msg>> /\ RestOK'
    BY <1>1, <1>5 DEF TakeReceivers, RestOK
  <1>6. ASSUME NEW a \in Actors, AwaitReturns(a) PROVE UNCHANGED <<act, msg>> /\ RestOK'
    BY <1>1, <1>6 DEF AwaitReturns, RestOK
  <1>7. ASSUME DropFinished PROVE UNCHANGED <<act, msg>> /\ RestOK'
    BY <1>1, <1>7 DEF DropFinished, RestOK
  <1>8. ASSUME UNCHANGED avars PROVE UNCHANGED <<act, msg>> /\ RestOK'
    BY <1>1, <1>8 DEF avars, RestOK
  <1> QED
    BY <1>2, <1>3, <1>4, <1>5, <1>6, <1>7, <1>8, StillOK

(***************************************************************************)
(* Steps that move messages.                                               *)
(***************************************************************************)

\* A new message is refused, dropped or stopped.
LEMMA RefusedOK ==
    ASSUME AInv, NEW m \in Msgs, msg[m].fate = "new", NEW s, RecordOK(s), s.fate = "failed",
           act' = act, msg' = [msg EXCEPT ![m] = s], RestOK'
    PROVE  AInv' /\ Honest
  <1>1. IsOn(msg', Msgs) /\ msg'[m] = s /\ \A k \in Msgs : k # m => msg'[k] = msg[k]
    BY ReplaceMsg
  <1>2. \A b \in Actors, k \in Places : ~HasIn(act[b], k, m)
    BY NewIsNowhere DEF AInv, Pending
  <1>3. Fares(m)
    BY <1>1, <1>2 DEF Fares, Leaves, Pending
  <1>4. \A k \in Msgs : k # m => Fares(k)
    BY <1>1 DEF Fares, Keeps
  <1>5. IsOn(act', Actors) /\ \A a \in Actors : ActOK(a, act'[a])
    BY DEF AInv
  <1> QED
    BY <1>1, <1>3, <1>4, <1>5, StepOK

\* The record of a message that an outbound interceptor stopped.
Stopped(s, mode) == [s EXCEPT !.fate = "failed", !.reply = IF mode = "ask" THEN "error" ELSE s.reply]

\* The record of a message that was accepted, and of one that was not.
LEMMA NewRecord ==
    ASSUME NEW s, RecordOK(s), s.fate = "new", NEW mode \in SendModes
    PROVE  /\ RecordOK(Settle([s EXCEPT !.chan = ChannelOf(mode)], "queued", "waiting"))
           /\ Settle([s EXCEPT !.chan = ChannelOf(mode)], "queued", "waiting").fate = "queued"
           /\ RecordOK(Settle([s EXCEPT !.chan = ChannelOf(mode)], "failed", "closed"))
           /\ Settle([s EXCEPT !.chan = ChannelOf(mode)], "failed", "closed").fate = "failed"
           /\ RecordOK([s EXCEPT !.fate = "failed", !.dead = mode \in {"tell", "ask"}])
           /\ [s EXCEPT !.fate = "failed", !.dead = mode \in {"tell", "ask"}].fate = "failed"
           /\ RecordOK(Stopped(s, mode)) /\ Stopped(s, mode).fate = "failed"
  <1> DEFINE c == ChannelOf(mode)
             t == [s EXCEPT !.chan = c]
  <1>1. s \in MsgState /\ s.reply = "none" /\ ~s.dead
    BY DEF RecordOK
  <1>2. c \in {"none", "oneshot", "stream"}
    BY DEF ChannelOf, SendModes
  <1>3. t \in MsgState /\ t.reply = "none" /\ t.dead = FALSE /\ t.chan = c /\ t.fate = "new"
    BY <1>1, <1>2 DEF MsgState
  <1> HIDE DEF c, t
  <1> DEFINE v == Answer(t, "waiting")
             u == Answer(t, "closed")
             q == [t EXCEPT !.fate = "queued", !.reply = v, !.chan = c]
             r == [t EXCEPT !.fate = "failed", !.reply = u, !.chan = "none"]
  <1>4. v \in {"none", "waiting"} /\ (v = "waiting" => c # "none") /\ u \in {"none", "closed"}
    BY <1>2, <1>3 DEF Answer
  <1>5. Settle(t, "queued", "waiting") = q /\ Settle(t, "failed", "closed") = r
    BY <1>3 DEF Settle
  <1> HIDE DEF v, u
  <1>6. q \in MsgState /\ q.fate = "queued" /\ q.reply = v /\ q.chan = c /\ q.dead = FALSE
    BY <1>2, <1>3, <1>4 DEF MsgState
  <1>7. r \in MsgState /\ r.fate = "failed" /\ r.reply = u /\ r.dead = FALSE
    BY <1>2, <1>3, <1>4 DEF MsgState
  <1>8. RecordOK(q) /\ RecordOK(r)
    BY <1>4, <1>6, <1>7 DEF RecordOK, Pending
  <1> DEFINE d == mode \in {"tell", "ask"}
             e == IF mode = "ask" THEN "error" ELSE s.reply
             x == [s EXCEPT !.fate = "failed", !.dead = d]
             y == [s EXCEPT !.fate = "failed", !.reply = e]
  <1>9. d \in BOOLEAN /\ e \in {"none", "error"}
    BY <1>1
  <1> HIDE DEF d, e
  <1>10. x \in MsgState /\ x.fate = "failed" /\ x.reply = "none"
    BY <1>1, <1>9 DEF MsgState
  <1>11. y \in MsgState /\ y.fate = "failed" /\ y.reply = e /\ y.dead = s.dead
    BY <1>1, <1>9 DEF MsgState
  <1>12. RecordOK(x) /\ RecordOK(y)
    BY <1>1, <1>9, <1>10, <1>11 DEF RecordOK, Pending
  <1> HIDE DEF q, r, x, y
  <1> QED
    BY <1>5, <1>6, <1>7, <1>8, <1>10, <1>11, <1>12 DEF c, t, d, e, x, y, Stopped

LEMMA InterceptedOK ==
    ASSUME AInv, NEW a \in Actors, NEW m \in Msgs, NEW mode \in SendModes, Intercepted(a, m, mode)
    PROVE  AInv' /\ Honest
  <1>1. /\ msg[m].fate = "new" /\ act' = act /\ UNCHANGED <<cancelled, watchers, stopRx, told>>
        /\ msg' = [msg EXCEPT ![m] = Stopped(msg[m], mode)]
    BY DEF Intercepted, Stopped
  <1>2. RecordOK(msg[m])
    BY DEF AInv, MsgOK
  <1>3. RecordOK(Stopped(msg[m], mode)) /\ Stopped(msg[m], mode).fate = "failed"
    BY <1>1, <1>2, NewRecord
  <1> QED
    BY <1>1, <1>3, RefusedOK, RestFrame

\* An accepted message is put into the queue that a has for it.
LEMMA EnqueueOK ==
    ASSUME AInv, NEW a \in Actors, NEW m \in Msgs, msg[m].fate = "new", SendResult(a) = "ok",
           act' = Enqueue(a, m), NEW s, RecordOK(s), s.fate = "queued", msg' = [msg EXCEPT ![m] = s], RestOK'
    PROVE  AInv' /\ Honest
  <1>1. IsOn(msg', Msgs) /\ msg'[m] = s /\ \A k \in Msgs : k # m => msg'[k] = msg[k]
    BY ReplaceMsg
  <1>2. \A b \in Actors, k \in Places : ~HasIn(act[b], k, m)
    BY NewIsNowhere DEF AInv, Pending
  <1>3. m \notin ToSet(act[a].front) /\ m \notin ToSet(act[a].inbox) /\ act[a].cur # m
    <2>1. ~HasIn(act[a], "front", m) /\ ~HasIn(act[a], "inbox", m) /\ ~HasIn(act[a], "hand", m)
      BY <1>2 DEF Places
    <2> QED
      BY <2>1 DEF HasIn
  <1>4. ActOK(a, act[a]) /\ act[a] \in ActorState /\ act[a].front \in Seq(Msgs) /\ act[a].inbox \in Seq(Items) /\ m \in Items
    BY ActorFacts DEF AInv
  <1>5. OnlyAt(m, a)
    BY <1>2 DEF OnlyAt
  <1>6. CASE act[a].fwd = "none"
    <2> DEFINE q == Append(act[a].inbox, m)
               x == [act[a] EXCEPT !.inbox = q]
    <2>1. act[a].open /\ act' = [act EXCEPT ![a] = x]
      BY <1>6 DEF SendResult, Enqueue
    <2>2. q \in Seq(Items) /\ OnceIn(q) /\ ToSet(q) = ToSet(act[a].inbox) \cup {m}
      BY <1>3, <1>4, OnceAppend, AppendSet DEF ActOK
    <2> HIDE DEF q
    <2>3. /\ x \in ActorState /\ x.front = act[a].front /\ x.inbox = q /\ x.cur = act[a].cur
          /\ x.open = act[a].open /\ x.fwd = act[a].fwd /\ x.phase = act[a].phase
      BY <1>4, <2>2 DEF ActorState
    <2> HIDE DEF x
    <2>4. ActOK(a, x)
      BY <1>4, <2>1, <2>2, <2>3 DEF ActOK
    <2>5. IsOn(act', Actors) /\ act'[a] = x /\ OnlyActor(a)
      BY <2>1, ReplaceActor
    <2>6. \A b \in Actors : ActOK(b, act'[b])
      BY <2>4, <2>5, OneActorOK
    <2>7. \A l \in Places : HasIn(x, l, m) <=> l = "inbox"
      BY <1>3, <2>2, <2>3 DEF HasIn, Places
    <2>8. GoesTo(m, a, "inbox")
      BY <1>1, <1>5, <2>5, <2>7, OneGoesTo DEF FateAt, Places
    <2>9. Fares(m)
      BY <1>1, <2>8 DEF Fares, Places
    <2>10. ASSUME NEW k \in Msgs, k # m PROVE Fares(k)
      <3>1. \A l \in Places : HasIn(x, l, k) <=> HasIn(act[a], l, k)
        BY <2>2, <2>3, <2>10 DEF HasIn, Places
      <3>2. Keeps(k)
        BY <1>1, <2>3, <2>5, <2>10, <3>1, OneKeeps
      <3> QED
        BY <3>2 DEF Fares
    <2> QED
      BY <1>1, <2>5, <2>6, <2>9, <2>10, StepOK
  <1>7. CASE act[a].fwd # "none"
    <2> DEFINE q == Append(act[a].front, m)
               x == [act[a] EXCEPT !.front = q]
    <2>1. act[a].fwd # "down" /\ Len(act[a].front) < Capacity[a] /\ act' = [act EXCEPT ![a] = x]
      BY <1>7 DEF SendResult, Enqueue
    <2>2. q \in Seq(Msgs) /\ OnceIn(q) /\ ToSet(q) = ToSet(act[a].front) \cup {m}
      BY <1>3, <1>4, OnceAppend, AppendSet DEF ActOK
    <2>3. Len(q) <= Capacity[a]
      BY <1>4, <2>1, AdapterAssumption
    <2> HIDE DEF q
    <2>4. /\ x \in ActorState /\ x.front = q /\ x.inbox = act[a].inbox /\ x.cur = act[a].cur
          /\ x.open = act[a].open /\ x.fwd = act[a].fwd /\ x.phase = act[a].phase
      BY <1>4, <2>2 DEF ActorState
    <2>5. act[a].fwd = "up"
      BY <1>4, <1>7, <2>1 DEF ActorState
    <2> HIDE DEF x
    <2>6. ActOK(a, x)
      BY <1>4, <2>2, <2>3, <2>4, <2>5 DEF ActOK
    <2>7. IsOn(act', Actors) /\ act'[a] = x /\ OnlyActor(a)
      BY <2>1, ReplaceActor
    <2>8. \A b \in Actors : ActOK(b, act'[b])
      BY <2>6, <2>7, OneActorOK
    <2>9. \A l \in Places : HasIn(x, l, m) <=> l = "front"
      BY <1>3, <2>2, <2>4 DEF HasIn, Places
    <2>10. GoesTo(m, a, "front")
      BY <1>1, <1>5, <2>7, <2>9, OneGoesTo DEF FateAt, Places
    <2>11. Fares(m)
      BY <1>1, <2>10 DEF Fares, Places
    <2>12. ASSUME NEW k \in Msgs, k # m PROVE Fares(k)
      <3>1. \A l \in Places : HasIn(x, l, k) <=> HasIn(act[a], l, k)
        BY <2>2, <2>4, <2>12 DEF HasIn, Places
      <3>2. Keeps(k)
        BY <1>1, <2>4, <2>7, <2>12, <3>1, OneKeeps
      <3> QED
        BY <3>2 DEF Fares
    <2> QED
      BY <1>1, <2>7, <2>8, <2>11, <2>12, StepOK
  <1> QED
    BY <1>6, <1>7

LEMMA SendDispatchOK ==
    ASSUME AInv, NEW a \in Actors, NEW m \in Msgs, NEW mode \in SendModes, SendDispatch(a, m, mode)
    PROVE  AInv' /\ Honest
  <1> DEFINE s == [msg[m] EXCEPT !.chan = ChannelOf(mode)]
             t == [msg[m] EXCEPT !.fate = "failed", !.dead = mode \in {"tell", "ask"}]
  <1>1. msg[m].fate = "new" /\ RestOK'
    BY RestFrame DEF SendDispatch
  <1>2. /\ RecordOK(Settle(s, "queued", "waiting")) /\ Settle(s, "queued", "waiting").fate = "queued"
        /\ RecordOK(Settle(s, "failed", "closed")) /\ Settle(s, "failed", "closed").fate = "failed"
        /\ RecordOK(t) /\ t.fate = "failed"
    BY <1>1, NewRecord DEF AInv, MsgOK
  <1>3. \/ SendResult(a) = "ok" /\ act' = Enqueue(a, m) /\ msg' = [msg EXCEPT ![m] = Settle(s, "queued", "waiting")]
        \/ act' = act /\ msg' = [msg EXCEPT ![m] = Settle(s, "failed", "closed")]
        \/ act' = act /\ msg' = [msg EXCEPT ![m] = t]
    BY DEF SendDispatch
  <1> HIDE DEF s, t
  <1>4. CASE SendResult(a) = "ok" /\ act' = Enqueue(a, m) /\ msg' = [msg EXCEPT ![m] = Settle(s, "queued", "waiting")]
    BY <1>1, <1>2, <1>4, EnqueueOK
  <1>5. CASE act' = act /\ msg' = [msg EXCEPT ![m] = Settle(s, "failed", "closed")]
    BY <1>1, <1>2, <1>5, RefusedOK
  <1>6. CASE act' = act /\ msg' = [msg EXCEPT ![m] = t]
    BY <1>1, <1>2, <1>6, RefusedOK
  <1> QED
    BY <1>3, <1>4, <1>5, <1>6

\* What is known of the message at the head of an inbox.
LEMMA HeadFacts ==
    ASSUME AInv, NEW a \in Actors, act[a].inbox # <<>>, Head(act[a].inbox) \in Msgs
    PROVE  /\ OnlyAt(Head(act[a].inbox), a) /\ msg[Head(act[a].inbox)].fate = "queued"
           /\ Head(act[a].inbox) \notin ToSet(act[a].front) /\ act[a].cur # Head(act[a].inbox)
           /\ Head(act[a].inbox) \notin ToSet(Tail(act[a].inbox))
           /\ RecordOK(msg[Head(act[a].inbox)])
  <1> DEFINE m == Head(act[a].inbox)
  <1>1. act[a].inbox \in Seq(Items) /\ OnceIn(act[a].inbox)
    BY ActorFacts DEF AInv, ActOK
  <1>2. m \in ToSet(act[a].inbox) /\ m \notin ToSet(Tail(act[a].inbox))
    BY <1>1, OnceTail, TailSet
  <1>3. MsgOK(act, msg[m], m)
    BY DEF AInv
  <1> HIDE DEF m
  <1>4. m \in Msgs /\ HasIn(act[a], "inbox", m) /\ "inbox" \in Places
    BY <1>2 DEF HasIn, m, Places
  <1>5. OnlyAt(m, a) /\ msg[m].fate = FateAt(act[a].phase, "inbox") /\ \A l \in Places : HasIn(act[a], l, m) => l = "inbox"
    BY <1>3, <1>4, SoleIsOnly
  <1>6. ~HasIn(act[a], "front", m) /\ ~HasIn(act[a], "hand", m)
    BY <1>5 DEF Places
  <1>7. m \notin ToSet(act[a].front) /\ act[a].cur # m
    BY <1>6 DEF HasIn
  <1>8. msg[m].fate = "queued" /\ RecordOK(msg[m])
    BY <1>3, <1>5 DEF FateAt, MsgOK
  <1> QED
    BY <1>2, <1>5, <1>7, <1>8 DEF m

\* The actor without the head of its inbox.
LEMMA TakeHead ==
    ASSUME AInv, NEW a \in Actors, act[a].inbox # <<>>
    PROVE  /\ Tail(act[a].inbox) \in Seq(Items) /\ OnceIn(Tail(act[a].inbox)) /\ act[a].open
           /\ ToSet(act[a].inbox) = {Head(act[a].inbox)} \cup ToSet(Tail(act[a].inbox)) /\ Head(act[a].inbox) \in Items
  <1>1. act[a].inbox \in Seq(Items) /\ OnceIn(act[a].inbox) /\ act[a].open
    BY ActorFacts DEF AInv, ActOK
  <1> QED
    BY <1>1, OnceTail, TailSet

LEMMA RejectOK ==
    ASSUME AInv, NEW a \in Actors, Reject(a)
    PROVE  AInv' /\ Honest
  <1> DEFINE q == Tail(act[a].inbox)
             m == Head(act[a].inbox)
             x == [act[a] EXCEPT !.inbox = q]
  <1>1. act[a].inbox # <<>> /\ act' = [act EXCEPT ![a] = x] /\ UNCHANGED <<cancelled, watchers, stopRx, told>>
    BY DEF Reject
  <1>2. m \notin Msgs => msg' = msg
    BY DEF Reject
  <1>3. m \in Msgs => \E d \in BOOLEAN : msg' = [msg EXCEPT ![m] = [Settle(msg[m], "failed", "error") EXCEPT !.dead = d]]
    BY DEF Reject
  <1>4. ActOK(a, act[a]) /\ act[a] \in ActorState
    BY ActorFacts DEF AInv
  <1>5. q \in Seq(Items) /\ OnceIn(q) /\ act[a].open /\ ToSet(act[a].inbox) = {m} \cup ToSet(q)
    BY <1>1, TakeHead
  <1>6. /\ x \in ActorState /\ x.front = act[a].front /\ x.inbox = q /\ x.cur = act[a].cur
        /\ x.open = act[a].open /\ x.fwd = act[a].fwd /\ x.phase = act[a].phase
    <2> HIDE DEF q
    <2> QED
      BY <1>4, <1>5 DEF ActorState
  <1>7. m \in Msgs => /\ OnlyAt(m, a) /\ msg[m].fate = "queued" /\ RecordOK(msg[m])
                      /\ m \notin ToSet(act[a].front) /\ act[a].cur # m /\ m \notin ToSet(q)
    BY <1>1, HeadFacts
  <1> HIDE DEF q, m, x
  <1>8. ActOK(a, x)
    BY <1>4, <1>5, <1>6 DEF ActOK
  <1>9. CASE m \notin Msgs
    <2>1. SameMsgs(act[a], x)
      BY <1>5, <1>6, <1>9 DEF SameMsgs
    <2> QED
      BY <1>1, <1>2, <1>8, <1>9, <2>1, QuietActorOK, RestFrame
  <1>10. CASE m \in Msgs
    <2>1. PICK d \in BOOLEAN : msg' = [msg EXCEPT ![m] = [Settle(msg[m], "failed", "error") EXCEPT !.dead = d]]
      BY <1>3, <1>10
    <2> DEFINE s == [Settle(msg[m], "failed", "error") EXCEPT !.dead = d]
    <2>2. RecordOK(s) /\ Settle(msg[m], "failed", "error").fate = "failed"
      BY <1>7, <1>10, SettleOK DEF Pending
    <2>3. s.fate = "failed"
      BY <2>2
    <2>4. msg' = [msg EXCEPT ![m] = s]
      BY <2>1
    <2> HIDE DEF s
    <2>5. IsOn(msg', Msgs) /\ msg'[m] = s /\ \A k \in Msgs : k # m => msg'[k] = msg[k]
      BY <1>10, <2>4, ReplaceMsg
    <2>6. IsOn(act', Actors) /\ act'[a] = x /\ OnlyActor(a)
      BY <1>1, ReplaceActor
    <2>7. \A b \in Actors : ActOK(b, act'[b])
      BY <1>8, <2>6, OneActorOK
    <2>8. \A l \in Places : ~HasIn(x, l, m)
      BY <1>6, <1>7, <1>10 DEF HasIn, Places
    <2>9. Leaves(m)
      BY <1>7, <1>10, <2>3, <2>5, <2>6, <2>8, OneLeaves DEF Pending
    <2>10. Fares(m)
      BY <1>7, <1>10, <2>2, <2>5, <2>9 DEF Fares, Pending
    <2>11. ASSUME NEW k \in Msgs, k # m PROVE Fares(k)
      <3>1. \A l \in Places : HasIn(x, l, k) <=> HasIn(act[a], l, k)
        BY <1>5, <1>6, <2>11 DEF HasIn, Places
      <3>2. Keeps(k)
        BY <1>6, <2>5, <2>6, <2>11, <3>1, OneKeeps
      <3> QED
        BY <3>2 DEF Fares
    <2>12. RestOK'
      BY <1>1, RestFrame
    <2> QED
      BY <2>5, <2>6, <2>7, <2>10, <2>11, <2>12, StepOK
  <1> QED
    BY <1>9, <1>10

LEMMA AdmitOK ==
    ASSUME AInv, NEW a \in Actors, Admit(a)
    PROVE  AInv' /\ Honest
  <1> DEFINE q == Tail(act[a].inbox)
             m == Head(act[a].inbox)
             x == [act[a] EXCEPT !.inbox = q, !.cur = m, !.phase = "admitted"]
  <1>1. /\ act[a].phase = "recv" /\ act[a].inbox # <<>> /\ act' = [act EXCEPT ![a] = x]
        /\ UNCHANGED <<cancelled, watchers, stopRx, told>>
    BY DEF Admit
  <1>2. (m \notin Msgs => msg' = msg) /\ (m \in Msgs => msg' = [msg EXCEPT ![m] = [msg[m] EXCEPT !.fate = "current"]])
    BY DEF Admit
  <1>3. ActOK(a, act[a]) /\ act[a] \in ActorState
    BY ActorFacts DEF AInv
  <1>4. act[a].cur = None /\ None \notin Msgs
    BY <1>1, <1>3, AdapterAssumption DEF ActOK, Working
  <1>5. q \in Seq(Items) /\ OnceIn(q) /\ act[a].open /\ ToSet(act[a].inbox) = {m} \cup ToSet(q) /\ m \in Items
    BY <1>1, TakeHead
  <1>6. /\ x \in ActorState /\ x.front = act[a].front /\ x.inbox = q /\ x.cur = m
        /\ x.open = act[a].open /\ x.fwd = act[a].fwd /\ x.phase = "admitted"
    <2> HIDE DEF q, m
    <2> QED
      BY <1>3, <1>5 DEF ActorState, Phases
  <1>7. m \in Msgs => /\ OnlyAt(m, a) /\ msg[m].fate = "queued" /\ RecordOK(msg[m])
                      /\ m \notin ToSet(act[a].front) /\ m \notin ToSet(q)
    BY <1>1, HeadFacts
  <1> HIDE DEF q, m, x
  <1>8. ActOK(a, x)
    BY <1>3, <1>5, <1>6 DEF ActOK, Working
  <1>9. IsOn(act', Actors) /\ act'[a] = x /\ OnlyActor(a)
    BY <1>1, ReplaceActor
  <1>10. \A b \in Actors : ActOK(b, act'[b])
    BY <1>8, <1>9, OneActorOK
  <1>11. ASSUME NEW k \in Msgs, k # m, msg'[k] = msg[k] PROVE Fares(k)
    <2>1. \A l \in Places : HasIn(x, l, k) <=> HasIn(act[a], l, k)
      BY <1>4, <1>5, <1>6, <1>11 DEF HasIn, Places
    <2>2. x.cur # k
      BY <1>6, <1>11
    <2>3. Keeps(k)
      BY <1>9, <1>11, <2>1, <2>2, OneKeeps
    <2> QED
      BY <2>3 DEF Fares
  <1>12. RestOK'
    BY <1>1, RestFrame
  <1>13. CASE m \notin Msgs
    BY <1>2, <1>9, <1>10, <1>11, <1>12, <1>13, StepOK DEF AInv
  <1>14. CASE m \in Msgs
    <2> DEFINE s == [msg[m] EXCEPT !.fate = "current"]
    <2>1. msg' = [msg EXCEPT ![m] = s]
      BY <1>2, <1>14
    <2>2. msg[m] \in MsgState /\ ~msg[m].dead /\ (msg[m].reply = "waiting" => msg[m].chan # "none")
      BY <1>7, <1>14 DEF RecordOK
    <2>3. s \in MsgState /\ s.fate = "current" /\ s.dead = msg[m].dead /\ s.reply = msg[m].reply /\ s.chan = msg[m].chan
      BY <2>2 DEF MsgState
    <2> HIDE DEF s
    <2>4. RecordOK(s)
      BY <2>2, <2>3 DEF RecordOK, Pending
    <2>5. IsOn(msg', Msgs) /\ msg'[m] = s /\ \A k \in Msgs : k # m => msg'[k] = msg[k]
      BY <1>14, <2>1, ReplaceMsg
    <2>6. \A l \in Places : HasIn(x, l, m) <=> l = "hand"
      BY <1>6, <1>7, <1>14 DEF HasIn, Places
    <2>7. GoesTo(m, a, "hand")
      BY <1>6, <1>7, <1>9, <1>14, <2>3, <2>5, <2>6, OneGoesTo DEF FateAt, Places
    <2>8. Fares(m)
      BY <1>7, <1>14, <2>4, <2>5, <2>7 DEF Fares, Pending, Places
    <2> QED
      BY <1>9, <1>10, <1>11, <1>12, <2>5, <2>8, StepOK
  <1> QED
    BY <1>13, <1>14

\* What is known of the message in hand.
LEMMA HandFacts ==
    ASSUME AInv, NEW a \in Actors, act[a].cur \in Msgs
    PROVE  /\ OnlyAt(act[a].cur, a) /\ msg[act[a].cur].fate = FateAt(act[a].phase, "hand")
           /\ act[a].cur \notin ToSet(act[a].front) /\ act[a].cur \notin ToSet(act[a].inbox)
           /\ RecordOK(msg[act[a].cur]) /\ msg[act[a].cur].fate \in Pending
  <1> DEFINE m == act[a].cur
  <1>1. MsgOK(act, msg[m], m)
    BY DEF AInv
  <1>2. HasIn(act[a], "hand", m) /\ "hand" \in Places
    BY DEF HasIn, Places
  <1>3. OnlyAt(m, a) /\ msg[m].fate = FateAt(act[a].phase, "hand") /\ \A l \in Places : HasIn(act[a], l, m) => l = "hand"
    BY <1>1, <1>2, SoleIsOnly
  <1>4. ~HasIn(act[a], "front", m) /\ ~HasIn(act[a], "inbox", m)
    BY <1>3 DEF Places
  <1>5. m \notin ToSet(act[a].front) /\ m \notin ToSet(act[a].inbox)
    BY <1>4 DEF HasIn
  <1>6. RecordOK(msg[m])
    BY <1>1 DEF MsgOK
  <1> QED
    BY <1>3, <1>5, <1>6 DEF FateAt, Pending

\* The loop is done with what it has in hand and goes on as x.
SettleCur(a, f, r) ==
    IF act[a].cur \in Msgs THEN [msg EXCEPT ![act[a].cur] = Settle(msg[act[a].cur], f, r)] ELSE msg

LEMMA LetGoOK ==
    ASSUME AInv, NEW a \in Actors, NEW x \in ActorState, act' = [act EXCEPT ![a] = x],
           x.front = act[a].front, x.inbox = act[a].inbox, x.cur = None, x.open = act[a].open, x.fwd = act[a].fwd,
           x.phase # "unborn",
           NEW f \in {"handled", "failed"}, NEW r \in {"ok", "error", "closed"}, msg' = SettleCur(a, f, r), RestOK'
    PROVE  AInv' /\ Honest
  <1> DEFINE m == act[a].cur
  <1>1. ActOK(a, act[a])
    BY DEF AInv
  <1>2. ActOK(a, x)
    BY <1>1 DEF ActOK
  <1>3. IsOn(act', Actors) /\ act'[a] = x /\ OnlyActor(a)
    BY ReplaceActor
  <1>4. \A b \in Actors : ActOK(b, act'[b])
    BY <1>2, <1>3, OneActorOK
  <1>5. m \in Msgs => /\ OnlyAt(m, a) /\ m \notin ToSet(act[a].front) /\ m \notin ToSet(act[a].inbox)
                      /\ RecordOK(msg[m]) /\ msg[m].fate \in Pending
    BY HandFacts
  <1>6. None \notin Msgs
    BY AdapterAssumption
  <1>7. ASSUME NEW k \in Msgs, k # m, msg'[k] = msg[k] PROVE Fares(k)
    <2>1. \A l \in Places : HasIn(x, l, k) <=> HasIn(act[a], l, k)
      BY <1>6, <1>7 DEF HasIn, Places
    <2>2. x.cur # k
      BY <1>6
    <2>3. Keeps(k)
      BY <1>3, <1>7, <2>1, <2>2, OneKeeps
    <2> QED
      BY <2>3 DEF Fares
  <1>8. CASE m \notin Msgs
    <2>1. msg' = msg
      BY <1>8 DEF SettleCur
    <2> QED
      BY <1>3, <1>4, <1>7, <1>8, <2>1, StepOK DEF AInv
  <1>9. CASE m \in Msgs
    <2> DEFINE s == Settle(msg[m], f, r)
    <2>1. msg' = [msg EXCEPT ![m] = s]
      BY <1>9 DEF SettleCur
    <2>2. RecordOK(s) /\ s.fate = f
      BY <1>5, <1>9, SettleOK
    <2> HIDE DEF s, m
    <2>3. IsOn(msg', Msgs) /\ msg'[m] = s /\ \A k \in Msgs : k # m => msg'[k] = msg[k]
      BY <1>9, <2>1, ReplaceMsg
    <2>4. \A l \in Places : ~HasIn(x, l, m)
      BY <1>5, <1>6, <1>9 DEF HasIn, Places
    <2>5. Leaves(m)
      BY <1>3, <1>5, <1>9, <2>2, <2>3, <2>4, OneLeaves DEF Pending
    <2>6. Fares(m)
      BY <1>5, <1>9, <2>2, <2>3, <2>5 DEF Fares
    <2> QED
      BY <1>3, <1>4, <1>7, <2>3, <2>6, StepOK
  <1> QED
    BY <1>8, <1>9

LEMMA DoneOK ==
    ASSUME AInv, NEW a \in Actors, NEW f \in {"handled", "failed"}, NEW r \in {"ok", "error", "closed"},
           NEW p \in {"recv", "exiting"}, Done(a, f, r, p)
    PROVE  AInv' /\ Honest
  <1> DEFINE x == [act[a] EXCEPT !.cur = None, !.phase = p]
  <1>1. act' = [act EXCEPT ![a] = x] /\ UNCHANGED <<cancelled, watchers, stopRx, told>>
    BY DEF Done
  <1>2. msg' = SettleCur(a, f, r)
    BY DEF Done, SettleCur
  <1>3. act[a] \in ActorState /\ None \in Items
    BY ActorFacts
  <1>4. /\ x \in ActorState /\ x.front = act[a].front /\ x.inbox = act[a].inbox /\ x.cur = None
        /\ x.open = act[a].open /\ x.fwd = act[a].fwd /\ x.phase # "unborn"
    BY <1>3 DEF ActorState, Phases
  <1> HIDE DEF x
  <1> QED
    BY <1>1, <1>2, <1>4, LetGoOK, RestFrame

LEMMA PanicStopsOK ==
    ASSUME AInv, NEW a \in Actors, NEW p \in {"recv", "exiting"}, NEW h \in BOOLEAN, PanicStops(a, p, h)
    PROVE  AInv' /\ Honest
  <1> DEFINE x == [act[a] EXCEPT !.cur = None, !.phase = p, !.halt = h, !.reason = "failed"]
  <1>1. act' = [act EXCEPT ![a] = x] /\ UNCHANGED <<cancelled, watchers, stopRx, told>>
    BY DEF PanicStops
  <1>2. msg' = SettleCur(a, "failed", "closed")
    BY DEF PanicStops, SettleCur
  <1>3. act[a] \in ActorState /\ None \in Items
    BY ActorFacts
  <1>4. /\ x \in ActorState /\ x.front = act[a].front /\ x.inbox = act[a].inbox /\ x.cur = None
        /\ x.open = act[a].open /\ x.fwd = act[a].fwd /\ x.phase # "unborn"
    BY <1>3 DEF ActorState, Phases
  <1> HIDE DEF x
  <1> QED
    BY <1>1, <1>2, <1>4, LetGoOK, RestFrame

LEMMA EnterOK ==
    ASSUME AInv, NEW a \in Actors, act[a].phase = "admitted", act' = [act EXCEPT ![a].phase = "handling"],
           msg' = IF act[a].cur \in Msgs THEN [msg EXCEPT ![act[a].cur].fate = "entered"] ELSE msg, RestOK'
    PROVE  AInv' /\ Honest
  <1> DEFINE m == act[a].cur
             x == [act[a] EXCEPT !.phase = "handling"]
  <1>1. act' = [act EXCEPT ![a] = x]
    OBVIOUS
  <1>2. ActOK(a, act[a]) /\ act[a] \in ActorState /\ None \notin Msgs
    BY ActorFacts DEF AInv
  <1>3. /\ x \in ActorState /\ x.front = act[a].front /\ x.inbox = act[a].inbox /\ x.cur = m
        /\ x.open = act[a].open /\ x.fwd = act[a].fwd /\ x.phase = "handling"
    BY <1>2 DEF ActorState, Phases
  <1>4. (m \notin Msgs => msg' = msg) /\ (m \in Msgs => msg' = [msg EXCEPT ![m] = [msg[m] EXCEPT !.fate = "entered"]])
    OBVIOUS
  <1>5. m \in Msgs => /\ OnlyAt(m, a) /\ m \notin ToSet(act[a].front) /\ m \notin ToSet(act[a].inbox)
                      /\ RecordOK(msg[m]) /\ msg[m].fate \in Pending
    BY HandFacts
  <1> HIDE DEF m, x
  <1>6. ActOK(a, x)
    BY <1>2, <1>3 DEF ActOK, Working
  <1>7. IsOn(act', Actors) /\ act'[a] = x /\ OnlyActor(a)
    BY <1>1, ReplaceActor
  <1>8. \A b \in Actors : ActOK(b, act'[b])
    BY <1>6, <1>7, OneActorOK
  <1>9. ASSUME NEW k \in Msgs, k # m, msg'[k] = msg[k] PROVE Fares(k)
    <2>1. \A l \in Places : HasIn(x, l, k) <=> HasIn(act[a], l, k)
      BY <1>3 DEF HasIn, Places, m
    <2>2. x.cur # k
      BY <1>3, <1>9
    <2>3. Keeps(k)
      BY <1>7, <1>9, <2>1, <2>2, OneKeeps
    <2> QED
      BY <2>3 DEF Fares
  <1>10. CASE m \notin Msgs
    BY <1>4, <1>7, <1>8, <1>9, <1>10, StepOK DEF AInv
  <1>11. CASE m \in Msgs
    <2> DEFINE s == [msg[m] EXCEPT !.fate = "entered"]
    <2>1. msg' = [msg EXCEPT ![m] = s]
      BY <1>4, <1>11
    <2>2. msg[m] \in MsgState /\ ~msg[m].dead /\ (msg[m].reply = "waiting" => msg[m].chan # "none")
      BY <1>5, <1>11 DEF RecordOK, Pending
    <2>3. s \in MsgState /\ s.fate = "entered" /\ s.dead = msg[m].dead /\ s.reply = msg[m].reply /\ s.chan = msg[m].chan
      BY <2>2 DEF MsgState
    <2> HIDE DEF s
    <2>4. RecordOK(s)
      BY <2>2, <2>3 DEF RecordOK, Pending
    <2>5. IsOn(msg', Msgs) /\ msg'[m] = s /\ \A k \in Msgs : k # m => msg'[k] = msg[k]
      BY <1>11, <2>1, ReplaceMsg
    <2>6. \A l \in Places : HasIn(x, l, m) <=> l = "hand"
      BY <1>3, <1>5, <1>11 DEF HasIn, Places
    <2>7. GoesTo(m, a, "hand")
      BY <1>3, <1>5, <1>7, <1>11, <2>3, <2>5, <2>6, OneGoesTo DEF FateAt, Places
    <2>8. Fares(m)
      BY <1>5, <1>11, <2>4, <2>5, <2>7 DEF Fares, Places
    <2> QED
      BY <1>7, <1>8, <1>9, <2>5, <2>8, StepOK
  <1> QED
    BY <1>10, <1>11

LEMMA DispatchOK ==
    ASSUME AInv, NEW a \in Actors, Dispatch(a)
    PROVE  AInv' /\ Honest
  <1>1. CASE act[a].cur \in cancelled
    <2>1. Done(a, "failed", "error", "recv")
      BY <1>1 DEF Dispatch
    <2> QED
      BY <2>1, DoneOK
  <1>2. CASE act[a].cur \notin cancelled
    <2>1. /\ act[a].phase = "admitted" /\ act' = [act EXCEPT ![a].phase = "handling"]
          /\ msg' = IF act[a].cur \in Msgs THEN [msg EXCEPT ![act[a].cur].fate = "entered"] ELSE msg
          /\ UNCHANGED <<cancelled, watchers, stopRx, told>>
      BY <1>2 DEF Dispatch
    <2>2. RestOK'
      BY <2>1, RestFrame
    <2> QED
      BY <2>1, <2>2, EnterOK
  <1> QED
    BY <1>1, <1>2

LEMMA DropAllAt ==
    ASSUME NEW M, NEW k \in Msgs
    PROVE  DropAll(M)[k] = IF k \in M THEN Settle(msg[k], "failed", "closed") ELSE msg[k]
  BY DEF DropAll

\* M are the messages in queue k of an actor s, and x is s without that queue.
Queued(s, k, M) == \A m \in Msgs : m \in M <=> HasIn(s, k, m)
Without(x, s, k) ==
    /\ \A m \in Msgs, l \in Places : HasIn(x, l, m) <=> l # k /\ HasIn(s, l, m)
    /\ x.cur # None => x.phase = s.phase

\* A queue of a is dropped with all the messages M in it.
LEMMA DropOK ==
    ASSUME AInv, NEW a \in Actors, NEW x, act' = [act EXCEPT ![a] = x], ActOK(a, x),
           NEW k \in {"front", "inbox"}, NEW M, Queued(act[a], k, M), Without(x, act[a], k),
           msg' = DropAll(M), RestOK'
    PROVE  AInv' /\ Honest
  <1> USE DEF Queued, Without
  <1>1. IsOn(act', Actors) /\ act'[a] = x /\ OnlyActor(a)
    BY ReplaceActor
  <1>2. \A b \in Actors : ActOK(b, act'[b])
    BY <1>1, OneActorOK
  <1>3. IsOn(msg', Msgs)
    BY DEF IsOn, DropAll
  <1>4. \A m \in Msgs : msg'[m] = IF m \in M THEN Settle(msg[m], "failed", "closed") ELSE msg[m]
    BY DropAllAt
  <1>5. ASSUME NEW m \in Msgs PROVE Fares(m)
    <2>1. CASE m \notin M
      <3>1. \A l \in Places : HasIn(x, l, m) <=> HasIn(act[a], l, m)
        BY <2>1
      <3>2. x.cur = m => x.phase = act[a].phase
        BY AdapterAssumption
      <3>3. Keeps(m)
        BY <1>1, <1>4, <2>1, <3>1, <3>2, OneKeeps
      <3> QED
        BY <3>3 DEF Fares
    <2>2. CASE m \in M
      <3>1. k \in Places /\ k # "hand"
        BY DEF Places
      <3>2. HasIn(act[a], k, m) /\ MsgOK(act, msg[m], m)
        BY <2>2 DEF AInv
      <3>3. OnlyAt(m, a) /\ msg[m].fate = FateAt(act[a].phase, k) /\ \A l \in Places : HasIn(act[a], l, m) => l = k
        BY <3>1, <3>2, SoleIsOnly
      <3>4. msg[m].fate = "queued" /\ RecordOK(msg[m])
        BY <3>1, <3>2, <3>3 DEF FateAt, MsgOK
      <3>5. RecordOK(Settle(msg[m], "failed", "closed")) /\ Settle(msg[m], "failed", "closed").fate = "failed"
        BY <3>4, SettleOK DEF Pending
      <3>6. \A l \in Places : ~HasIn(x, l, m)
        BY <3>3
      <3>7. msg'[m] = Settle(msg[m], "failed", "closed")
        BY <1>4, <2>2
      <3>8. Leaves(m)
        BY <1>1, <3>3, <3>5, <3>6, <3>7, OneLeaves DEF Pending
      <3> QED
        BY <3>4, <3>5, <3>7, <3>8 DEF Fares, Pending
    <2> QED
      BY <2>1, <2>2
  <1> QED
    BY <1>1, <1>2, <1>3, <1>5, StepOK

\* The inbox is closed and dropped, in whatever phase the actor is then.
LEMMA ClearInboxOK ==
    ASSUME AInv, NEW a \in Actors, NEW x \in ActorState, act' = [act EXCEPT ![a] = x],
           x.front = act[a].front, x.inbox = <<>>, x.cur = act[a].cur, x.fwd = act[a].fwd,
           act[a].phase \in Working => x.phase = act[a].phase, x.phase # "unborn",
           msg' = DropAll(ToSet(act[a].inbox) \cap Msgs), RestOK'
    PROVE  AInv' /\ Honest
  <1>1. ActOK(a, act[a])
    BY DEF AInv
  <1>2. ActOK(a, x)
    BY <1>1, EmptyQueue DEF ActOK
  <1>3. \A m \in Msgs : m \in ToSet(act[a].inbox) \cap Msgs <=> HasIn(act[a], "inbox", m)
    BY DEF HasIn
  <1>4. \A m \in Msgs, l \in Places : HasIn(x, l, m) <=> l # "inbox" /\ HasIn(act[a], l, m)
    BY EmptyQueue DEF HasIn, Places
  <1>5. x.cur # None => x.phase = act[a].phase
    BY <1>1 DEF ActOK
  <1> DEFINE M == ToSet(act[a].inbox) \cap Msgs
  <1>6. msg' = DropAll(M) /\ Queued(act[a], "inbox", M)
    BY <1>3 DEF Queued
  <1>7. Without(x, act[a], "inbox")
    BY <1>4, <1>5 DEF Without
  <1> HIDE DEF M
  <1> QED
    BY <1>2, <1>6, <1>7, DropOK

LEMMA StartFailsOK ==
    ASSUME AInv, NEW a \in Actors, StartFails(a)
    PROVE  AInv' /\ Honest
  <1> DEFINE e == <<>>
             x == [act[a] EXCEPT !.phase = "crashed", !.open = FALSE, !.inbox = e, !.signal = "dropped"]
  <1>1. /\ act[a].phase = "starting" /\ act' = [act EXCEPT ![a] = x] /\ msg' = DropAll(ToSet(act[a].inbox) \cap Msgs)
        /\ UNCHANGED <<cancelled, watchers, stopRx, told>>
    BY DEF StartFails
  <1>2. act[a] \in ActorState
    BY ActorFacts
  <1>3. /\ x \in ActorState /\ x.front = act[a].front /\ x.inbox = <<>> /\ x.cur = act[a].cur /\ x.fwd = act[a].fwd
        /\ x.phase # "unborn" /\ act[a].phase \notin Working
    <2>1. e \in Seq(Items)
      OBVIOUS
    <2> HIDE DEF e
    <2>2. /\ x \in ActorState /\ x.front = act[a].front /\ x.inbox = e /\ x.cur = act[a].cur /\ x.fwd = act[a].fwd
          /\ x.phase # "unborn" /\ act[a].phase \notin Working
      BY <1>1, <1>2, <2>1 DEF ActorState, Phases, Working
    <2> QED
      BY <2>2 DEF e
  <1>4. RestOK'
    BY <1>1, RestFrame
  <1> HIDE DEF x
  <1> QED
    BY <1>1, <1>3, <1>4, ClearInboxOK

LEMMA CloseInboxOK ==
    ASSUME AInv, NEW a \in Actors, CloseInbox(a)
    PROVE  AInv' /\ Honest
  <1> DEFINE e == <<>>
             x == [act[a] EXCEPT !.open = FALSE, !.inbox = e]
  <1>1. /\ act[a].phase \in {"exiting", "ended"} /\ act' = [act EXCEPT ![a] = x]
        /\ msg' = DropAll(ToSet(act[a].inbox) \cap Msgs) /\ UNCHANGED <<cancelled, watchers, stopRx, told>>
    BY DEF CloseInbox
  <1>2. act[a] \in ActorState
    BY ActorFacts
  <1>3. /\ x \in ActorState /\ x.front = act[a].front /\ x.inbox = <<>> /\ x.cur = act[a].cur /\ x.fwd = act[a].fwd
        /\ x.phase = act[a].phase /\ x.phase # "unborn"
    <2>1. e \in Seq(Items)
      OBVIOUS
    <2> HIDE DEF e
    <2>2. /\ x \in ActorState /\ x.front = act[a].front /\ x.inbox = e /\ x.cur = act[a].cur /\ x.fwd = act[a].fwd
          /\ x.phase = act[a].phase /\ x.phase # "unborn"
      BY <1>1, <1>2, <2>1 DEF ActorState
    <2> QED
      BY <2>2 DEF e
  <1>4. RestOK'
    BY <1>1, RestFrame
  <1> HIDE DEF x
  <1> QED
    BY <1>1, <1>3, <1>4, ClearInboxOK

\* The forwarder moves a message from the front channel to the inbox ...
LEMMA ForwardMoves ==
    ASSUME AInv, NEW a \in Actors, Forward(a), act[a].open
    PROVE  AInv' /\ Honest
  <1> DEFINE m == Head(act[a].front)
             f == Tail(act[a].front)
             q == Append(act[a].inbox, m)
             x == [act[a] EXCEPT !.front = f, !.inbox = q]
  <1>1. /\ act[a].fwd = "up" /\ act[a].front # <<>> /\ act' = [act EXCEPT ![a] = x] /\ msg' = msg
        /\ UNCHANGED <<cancelled, watchers, stopRx, told>>
    BY DEF Forward
  <1>2. /\ ActOK(a, act[a]) /\ act[a] \in ActorState /\ act[a].front \in Seq(Msgs) /\ act[a].inbox \in Seq(Items)
        /\ Msgs \subseteq Items
    BY ActorFacts DEF AInv
  <1>3. /\ m \in Msgs /\ f \in Seq(Msgs) /\ OnceIn(f) /\ m \in ToSet(act[a].front) /\ m \notin ToSet(f)
        /\ ToSet(act[a].front) = {m} \cup ToSet(f)
    BY <1>1, <1>2, OnceTail, TailSet DEF ActOK
  <1>4. Capacity[a] > 0 => Len(f) <= Capacity[a]
    <2>1. Len(f) = Len(act[a].front) - 1 /\ Len(act[a].front) \in Nat
      BY <1>1, <1>2
    <2> QED
      BY <1>2, <2>1, AdapterAssumption DEF ActOK
  <1> HIDE DEF m, f
  <1>5. MsgOK(act, msg[m], m) /\ HasIn(act[a], "front", m) /\ "front" \in Places
    BY <1>3 DEF AInv, HasIn, Places
  <1>6. OnlyAt(m, a) /\ msg[m].fate = FateAt(act[a].phase, "front") /\ \A l \in Places : HasIn(act[a], l, m) => l = "front"
    BY <1>3, <1>5, SoleIsOnly
  <1>7. ~HasIn(act[a], "inbox", m) /\ ~HasIn(act[a], "hand", m)
    BY <1>6 DEF Places
  <1>8. m \notin ToSet(act[a].inbox) /\ act[a].cur # m
    BY <1>7 DEF HasIn
  <1>9. q \in Seq(Items) /\ OnceIn(q) /\ ToSet(q) = ToSet(act[a].inbox) \cup {m}
    BY <1>2, <1>3, <1>8, OnceAppend, AppendSet DEF ActOK
  <1> HIDE DEF q
  <1>10. /\ x \in ActorState /\ x.front = f /\ x.inbox = q /\ x.cur = act[a].cur
         /\ x.open = act[a].open /\ x.fwd = act[a].fwd /\ x.phase = act[a].phase
    BY <1>2, <1>3, <1>9 DEF ActorState
  <1> HIDE DEF x
  <1>11. ActOK(a, x)
    BY <1>1, <1>2, <1>3, <1>4, <1>9, <1>10 DEF ActOK
  <1>12. IsOn(act', Actors) /\ act'[a] = x /\ OnlyActor(a)
    BY <1>1, ReplaceActor
  <1>13. \A b \in Actors : ActOK(b, act'[b])
    BY <1>11, <1>12, OneActorOK
  <1>14. \A l \in Places : HasIn(x, l, m) <=> l = "inbox"
    BY <1>3, <1>8, <1>9, <1>10 DEF HasIn, Places
  <1>15. msg'[m].fate = "queued" /\ RecordOK(msg'[m]) /\ msg[m].fate = "queued"
    BY <1>1, <1>5, <1>6 DEF FateAt, MsgOK
  <1>16. GoesTo(m, a, "inbox")
    BY <1>3, <1>6, <1>12, <1>14, <1>15, OneGoesTo DEF FateAt, Places
  <1>17. Fares(m)
    BY <1>15, <1>16 DEF Fares, Pending, Places
  <1>18. ASSUME NEW k \in Msgs, k # m PROVE Fares(k)
    <2>1. \A l \in Places : HasIn(x, l, k) <=> HasIn(act[a], l, k)
      BY <1>3, <1>9, <1>10, <1>18 DEF HasIn, Places
    <2>2. Keeps(k)
      BY <1>1, <1>10, <1>12, <2>1, OneKeeps
    <2> QED
      BY <2>2 DEF Fares
  <1>19. IsOn(msg', Msgs) /\ RestOK'
    BY <1>1, RestFrame DEF AInv
  <1> QED
    BY <1>3, <1>12, <1>13, <1>17, <1>18, <1>19, StepOK

\* ... or ends, and drops the channel.
LEMMA ForwardEnds ==
    ASSUME AInv, NEW a \in Actors, Forward(a), ~act[a].open
    PROVE  AInv' /\ Honest
  <1> DEFINE e == <<>>
             x == [act[a] EXCEPT !.front = e, !.fwd = "down"]
  <1>1. /\ act[a].fwd = "up" /\ act' = [act EXCEPT ![a] = x] /\ msg' = DropAll(ToSet(act[a].front))
        /\ UNCHANGED <<cancelled, watchers, stopRx, told>>
    BY DEF Forward
  <1>2. ActOK(a, act[a]) /\ act[a] \in ActorState
    BY ActorFacts DEF AInv
  <1>3. /\ x \in ActorState /\ x.front = <<>> /\ x.inbox = act[a].inbox /\ x.cur = act[a].cur /\ x.fwd = "down"
        /\ x.open = act[a].open /\ x.phase = act[a].phase
    <2>1. e \in Seq(Msgs)
      OBVIOUS
    <2> HIDE DEF e
    <2>2. /\ x \in ActorState /\ x.front = e /\ x.inbox = act[a].inbox /\ x.cur = act[a].cur /\ x.fwd = "down"
          /\ x.open = act[a].open /\ x.phase = act[a].phase
      BY <1>2, <2>1 DEF ActorState
    <2> QED
      BY <2>2 DEF e
  <1> HIDE DEF x
  <1>4. act[a].phase # "unborn"
    BY <1>1, <1>2 DEF ActOK
  <1>5. Capacity[a] > 0 => Len(<<>>) <= Capacity[a]
    BY AdapterAssumption
  <1>6. ActOK(a, x)
    BY <1>2, <1>3, <1>4, <1>5, EmptyQueue DEF ActOK
  <1>7. \A m \in Msgs : m \in ToSet(act[a].front) <=> HasIn(act[a], "front", m)
    BY DEF HasIn
  <1>8. \A m \in Msgs, l \in Places : HasIn(x, l, m) <=> l # "front" /\ HasIn(act[a], l, m)
    BY <1>3, EmptyQueue DEF HasIn, Places
  <1>9. Queued(act[a], "front", ToSet(act[a].front)) /\ Without(x, act[a], "front")
    BY <1>3, <1>7, <1>8 DEF Queued, Without
  <1> QED
    BY <1>1, <1>6, <1>9, DropOK, RestFrame

\* The watchers of a are notified.
LEMMA StopHookOK ==
    ASSUME AInv, NEW a \in Actors, NEW p \in BOOLEAN, NEW why \in {"none", "failed"}, StopHook(a, p, why)
    PROVE  AInv' /\ Honest
  <1> DEFINE tell == {w \in Actors : watchers[a][w] > 0 /\ act[w].open}
             note(w) == IF w \in tell THEN [act[w] EXCEPT !.inbox = Notified(act[w].inbox, watchers[a][w], a)] ELSE act[w]
             sig == IF p THEN "err" ELSE "ok"
             last == [note(a) EXCEPT !.phase = "ended", !.reason = why, !.signal = sig]
  <1>1. /\ act[a].phase = "exiting" /\ msg' = msg
        /\ act' = [w \in Actors |-> IF w # a THEN note(w) ELSE last]
    BY DEF StopHook, Notified
  <1>2. IsOn(act', Actors) /\ act'[a] = last /\ \A w \in Actors : w # a => act'[w] = note(w)
    BY <1>1 DEF IsOn
  <1>3. a \in Items \ Msgs /\ None \notin Msgs
    BY AdapterAssumption DEF Items
  <1>4. ASSUME NEW w \in Actors
        PROVE  ActOK(w, note(w)) /\ SameMsgs(act[w], note(w)) /\ note(w).phase = act[w].phase /\ note(w).cur = act[w].cur
    <2>1. ActOK(w, act[w]) /\ act[w] \in ActorState /\ act[w].inbox \in Seq(Items)
      BY ActorFacts DEF AInv
    <2>2. CASE w \notin tell
      BY <2>1, <2>2 DEF SameMsgs
    <2>3. CASE w \in tell
      <3> DEFINE q == Notified(act[w].inbox, watchers[a][w], a)
                 x == [act[w] EXCEPT !.inbox = q]
      <3>1. watchers[a][w] \in Nat /\ act[w].open
        BY <2>3 DEF AInv, RestOK
      <3>2. OnceIn(act[w].inbox)
        BY <2>1 DEF ActOK
      <3>3. q \in Seq(Items) /\ OnceIn(q) /\ \A m \in Msgs : m \in ToSet(q) <=> m \in ToSet(act[w].inbox)
        BY <1>3, <2>1, <3>1, <3>2, NotifiedQueue
      <3>4. note(w) = x
        BY <2>3
      <3> HIDE DEF q, note
      <3>5. /\ x \in ActorState /\ x.front = act[w].front /\ x.inbox = q /\ x.cur = act[w].cur
            /\ x.open = act[w].open /\ x.fwd = act[w].fwd /\ x.phase = act[w].phase
        BY <2>1, <3>3 DEF ActorState
      <3> HIDE DEF x
      <3>6. ActOK(w, x)
        BY <2>1, <3>1, <3>3, <3>5 DEF ActOK
      <3>7. SameMsgs(act[w], x)
        BY <3>3, <3>5 DEF SameMsgs
      <3> QED
        BY <3>4, <3>5, <3>6, <3>7
    <2> QED
      BY <2>2, <2>3
  <1>5. act[a].cur = None
    BY <1>1 DEF AInv, ActOK, Working
  <1>6. ActOK(a, last) /\ SameMsgs(act[a], last)
    <2> DEFINE n == note(a)
    <2>1. ActOK(a, n) /\ SameMsgs(act[a], n) /\ n.phase = act[a].phase /\ n.cur = act[a].cur
      BY <1>4
    <2> HIDE DEF n, note
    <2> DEFINE y == [n EXCEPT !.phase = "ended", !.reason = why, !.signal = sig]
    <2>2. n \in ActorState /\ sig \in {"err", "ok"}
      BY <2>1 DEF ActOK
    <2> HIDE DEF sig
    <2>3. /\ y \in ActorState /\ y.front = n.front /\ y.inbox = n.inbox /\ y.cur = n.cur
          /\ y.open = n.open /\ y.fwd = n.fwd /\ y.phase = "ended"
      BY <2>2 DEF ActorState, Phases
    <2>4. last = y
      BY DEF n, sig
    <2> HIDE DEF y, last
    <2>5. ActOK(a, y)
      BY <1>5, <2>1, <2>3 DEF ActOK
    <2>6. SameMsgs(act[a], y)
      BY <1>5, <2>1, <2>3 DEF SameMsgs
    <2> QED
      BY <2>4, <2>5, <2>6
  <1>7. \A w \in Actors : ActOK(w, act'[w]) /\ SameMsgs(act[w], act'[w])
    <2> HIDE DEF last, note
    <2> QED
      BY <1>2, <1>4, <1>6
  <1>8. ASSUME NEW m \in Msgs PROVE Fares(m)
    <2> HIDE DEF last, note
    <2>1. \A b \in Actors, k \in Places : HasIn(act'[b], k, m) <=> HasIn(act[b], k, m)
      BY <1>7 DEF HasIn, SameMsgs, Places
    <2>2. \A b \in Actors : act'[b].cur = m => act'[b].phase = act[b].phase
      BY <1>3, <1>7 DEF SameMsgs
    <2>3. Keeps(m)
      BY <1>1, <2>1, <2>2 DEF Keeps
    <2> QED
      BY <2>3 DEF Fares
  <1>9. RestOK'
    <2>1. /\ watchers' = [t \in Actors |-> IF t = a THEN NoEntries ELSE [watchers[t] EXCEPT ![a] = 0]]
          /\ told' = told \cup {<<w, a, why>> : w \in tell} /\ UNCHANGED <<cancelled, stopRx>>
      BY DEF StopHook
    <2>2. watchers \in [Actors -> [Actors -> Nat]] /\ told \subseteq Actors \X Actors \X {"none", "failed"}
      BY DEF AInv, RestOK
    <2>3. watchers' \in [Actors -> [Actors -> Nat]]
      BY <2>1, <2>2 DEF NoEntries
    <2>4. told' \subseteq Actors \X Actors \X {"none", "failed"}
      BY <2>1, <2>2
    <2> QED
      BY <2>1, <2>3, <2>4 DEF AInv, RestOK
  <1>10. IsOn(msg', Msgs)
    BY <1>1 DEF AInv
  <1> QED
    BY <1>2, <1>7, <1>8, <1>9, <1>10, StepOK

(***************************************************************************)
(* The steps the three runtimes are made of.                               *)
(***************************************************************************)

\* Steps of the runtime's maps and of the users' tokens.
MapStep ==
    \/ \E m \in Msgs : CancelToken(m)
    \/ \E w, t \in Actors : WatchEntry(w, t) \/ UnwatchEntries(w, t)
    \/ \E a \in Actors : TakeReceivers({a}) \/ AwaitReturns(a)
    \/ TakeReceivers(Actors) \/ DropFinished \/ UNCHANGED avars

\* Steps that change actors and messages.
SendStep ==
    \E a \in Actors, m \in Msgs, mode \in SendModes : SendDispatch(a, m, mode) \/ Intercepted(a, m, mode)
FlagStep(a) == RactorSpawnFails(a) \/ RactorStop(a) \/ KameoStop(a) \/ CoerceStop(a) \/ Started(a)
DoneStep(a) ==
    \/ Abort(a) \/ Complete(a) \/ PanicResumes(a) \/ KameoAborted(a)
    \/ \E p \in {"recv", "exiting"}, h \in BOOLEAN : PanicStops(a, p, h)
LoopStep(a) ==
    \/ \E o \in Strategies \cup {None}, p \in {"recv", "starting"} : Begin(a, o, p)
    \/ FlagStep(a) \/ StartFails(a) \/ Reject(a) \/ Admit(a) \/ Dispatch(a) \/ DoneStep(a)
    \/ RactorLeaves(a) \/ CoerceLeaves(a) \/ CloseInbox(a) \/ Forward(a)
    \/ \E p \in BOOLEAN, why \in {"none", "failed"} : StopHook(a, p, why)

LEMMA StepCases ==
    ASSUME AInv, [Next]_avars
    PROVE  MapStep \/ SendStep \/ \E a \in Actors : LoopStep(a)
  <1>1. \A a \in Actors : act[a].halt \in BOOLEAN /\ act[a].reason \in {"none", "failed"}
    BY DEF AInv, ActOK, ActorState
  <1>2. {"tell", "ask", "expand", "reduce", "transform"} = SendModes
    BY DEF SendModes
  <1>3. CASE UNCHANGED avars
    BY <1>3 DEF MapStep
  <1>4. ASSUME NEW a \in Actors, RactorActorStep(a) PROVE LoopStep(a)
    <2>1. CASE RactorReceive(a) \/ RactorDispatch(a) \/ RactorComplete(a) \/ RactorLeaves(a)
      BY <2>1 DEF RactorReceive, RactorDispatch, RactorComplete, LoopStep, DoneStep
    <2>2. CASE RactorOnError(a)
      BY <2>2 DEF RactorOnError, LoopStep, DoneStep
    <2>3. CASE RactorPostStop(a)
      <3>1. PICK p \in BOOLEAN : StopHook(a, p, IF p THEN "failed" ELSE act[a].reason)
        BY <2>3 DEF RactorPostStop
      <3>2. PICK why \in {"none", "failed"} : why = IF p THEN "failed" ELSE act[a].reason
        BY <1>1
      <3> QED
        BY <3>1, <3>2 DEF LoopStep
    <2> QED
      BY <1>4, <2>1, <2>2, <2>3 DEF RactorActorStep
  <1>5. ASSUME NEW a \in Actors, KameoActorStep(a) PROVE LoopStep(a)
    <2>1. CASE KameoOnStart(a) \/ KameoReceive(a) \/ KameoDispatch(a) \/ KameoComplete(a) \/ KameoAborted(a)
      BY <2>1 DEF KameoOnStart, KameoReceive, KameoDispatch, KameoComplete, LoopStep, DoneStep, FlagStep
    <2>2. CASE KameoOnError(a)
      BY <1>1, <2>2 DEF KameoOnError, LoopStep, DoneStep
    <2>3. CASE KameoOnStop(a)
      BY <1>1, <2>3 DEF KameoOnStop, LoopStep
    <2> QED
      BY <1>5, <2>1, <2>2, <2>3 DEF KameoActorStep
  <1>6. ASSUME NEW a \in Actors, CoerceActorStep(a) PROVE LoopStep(a)
    <2>1. CASE CoerceStarted(a) \/ CoerceReceive(a) \/ CoerceDispatch(a) \/ CoerceComplete(a) \/ CoerceLeaves(a)
      BY <2>1 DEF CoerceStarted, CoerceReceive, CoerceDispatch, CoerceComplete, LoopStep, DoneStep, FlagStep
    <2>2. CASE CoerceOnError(a)
      BY <1>1, <2>2 DEF CoerceOnError, LoopStep, DoneStep
    <2>3. CASE CoerceStopped(a)
      BY <1>1, <2>3 DEF CoerceStopped, LoopStep
    <2> QED
      BY <1>6, <2>1, <2>2, <2>3 DEF CoerceActorStep
  <1>7. ASSUME NEW a \in Actors, ActorStep(a) \/ ForwarderStep(a) PROVE LoopStep(a)
    BY <1>4, <1>5, <1>6, <1>7 DEF ActorStep, ForwarderStep, RactorForward, KameoForward, CoerceForward, LoopStep
  <1>8. ASSUME NEW a \in Actors, NEW o \in Strategies \cup {None}, RactorSpawn(a, o) \/ KameoSpawn(a, o) \/ CoerceSpawn(a, o)
        PROVE  LoopStep(a)
    BY <1>8 DEF RactorSpawn, KameoSpawn, CoerceSpawn, LoopStep
  <1>9. ASSUME NEW a \in Actors, RactorSpawnFails(a) \/ RactorStop(a) \/ KameoStop(a) \/ CoerceStop(a) PROVE LoopStep(a)
    BY <1>9 DEF LoopStep, FlagStep
  <1>10. ASSUME NEW a \in Actors, RactorAwaitStop(a) \/ KameoAwaitStop(a) \/ CoerceAwaitStop(a) PROVE MapStep
    BY <1>10 DEF RactorAwaitStop, KameoAwaitStop, CoerceAwaitStop, MapStep
  <1>11. ASSUME NEW a \in Actors, NEW m \in Msgs,
                \/ RactorTell(a, m) \/ RactorAsk(a, m) \/ RactorExpand(a, m) \/ RactorReduce(a, m) \/ RactorTransform(a, m)
                \/ KameoTell(a, m) \/ KameoAsk(a, m) \/ KameoExpand(a, m) \/ KameoReduce(a, m) \/ KameoTransform(a, m)
                \/ CoerceTell(a, m) \/ CoerceAsk(a, m) \/ CoerceExpand(a, m) \/ CoerceReduce(a, m) \/ CoerceTransform(a, m)
         PROVE  SendStep
    <2>1. \E mode \in {"tell", "ask", "expand", "reduce", "transform"} : SendDispatch(a, m, mode) \/ Intercepted(a, m, mode)
      BY <1>11 DEF RactorTell, RactorAsk, RactorExpand, RactorReduce, RactorTransform, RactorSendDispatch,
                   KameoTell, KameoAsk, KameoExpand, KameoReduce, KameoTransform, KameoSendDispatch,
                   CoerceTell, CoerceAsk, CoerceExpand, CoerceReduce, CoerceTransform, CoerceSendDispatch
    <2> QED
      BY <1>2, <2>1 DEF SendStep
  <1>12. ASSUME NEW w \in Actors, NEW t \in Actors,
                \/ RactorWatch(w, t) \/ RactorUnwatch(w, t) \/ KameoWatch(w, t) \/ KameoUnwatch(w, t)
                \/ CoerceWatch(w, t) \/ CoerceUnwatch(w, t)
         PROVE  MapStep
    BY <1>12 DEF RactorWatch, RactorUnwatch, KameoWatch, KameoUnwatch, CoerceWatch, CoerceUnwatch, MapStep
  <1>13. ASSUME \/ RactorAwaitAll \/ RactorCleanupFinished \/ KameoAwaitAll \/ KameoCleanupFinished
                \/ CoerceAwaitAll \/ CoerceCleanupFinished
         PROVE  MapStep
    BY <1>13 DEF RactorAwaitAll, RactorCleanupFinished, KameoAwaitAll, KameoCleanupFinished,
                 CoerceAwaitAll, CoerceCleanupFinished, MapStep
  <1>14. CASE RactorUserStep
    BY <1>8, <1>9, <1>10, <1>11, <1>12, <1>13, <1>14 DEF RactorUserStep
  <1>15. CASE KameoUserStep
    BY <1>8, <1>9, <1>10, <1>11, <1>12, <1>13, <1>15 DEF KameoUserStep
  <1>16. CASE CoerceUserStep
    BY <1>8, <1>9, <1>10, <1>11, <1>12, <1>13, <1>16 DEF CoerceUserStep
  <1>17. ASSUME NEW m \in Msgs, CancelToken(m) PROVE MapStep
    BY <1>17 DEF MapStep
  <1> QED
    BY <1>3, <1>7, <1>14, <1>15, <1>16, <1>17 DEF Next, UserStep

LEMMA StepKeeps ==
    ASSUME AInv, [Next]_avars
    PROVE  AInv' /\ Honest
  <1>1. CASE MapStep
    BY <1>1, MapsOK DEF MapStep
  <1>2. CASE SendStep
    BY <1>2, SendDispatchOK, InterceptedOK DEF SendStep
  <1>3. ASSUME NEW a \in Actors, FlagStep(a) PROVE AInv' /\ Honest
    BY <1>3, SpawnFailsOK, StopFlagOK, CoerceStopOK, StartedOK DEF FlagStep
  <1>4. ASSUME NEW a \in Actors, DoneStep(a) PROVE AInv' /\ Honest
    <2>1. CASE Abort(a) \/ PanicResumes(a)
      <3>1. Done(a, "failed", "closed", "recv")
        BY <2>1 DEF Abort, PanicResumes
      <3> QED
        BY <3>1, DoneOK
    <2>2. CASE Complete(a)
      <3>1. Done(a, "handled", "ok", "recv")
        BY <2>2 DEF Complete
      <3> QED
        BY <3>1, DoneOK
    <2>3. CASE KameoAborted(a)
      <3>1. Done(a, "failed", "closed", "exiting")
        BY <2>3 DEF KameoAborted
      <3> QED
        BY <3>1, DoneOK
    <2> QED
      BY <1>4, <2>1, <2>2, <2>3, PanicStopsOK DEF DoneStep
  <1>5. ASSUME NEW a \in Actors, LoopStep(a) PROVE AInv' /\ Honest
    <2>1. CASE Forward(a)
      BY <2>1, ForwardMoves, ForwardEnds
    <2>2. CASE \E o \in Strategies \cup {None}, p \in {"recv", "starting"} : Begin(a, o, p)
      BY <2>2, BeginOK
    <2>3. CASE \E p \in BOOLEAN, why \in {"none", "failed"} : StopHook(a, p, why)
      BY <2>3, StopHookOK
    <2>4. CASE StartFails(a) \/ Reject(a) \/ Admit(a) \/ Dispatch(a)
      BY <2>4, StartFailsOK, RejectOK, AdmitOK, DispatchOK
    <2>5. CASE RactorLeaves(a) \/ CoerceLeaves(a) \/ CloseInbox(a)
      BY <2>5, RactorLeavesOK, CoerceLeavesOK, CloseInboxOK
    <2> QED
      BY <1>3, <1>4, <1>5, <2>1, <2>2, <2>3, <2>4, <2>5 DEF LoopStep
  <1> QED
    BY <1>1, <1>2, <1>5, StepCases

LEMMA AdapterInvariant == Spec => []AInv
  <1>1. AInv /\ [Next]_avars => AInv'
    BY StepKeeps
  <1> QED
    BY <1>1, InvInit, PTL DEF Spec

\* In each framework runtime a caller whose reply or stream is open and empty waits
\* for something: its message is in a front channel whose forwarder runs, in an open
\* inbox, or in the hands of an actor.  About send_dispatch, the forwarder task and
\* the handlers of the wrapper actors dropping what they hold in any order.
THEOREM CallersStayServed == Spec => []CallerIsServed
  BY AdapterInvariant, InvImplies, PTL

\* A message that the dead letter handler was given is failed and stays so, in each
\* framework runtime: notify_dead_letter and the reject path give a message away
\* only when nobody else has it.
THEOREM DeadLettersStayDead == Spec => DeadLetterIsUndelivered
  <1>1. AInv /\ [Next]_avars => [\A m \in Msgs : msg[m].dead => msg'[m].fate = "failed" /\ msg'[m].dead]_avars
    <2> SUFFICES ASSUME AInv, [Next]_avars, NEW m \in Msgs, msg[m].dead
                 PROVE  msg'[m].fate = "failed" /\ msg'[m].dead
      OBVIOUS
    <2>1. msg[m].fate = "failed"
      BY DEF AInv, MsgOK, RecordOK
    <2>2. Honest
      BY StepKeeps
    <2>3. msg'[m] = msg[m]
      BY <2>1, <2>2 DEF Honest, Pending
    <2> QED
      BY <2>1, <2>3
  <1> QED
    BY <1>1, AdapterInvariant, PTL DEF Spec, DeadLetterIsUndelivered

-----------------------------------------------------------------------------
(***************************************************************************)
(* Every step of a framework runtime is a step of the contract, or none.   *)
(***************************************************************************)

\* The refinement mapping, one actor and one message at a time.
LifeOf(p)    == IF p = "unborn" THEN "none" ELSE IF p \in Down THEN "down" ELSE "up"
BusyOf(p, c) == IF p = "handling" /\ c \in Msgs THEN c ELSE None
StateOf(f)   ==
    CASE f = "new" -> "new"
      [] f \in {"queued", "current"} -> "accepted"
      [] f = "entered" -> "running"
      [] f = "handled" -> "done"
      [] OTHER -> "failed"

\* A step leaves a in phase p with c in hand and the other actors where they are; it
\* gives the messages of M the fate f and leaves the others theirs.
Goes(a, p, c) ==
    /\ act'[a].phase = p /\ act'[a].cur = c
    /\ \A b \in Actors : b # a => act'[b].phase = act[b].phase /\ act'[b].cur = act[b].cur
Fated(M, f) == \A m \in Msgs : msg'[m].fate = IF m \in M THEN f ELSE msg[m].fate
Still(a)    == Goes(a, act[a].phase, act[a].cur)

LEMMA Mapped ==
    /\ IsOn(ContractLife, Actors) /\ IsOn(ContractBusy, Actors) /\ IsOn(ContractState, Msgs)
    /\ \A a \in Actors : ContractLife[a] = LifeOf(act[a].phase) /\ ContractBusy[a] = BusyOf(act[a].phase, act[a].cur)
    /\ \A m \in Msgs : ContractState[m] = StateOf(msg[m].fate)
  <1>1. IsOn(ContractLife, Actors) /\ \A a \in Actors : ContractLife[a] = LifeOf(act[a].phase)
    BY DEF IsOn, ContractLife, LifeOf, Spawned
  <1>2. IsOn(ContractBusy, Actors) /\ \A a \in Actors : ContractBusy[a] = BusyOf(act[a].phase, act[a].cur)
    BY DEF IsOn, ContractBusy, BusyOf
  <1>3. IsOn(ContractState, Msgs) /\ \A m \in Msgs : ContractState[m] = StateOf(msg[m].fate)
    BY DEF IsOn, ContractState, StateOf
  <1> QED
    BY <1>1, <1>2, <1>3

LEMMA MappedNext ==
    /\ IsOn(ContractLife', Actors) /\ IsOn(ContractBusy', Actors) /\ IsOn(ContractState', Msgs)
    /\ \A a \in Actors : ContractLife'[a] = LifeOf(act'[a].phase) /\ ContractBusy'[a] = BusyOf(act'[a].phase, act'[a].cur)
    /\ \A m \in Msgs : ContractState'[m] = StateOf(msg'[m].fate)
  <1>1. IsOn(ContractLife', Actors) /\ \A a \in Actors : ContractLife'[a] = LifeOf(act'[a].phase)
    BY DEF IsOn, ContractLife, LifeOf, Spawned
  <1>2. IsOn(ContractBusy', Actors) /\ \A a \in Actors : ContractBusy'[a] = BusyOf(act'[a].phase, act'[a].cur)
    BY DEF IsOn, ContractBusy, BusyOf
  <1>3. IsOn(ContractState', Msgs) /\ \A m \in Msgs : ContractState'[m] = StateOf(msg'[m].fate)
    BY DEF IsOn, ContractState, StateOf
  <1> QED
    BY <1>1, <1>2, <1>3

LEMMA UpdateAt ==
    ASSUME NEW S, NEW f, NEW g, IsOn(f, S), IsOn(g, S), NEW a \in S, NEW v,
           g[a] = v, \A x \in S : x # a => g[x] = f[x]
    PROVE  g = [f EXCEPT ![a] = v]
  BY DEF IsOn

LEMMA EqualAt ==
    ASSUME NEW S, NEW f, NEW g, IsOn(f, S), IsOn(g, S), \A x \in S : g[x] = f[x]
    PROVE  g = f
  BY DEF IsOn

\* What such a step is for the contract.
LEMMA LifeStep ==
    ASSUME NEW a \in Actors, NEW p, NEW c, Goes(a, p, c)
    PROVE  /\ ContractLife' = [ContractLife EXCEPT ![a] = LifeOf(p)]
           /\ LifeOf(p) = LifeOf(act[a].phase) => ContractLife' = ContractLife
  <1>1. ContractLife'[a] = LifeOf(p) /\ \A x \in Actors : x # a => ContractLife'[x] = ContractLife[x]
    BY Mapped, MappedNext DEF Goes
  <1>2. ContractLife' = [ContractLife EXCEPT ![a] = LifeOf(p)]
    BY <1>1, Mapped, MappedNext, UpdateAt
  <1>3. ASSUME LifeOf(p) = LifeOf(act[a].phase) PROVE ContractLife' = ContractLife
    <2>1. \A x \in Actors : ContractLife'[x] = ContractLife[x]
      BY <1>1, <1>3, Mapped
    <2> QED
      BY <2>1, Mapped, MappedNext, EqualAt
  <1> QED
    BY <1>2, <1>3

LEMMA BusyStep ==
    ASSUME NEW a \in Actors, NEW p, NEW c, Goes(a, p, c)
    PROVE  /\ ContractBusy' = [ContractBusy EXCEPT ![a] = BusyOf(p, c)]
           /\ BusyOf(p, c) = BusyOf(act[a].phase, act[a].cur) => ContractBusy' = ContractBusy
  <1>1. ContractBusy'[a] = BusyOf(p, c) /\ \A x \in Actors : x # a => ContractBusy'[x] = ContractBusy[x]
    BY Mapped, MappedNext DEF Goes
  <1>2. ContractBusy' = [ContractBusy EXCEPT ![a] = BusyOf(p, c)]
    BY <1>1, Mapped, MappedNext, UpdateAt
  <1>3. ASSUME BusyOf(p, c) = BusyOf(act[a].phase, act[a].cur) PROVE ContractBusy' = ContractBusy
    <2>1. \A x \in Actors : ContractBusy'[x] = ContractBusy[x]
      BY <1>1, <1>3, Mapped
    <2> QED
      BY <2>1, Mapped, MappedNext, EqualAt
  <1> QED
    BY <1>2, <1>3

LEMMA StateStep ==
    ASSUME NEW M, NEW f, Fated(M, f)
    PROVE  /\ ContractState' = [k \in Msgs |-> IF k \in M THEN StateOf(f) ELSE ContractState[k]]
           /\ M = {} => ContractState' = ContractState
           /\ \A m \in Msgs : M = {m} => ContractState' = [ContractState EXCEPT ![m] = StateOf(f)]
  <1> DEFINE g == [k \in Msgs |-> IF k \in M THEN StateOf(f) ELSE ContractState[k]]
  <1>1. \A k \in Msgs : ContractState'[k] = IF k \in M THEN StateOf(f) ELSE ContractState[k]
    BY Mapped, MappedNext DEF Fated
  <1>2. IsOn(g, Msgs) /\ \A k \in Msgs : g[k] = IF k \in M THEN StateOf(f) ELSE ContractState[k]
    BY DEF IsOn
  <1> HIDE DEF g
  <1>3. \A k \in Msgs : ContractState'[k] = g[k]
    BY <1>1, <1>2
  <1>4. ContractState' = g
    BY <1>2, <1>3, MappedNext, EqualAt
  <1>5. ASSUME M = {} PROVE ContractState' = ContractState
    <2>1. \A k \in Msgs : ContractState'[k] = ContractState[k]
      BY <1>1, <1>5
    <2> QED
      BY <2>1, Mapped, MappedNext, EqualAt
  <1>6. ASSUME NEW m \in Msgs, M = {m} PROVE ContractState' = [ContractState EXCEPT ![m] = StateOf(f)]
    <2>1. ContractState'[m] = StateOf(f) /\ \A k \in Msgs : k # m => ContractState'[k] = ContractState[k]
      BY <1>1, <1>6
    <2> QED
      BY <2>1, Mapped, MappedNext, UpdateAt
  <1> QED
    BY <1>4, <1>5, <1>6 DEF g

\* The steps of a runtime by what they do to one actor and to messages.
LEMMA QuietStep ==
    ASSUME NEW a \in Actors, NEW p, NEW c, Goes(a, p, c), Fated({}, "failed"),
           LifeOf(p) = LifeOf(act[a].phase), BusyOf(p, c) = BusyOf(act[a].phase, act[a].cur)
    PROVE  UNCHANGED Contract!vars
  BY LifeStep, BusyStep, StateStep DEF Contract!vars

LEMMA SpawnStep ==
    ASSUME NEW a \in Actors, NEW p \in {"recv", "starting"}, NEW c, Goes(a, p, c), Fated({}, "failed"), act[a].phase = "unborn"
    PROVE  Contract!Next
  <1>1. LifeOf(act[a].phase) = "none" /\ LifeOf(p) = "up" /\ BusyOf(p, c) = BusyOf(act[a].phase, act[a].cur)
    BY DEF LifeOf, BusyOf, Down
  <1>2. Contract!Spawn(a)
    BY <1>1, Mapped, LifeStep, BusyStep, StateStep DEF Contract!Spawn
  <1> QED
    BY <1>2 DEF Contract!Next

LEMMA SubmitStep ==
    ASSUME NEW a \in Actors, NEW m \in Msgs, Still(a), msg[m].fate = "new", NEW f \in {"queued", "failed"}, Fated({m}, f)
    PROVE  Contract!Next
  <1>1. ContractLife' = ContractLife /\ ContractBusy' = ContractBusy
    BY LifeStep, BusyStep DEF Still
  <1>2. ContractState[m] = "new" /\ StateOf(f) \in {"accepted", "failed"}
    BY Mapped DEF StateOf
  <1>3. ContractState' = [ContractState EXCEPT ![m] = StateOf(f)]
    BY StateStep
  <1>4. Contract!Submit(m)
    BY <1>1, <1>2, <1>3 DEF Contract!Submit
  <1> QED
    BY <1>4 DEF Contract!Next

LEMMA BeginStep ==
    ASSUME NEW a \in Actors, NEW m \in Msgs, act[a].phase = "admitted", msg[m].fate = "current",
           Goes(a, "handling", m), Fated({m}, "entered")
    PROVE  Contract!Next
  <1>1. /\ LifeOf(act[a].phase) = "up" /\ LifeOf("handling") = "up" /\ BusyOf(act[a].phase, act[a].cur) = None
        /\ BusyOf("handling", m) = m
    BY DEF LifeOf, BusyOf, Down
  <1>2. StateOf(msg[m].fate) = "accepted" /\ StateOf("entered") = "running"
    BY DEF StateOf
  <1>3. ContractLife' = ContractLife /\ ContractBusy' = [ContractBusy EXCEPT ![a] = m]
    BY <1>1, LifeStep, BusyStep
  <1>4. ContractState' = [ContractState EXCEPT ![m] = "running"]
    BY <1>2, StateStep
  <1>5. Contract!Begin(a, m)
    BY <1>1, <1>2, <1>3, <1>4, Mapped DEF Contract!Begin
  <1> QED
    BY <1>5 DEF Contract!Next

LEMMA EndStep ==
    ASSUME NEW a \in Actors, NEW m \in Msgs, act[a].phase = "handling", act[a].cur = m, msg[m].fate = "entered",
           NEW p \in {"recv", "exiting"}, Goes(a, p, None), NEW f \in {"handled", "failed"}, Fated({m}, f),
           f = "handled" => p = "recv"
    PROVE  Contract!Next
  <1>1. /\ LifeOf(act[a].phase) = "up" /\ BusyOf(act[a].phase, act[a].cur) = m /\ BusyOf(p, None) = None
        /\ StateOf(msg[m].fate) = "running"
    BY DEF LifeOf, BusyOf, StateOf, Down
  <1>2. LifeOf(p) = LifeOf(act[a].phase) \/ (LifeOf(p) = "down" /\ f = "failed")
    BY DEF LifeOf, Down
  <1>3. StateOf(f) \in {"done", "failed"} /\ (f = "failed" => StateOf(f) = "failed")
    BY DEF StateOf
  <1>4. ContractBusy' = [ContractBusy EXCEPT ![a] = None] /\ ContractState' = [ContractState EXCEPT ![m] = StateOf(f)]
    BY <1>1, BusyStep, StateStep
  <1>5. \/ ContractLife' = ContractLife
        \/ StateOf(f) = "failed" /\ ContractLife' = [ContractLife EXCEPT ![a] = "down"]
    BY <1>2, <1>3, LifeStep
  <1>6. ContractBusy[a] = m /\ ContractState[m] = "running"
    BY <1>1, Mapped
  <1>7. Contract!End(a, m)
    BY <1>3, <1>4, <1>5, <1>6 DEF Contract!End
  <1> QED
    BY <1>7 DEF Contract!Next

\* The messages of M were accepted.
Waiting(M) == M \in SUBSET Msgs /\ \A m \in M : msg[m].fate \in {"queued", "current"}

LEMMA DownStep ==
    ASSUME NEW a \in Actors, NEW M, Waiting(M), LifeOf(act[a].phase) = "up", BusyOf(act[a].phase, act[a].cur) = None,
           NEW p \in Down, NEW c, Goes(a, p, c), Fated(M, "failed")
    PROVE  Contract!Next
  <1>1. LifeOf(p) = "down" /\ BusyOf(p, c) = None /\ StateOf("failed") = "failed"
    BY DEF LifeOf, BusyOf, Down, StateOf
  <1>2. \A m \in M : ContractState[m] = "accepted"
    BY Mapped DEF Waiting, StateOf
  <1>3. Contract!GoDown(a, M)
    BY <1>1, <1>2, Mapped, LifeStep, BusyStep, StateStep DEF Contract!GoDown
  <1> QED
    BY <1>3 DEF Contract!Next, Waiting

LEMMA FailStep ==
    ASSUME NEW a \in Actors, NEW M, Waiting(M), NEW p, NEW c, Goes(a, p, c), Fated(M, "failed"),
           LifeOf(p) = LifeOf(act[a].phase), BusyOf(p, c) = BusyOf(act[a].phase, act[a].cur)
    PROVE  Contract!Next \/ UNCHANGED Contract!vars
  <1>1. CASE M = {}
    BY <1>1, QuietStep
  <1>2. CASE M # {}
    <2>1. \A m \in M : ContractState[m] = "accepted"
      BY Mapped DEF Waiting, StateOf
    <2>2. StateOf("failed") = "failed"
      BY DEF StateOf
    <2>3. Contract!Fail(M)
      BY <1>2, <2>1, <2>2, LifeStep, BusyStep, StateStep DEF Contract!Fail
    <2> QED
      BY <2>3 DEF Contract!Next, Waiting
  <1> QED
    BY <1>1, <1>2

\* Reading such a step off an action.
LEMMA OneGoes ==
    ASSUME AInv, NEW a \in Actors, NEW x, act' = [act EXCEPT ![a] = x]
    PROVE  Goes(a, x.phase, x.cur)
  <1>1. act'[a] = x /\ OnlyActor(a)
    BY ReplaceActor
  <1> QED
    BY <1>1 DEF Goes, OnlyActor

LEMMA SameGoes ==
    ASSUME NEW a \in Actors, act' = act
    PROVE  Still(a)
  BY DEF Still, Goes

LEMMA SameFate ==
    ASSUME msg' = msg
    PROVE  Fated({}, "failed")
  BY DEF Fated

LEMMA OneFate ==
    ASSUME AInv, NEW m \in Msgs, NEW s, msg' = [msg EXCEPT ![m] = s], NEW f, s.fate = f
    PROVE  Fated({m}, f)
  <1>1. msg'[m] = s /\ \A k \in Msgs : k # m => msg'[k] = msg[k]
    BY ReplaceMsg
  <1> QED
    BY <1>1 DEF Fated

LEMMA DropFate ==
    ASSUME AInv, NEW a \in Actors, NEW k \in {"front", "inbox"}, NEW M \in SUBSET Msgs, Queued(act[a], k, M), msg' = DropAll(M)
    PROVE  Waiting(M) /\ Fated(M, "failed")
  <1>1. ASSUME NEW m \in M PROVE msg[m].fate = "queued" /\ msg'[m].fate = "failed"
    <2>1. m \in Msgs /\ k \in Places /\ k # "hand"
      BY <1>1 DEF Places
    <2>2. HasIn(act[a], k, m)
      BY <1>1, <2>1 DEF Queued
    <2>3. MsgOK(act, msg[m], m)
      BY <2>1 DEF AInv
    <2>4. msg[m].fate = "queued"
      BY <2>1, <2>2, <2>3, SoleIsOnly DEF FateAt
    <2>5. RecordOK(msg[m])
      BY <2>3 DEF MsgOK
    <2>6. Settle(msg[m], "failed", "closed").fate = "failed"
      BY <2>4, <2>5, SettleOK DEF Pending
    <2>7. msg'[m] = Settle(msg[m], "failed", "closed")
      BY <1>1, <2>1, DropAllAt
    <2> QED
      BY <2>4, <2>6, <2>7
  <1>2. ASSUME NEW m \in Msgs, m \notin M PROVE msg'[m].fate = msg[m].fate
    BY <1>2, DropAllAt
  <1> QED
    BY <1>1, <1>2 DEF Waiting, Fated

\* What the loop has in hand is settled.
LEMMA HandFate ==
    ASSUME AInv, NEW a \in Actors, NEW f \in {"handled", "failed"}, NEW r \in {"ok", "error", "closed"}, msg' = SettleCur(a, f, r)
    PROVE  /\ act[a].cur \in Msgs => Fated({act[a].cur}, f) /\ msg[act[a].cur].fate = FateAt(act[a].phase, "hand")
           /\ act[a].cur \notin Msgs => Fated({}, "failed")
  <1> DEFINE m == act[a].cur
  <1>1. m \in Msgs => /\ RecordOK(msg[m]) /\ msg[m].fate \in Pending /\ msg[m].fate = FateAt(act[a].phase, "hand")
    BY HandFacts
  <1>2. (m \notin Msgs => msg' = msg) /\ (m \in Msgs => msg' = [msg EXCEPT ![m] = Settle(msg[m], f, r)])
    BY DEF SettleCur
  <1> HIDE DEF m
  <1>3. CASE m \in Msgs
    <2>1. Settle(msg[m], f, r).fate = f
      BY <1>1, <1>3, SettleOK
    <2>2. Fated({m}, f)
      BY <1>2, <1>3, <2>1, OneFate
    <2> QED
      BY <1>1, <1>3, <2>2 DEF m
  <1>4. CASE m \notin Msgs
    BY <1>2, <1>4, SameFate DEF m
  <1> QED
    BY <1>3, <1>4

\* ... at the end of its handler ...
LEMMA HandlerEnds ==
    ASSUME AInv, NEW a \in Actors, act[a].phase = "handling", NEW p \in {"recv", "exiting"}, Goes(a, p, None),
           NEW f \in {"handled", "failed"}, f = "handled" => p = "recv",
           NEW r \in {"ok", "error", "closed"}, msg' = SettleCur(a, f, r)
    PROVE  Contract!Next \/ UNCHANGED Contract!vars
  <1> DEFINE m == act[a].cur
  <1>1. CASE m \in Msgs
    <2>1. Fated({m}, f) /\ msg[m].fate = "entered"
      BY <1>1, HandFate DEF FateAt
    <2> QED
      BY <1>1, <2>1, EndStep
  <1>2. CASE m \notin Msgs
    <2>1. Fated({}, "failed")
      BY <1>2, HandFate
    <2>2. BusyOf(p, None) = None /\ BusyOf(act[a].phase, act[a].cur) = None /\ LifeOf(act[a].phase) = "up"
      BY <1>2 DEF BusyOf, LifeOf, Down
    <2>3. CASE p = "recv"
      <3>1. LifeOf(p) = "up"
        BY <2>3 DEF LifeOf, Down
      <3> QED
        BY <2>1, <2>2, <3>1, QuietStep
    <2>4. CASE p = "exiting"
      <3>1. p \in Down /\ Waiting({})
        BY <2>4 DEF Down, Waiting
      <3> QED
        BY <2>1, <2>2, <3>1, DownStep
    <2> QED
      BY <2>3, <2>4
  <1> QED
    BY <1>1, <1>2

\* ... or before it is entered.
LEMMA HandlerSkipped ==
    ASSUME AInv, NEW a \in Actors, act[a].phase \in {"recv", "admitted"}, NEW p \in {"recv", "exiting"}, Goes(a, p, None),
           NEW r \in {"ok", "error", "closed"}, msg' = SettleCur(a, "failed", r)
    PROVE  Contract!Next \/ UNCHANGED Contract!vars
  <1> DEFINE m == act[a].cur
             M == IF m \in Msgs THEN {m} ELSE {}
  <1>0. ActOK(a, act[a])
    BY DEF AInv
  <1>1. BusyOf(p, None) = None /\ BusyOf(act[a].phase, act[a].cur) = None /\ LifeOf(act[a].phase) = "up"
    BY DEF BusyOf, LifeOf, Down
  <1>2. Fated(M, "failed")
    BY HandFate
  <1>3. m \in Msgs => msg[m].fate = "current"
    <2>1. m \in Msgs => act[a].phase = "admitted"
      BY ActorFacts DEF Working
    <2> QED
      BY <2>1, HandFate DEF FateAt
  <1>4. Waiting(M)
    BY <1>3 DEF Waiting
  <1> HIDE DEF M
  <1>5. CASE p = "recv"
    <2>1. LifeOf(p) = "up"
      BY <1>5 DEF LifeOf, Down
    <2> QED
      BY <1>1, <1>2, <1>4, <2>1, FailStep
  <1>6. CASE p = "exiting"
    <2>1. p \in Down
      BY <1>6 DEF Down
    <2> QED
      BY <1>1, <1>2, <1>4, <2>1, DownStep
  <1> QED
    BY <1>5, <1>6

LEMMA DoneGoes ==
    ASSUME AInv, NEW a \in Actors, NEW f, NEW r, NEW p, Done(a, f, r, p)
    PROVE  Goes(a, p, None) /\ msg' = SettleCur(a, f, r)
  <1> DEFINE x == [act[a] EXCEPT !.cur = None, !.phase = p]
  <1>1. act' = [act EXCEPT ![a] = x]
    BY DEF Done
  <1>2. msg' = SettleCur(a, f, r)
    BY DEF Done, SettleCur
  <1>3. act[a] \in ActorState
    BY ActorFacts
  <1>4. x.phase = p /\ x.cur = None
    BY <1>3 DEF ActorState
  <1> HIDE DEF x
  <1>5. Goes(a, p, None)
    BY <1>1, <1>4, OneGoes
  <1> QED
    BY <1>2, <1>5

LEMMA ContractDone ==
    ASSUME AInv, NEW a \in Actors, DoneStep(a)
    PROVE  Contract!Next \/ UNCHANGED Contract!vars
  <1>1. CASE Abort(a) \/ PanicResumes(a)
    <2>1. act[a].phase = "handling" /\ Done(a, "failed", "closed", "recv")
      BY <1>1 DEF Abort, PanicResumes
    <2>2. Goes(a, "recv", None) /\ msg' = SettleCur(a, "failed", "closed")
      BY <2>1, DoneGoes
    <2> QED
      BY <2>1, <2>2, HandlerEnds
  <1>2. CASE Complete(a)
    <2>1. act[a].phase = "handling" /\ Done(a, "handled", "ok", "recv")
      BY <1>2 DEF Complete
    <2>2. Goes(a, "recv", None) /\ msg' = SettleCur(a, "handled", "ok")
      BY <2>1, DoneGoes
    <2> QED
      BY <2>1, <2>2, HandlerEnds
  <1>3. CASE KameoAborted(a)
    <2>1. act[a].phase \in {"recv", "admitted", "handling"} /\ Done(a, "failed", "closed", "exiting")
      BY <1>3 DEF KameoAborted
    <2>2. Goes(a, "exiting", None) /\ msg' = SettleCur(a, "failed", "closed")
      BY <2>1, DoneGoes
    <2>3. CASE act[a].phase = "handling"
      BY <2>2, <2>3, HandlerEnds
    <2>4. CASE act[a].phase \in {"recv", "admitted"}
      BY <2>2, <2>4, HandlerSkipped
    <2> QED
      BY <2>1, <2>3, <2>4
  <1>4. ASSUME NEW p \in {"recv", "exiting"}, NEW h \in BOOLEAN, PanicStops(a, p, h)
        PROVE  Contract!Next \/ UNCHANGED Contract!vars
    <2> DEFINE x == [act[a] EXCEPT !.cur = None, !.phase = p, !.halt = h, !.reason = "failed"]
    <2>1. act[a].phase = "handling" /\ act' = [act EXCEPT ![a] = x] /\ msg' = SettleCur(a, "failed", "closed")
      BY <1>4 DEF PanicStops, SettleCur
    <2>2. act[a] \in ActorState
      BY ActorFacts
    <2>3. x.phase = p /\ x.cur = None
      BY <2>2 DEF ActorState
    <2> HIDE DEF x
    <2>4. Goes(a, p, None)
      BY <2>1, <2>3, OneGoes
    <2> QED
      BY <2>1, <2>4, HandlerEnds
  <1> QED
    BY <1>1, <1>2, <1>3, <1>4 DEF DoneStep

LEMMA ContractDispatch ==
    ASSUME AInv, NEW a \in Actors, Dispatch(a)
    PROVE  Contract!Next \/ UNCHANGED Contract!vars
  <1> DEFINE m == act[a].cur
  <1>1. CASE m \in cancelled
    <2>1. act[a].phase = "admitted" /\ Done(a, "failed", "error", "recv")
      BY <1>1 DEF Dispatch
    <2>2. Goes(a, "recv", None) /\ msg' = SettleCur(a, "failed", "error")
      BY <2>1, DoneGoes
    <2> QED
      BY <2>1, <2>2, HandlerSkipped
  <1>2. CASE m \notin cancelled
    <2> DEFINE x == [act[a] EXCEPT !.phase = "handling"]
    <2>1. /\ act[a].phase = "admitted" /\ act' = [act EXCEPT ![a] = x]
          /\ msg' = IF m \in Msgs THEN [msg EXCEPT ![m].fate = "entered"] ELSE msg
      BY <1>2 DEF Dispatch
    <2>2. act[a] \in ActorState
      BY ActorFacts
    <2>3. x.phase = "handling" /\ x.cur = m
      BY <2>2 DEF ActorState
    <2> HIDE DEF x
    <2>4. Goes(a, "handling", m)
      BY <2>1, <2>3, OneGoes
    <2>5. m \in Msgs => msg[m].fate = "current" /\ RecordOK(msg[m])
      BY <2>1, HandFacts DEF FateAt
    <2> HIDE DEF m
    <2>6. CASE m \in Msgs
      <3> DEFINE s == [msg[m] EXCEPT !.fate = "entered"]
      <3>1. msg' = [msg EXCEPT ![m] = s]
        BY <2>1, <2>6
      <3>2. s.fate = "entered"
        BY <2>5, <2>6 DEF RecordOK, MsgState
      <3> HIDE DEF s
      <3>3. Fated({m}, "entered")
        BY <2>6, <3>1, <3>2, OneFate
      <3> QED
        BY <2>1, <2>4, <2>5, <2>6, <3>3, BeginStep
    <2>7. CASE m \notin Msgs
      <3>1. Fated({}, "failed")
        BY <2>1, <2>7, SameFate
      <3>2. /\ LifeOf("handling") = LifeOf(act[a].phase)
            /\ BusyOf("handling", m) = BusyOf(act[a].phase, act[a].cur)
        BY <2>1, <2>7 DEF LifeOf, BusyOf, Down
      <3> QED
        BY <2>4, <3>1, <3>2, QuietStep
    <2> QED
      BY <2>6, <2>7
  <1> QED
    BY <1>1, <1>2

LEMMA ContractReceive ==
    ASSUME AInv, NEW a \in Actors, Reject(a) \/ Admit(a)
    PROVE  Contract!Next \/ UNCHANGED Contract!vars
  <1> DEFINE m == Head(act[a].inbox)
             q == Tail(act[a].inbox)
             M == {m} \cap Msgs
  <1>1. act[a].inbox # <<>> /\ act[a].phase = "recv"
    BY DEF Reject, Admit
  <1>2. act[a] \in ActorState
    BY ActorFacts
  <1>3. m \in Msgs => msg[m].fate = "queued" /\ RecordOK(msg[m])
    BY <1>1, HeadFacts
  <1>4. Waiting(M)
    BY <1>3 DEF Waiting
  <1>5. CASE Reject(a)
    <2> DEFINE x == [act[a] EXCEPT !.inbox = q]
    <2>1. /\ act' = [act EXCEPT ![a] = x]
          /\ m \notin Msgs => msg' = msg
          /\ m \in Msgs => \E d \in BOOLEAN : msg' = [msg EXCEPT ![m] = [Settle(msg[m], "failed", "error") EXCEPT !.dead = d]]
      BY <1>5 DEF Reject
    <2> HIDE DEF q
    <2>2. x.phase = act[a].phase /\ x.cur = act[a].cur
      BY <1>2 DEF ActorState
    <2> HIDE DEF x, m
    <2>3. Goes(a, act[a].phase, act[a].cur)
      BY <2>1, <2>2, OneGoes
    <2>4. Fated(M, "failed")
      <3>1. CASE m \in Msgs
        <4>1. PICK d \in BOOLEAN : msg' = [msg EXCEPT ![m] = [Settle(msg[m], "failed", "error") EXCEPT !.dead = d]]
          BY <2>1, <3>1
        <4> DEFINE s == Settle(msg[m], "failed", "error")
        <4>2. s.fate = "failed" /\ s \in MsgState
          BY <1>3, <3>1, SettleOK DEF Pending, RecordOK
        <4>3. msg' = [msg EXCEPT ![m] = [s EXCEPT !.dead = d]]
          BY <4>1
        <4> HIDE DEF s
        <4>4. [s EXCEPT !.dead = d].fate = "failed"
          BY <4>2 DEF MsgState
        <4>5. Fated({m}, "failed")
          BY <3>1, <4>3, <4>4, OneFate
        <4>6. M = {m}
          BY <3>1
        <4> QED
          BY <4>5, <4>6
      <3>2. CASE m \notin Msgs
        <4>1. M = {}
          BY <3>2
        <4> HIDE DEF M
        <4> QED
          BY <2>1, <3>2, <4>1, SameFate
      <3> QED
        BY <3>1, <3>2
    <2> HIDE DEF M
    <2> QED
      BY <1>4, <2>3, <2>4, FailStep
  <1>6. CASE Admit(a)
    <2> DEFINE x == [act[a] EXCEPT !.inbox = q, !.cur = m, !.phase = "admitted"]
    <2>1. /\ act' = [act EXCEPT ![a] = x]
          /\ m \notin Msgs => msg' = msg
          /\ m \in Msgs => msg' = [msg EXCEPT ![m].fate = "current"]
      BY <1>6 DEF Admit
    <2> HIDE DEF q, m
    <2>2. x.phase = "admitted" /\ x.cur = m
      BY <1>2 DEF ActorState
    <2> HIDE DEF x
    <2>3. Goes(a, "admitted", m)
      BY <2>1, <2>2, OneGoes
    <2>4. \A k \in Msgs : StateOf(msg'[k].fate) = StateOf(msg[k].fate)
      <3>1. CASE m \in Msgs
        <4> DEFINE s == [msg[m] EXCEPT !.fate = "current"]
        <4>1. msg' = [msg EXCEPT ![m] = s]
          BY <2>1, <3>1
        <4>2. s.fate = "current"
          BY <1>3, <3>1 DEF RecordOK, MsgState
        <4> HIDE DEF s
        <4>3. Fated({m}, "current")
          BY <3>1, <4>1, <4>2, OneFate
        <4> QED
          BY <1>3, <3>1, <4>3 DEF Fated, StateOf
      <3>2. CASE m \notin Msgs
        BY <2>1, <3>2
      <3> QED
        BY <3>1, <3>2
    <2>5. ContractState' = ContractState
      <3>1. \A k \in Msgs : ContractState'[k] = ContractState[k]
        BY <2>4, Mapped, MappedNext
      <3> QED
        BY <3>1, Mapped, MappedNext, EqualAt
    <2>6. /\ LifeOf("admitted") = LifeOf(act[a].phase)
          /\ BusyOf("admitted", m) = BusyOf(act[a].phase, act[a].cur)
      BY <1>1 DEF LifeOf, BusyOf, Down
    <2>7. ContractLife' = ContractLife /\ ContractBusy' = ContractBusy
      BY <2>3, <2>6, LifeStep, BusyStep
    <2> QED
      BY <2>5, <2>7 DEF Contract!vars
  <1> QED
    BY <1>5, <1>6

LEMMA ContractStill ==
    ASSUME UNCHANGED <<act, msg>>
    PROVE  UNCHANGED Contract!vars
  <1>1. ContractLife' = ContractLife
    BY DEF ContractLife, Spawned
  <1>2. ContractBusy' = ContractBusy
    BY DEF ContractBusy
  <1>3. ContractState' = ContractState
    BY DEF ContractState
  <1> QED
    BY <1>1, <1>2, <1>3 DEF Contract!vars

\* Sends.
LEMMA EnqueueStill ==
    ASSUME AInv, NEW a \in Actors, NEW m, act' = Enqueue(a, m)
    PROVE  Still(a)
  <1>1. act[a] \in ActorState
    BY ActorFacts
  <1> DEFINE q == Append(act[a].inbox, m)
             f == Append(act[a].front, m)
             x == [act[a] EXCEPT !.inbox = q]
             y == [act[a] EXCEPT !.front = f]
  <1>2. act' = [act EXCEPT ![a] = x] \/ act' = [act EXCEPT ![a] = y]
    BY DEF Enqueue
  <1> HIDE DEF q, f
  <1>3. x.phase = act[a].phase /\ x.cur = act[a].cur /\ y.phase = act[a].phase /\ y.cur = act[a].cur
    BY <1>1 DEF ActorState
  <1> HIDE DEF x, y
  <1>4. CASE act' = [act EXCEPT ![a] = x]
    BY <1>3, <1>4, OneGoes DEF Still
  <1>5. CASE act' = [act EXCEPT ![a] = y]
    BY <1>3, <1>5, OneGoes DEF Still
  <1> QED
    BY <1>2, <1>4, <1>5

LEMMA ContractSend ==
    ASSUME AInv, NEW a \in Actors, NEW m \in Msgs, NEW mode \in SendModes, SendDispatch(a, m, mode) \/ Intercepted(a, m, mode)
    PROVE  Contract!Next
  <1>1. RecordOK(msg[m]) /\ msg[m].fate = "new"
    BY DEF AInv, MsgOK, SendDispatch, Intercepted
  <1>2. CASE SendDispatch(a, m, mode)
    <2> DEFINE s == [msg[m] EXCEPT !.chan = ChannelOf(mode)]
               t == [msg[m] EXCEPT !.fate = "failed", !.dead = mode \in {"tell", "ask"}]
               u == Settle(s, "queued", "waiting")
               v == Settle(s, "failed", "closed")
    <2>1. u.fate = "queued" /\ v.fate = "failed" /\ t.fate = "failed"
      BY <1>1, NewRecord
    <2>2. \/ act' = Enqueue(a, m) /\ msg' = [msg EXCEPT ![m] = u]
          \/ act' = act /\ msg' = [msg EXCEPT ![m] = v]
          \/ act' = act /\ msg' = [msg EXCEPT ![m] = t]
      BY <1>2 DEF SendDispatch
    <2> HIDE DEF s, t, u, v
    <2>3. CASE act' = Enqueue(a, m) /\ msg' = [msg EXCEPT ![m] = u]
      <3>1. Still(a) /\ Fated({m}, "queued")
        BY <2>1, <2>3, EnqueueStill, OneFate
      <3> QED
        BY <1>1, <3>1, SubmitStep
    <2>4. CASE act' = act /\ msg' = [msg EXCEPT ![m] = v]
      <3>1. Still(a) /\ Fated({m}, "failed")
        BY <2>1, <2>4, SameGoes, OneFate
      <3> QED
        BY <1>1, <3>1, SubmitStep
    <2>5. CASE act' = act /\ msg' = [msg EXCEPT ![m] = t]
      <3>1. Still(a) /\ Fated({m}, "failed")
        BY <2>1, <2>5, SameGoes, OneFate
      <3> QED
        BY <1>1, <3>1, SubmitStep
    <2> QED
      BY <2>2, <2>3, <2>4, <2>5
  <1>3. CASE Intercepted(a, m, mode)
    <2>1. act' = act /\ msg' = [msg EXCEPT ![m] = Stopped(msg[m], mode)]
      BY <1>3 DEF Intercepted, Stopped
    <2>2. Stopped(msg[m], mode).fate = "failed"
      BY <1>1, NewRecord
    <2>3. Still(a) /\ Fated({m}, "failed")
      BY <2>1, <2>2, SameGoes, OneFate
    <2> QED
      BY <1>1, <2>3, SubmitStep
  <1> QED
    BY <1>2, <1>3

\* The life of an actor.
LEMMA ContractBegin ==
    ASSUME AInv, NEW a \in Actors, NEW o \in Strategies \cup {None}, NEW p \in {"recv", "starting"}, Begin(a, o, p)
    PROVE  Contract!Next
  <1> DEFINE w == IF Capacity[a] = 0 THEN "none" ELSE "up"
             x == [act[a] EXCEPT !.phase = p, !.open = TRUE, !.overflow = o, !.fwd = w]
  <1>1. act[a].phase = "unborn" /\ act' = [act EXCEPT ![a] = x] /\ msg' = msg
    BY DEF Begin, Spawned
  <1>2. act[a] \in ActorState
    BY ActorFacts
  <1> HIDE DEF w
  <1>3. x.phase = p
    BY <1>2 DEF ActorState
  <1> HIDE DEF x
  <1>4. Goes(a, p, x.cur) /\ Fated({}, "failed")
    BY <1>1, <1>3, OneGoes, SameFate
  <1> QED
    BY <1>1, <1>4, SpawnStep

LEMMA ContractFlag ==
    ASSUME AInv, NEW a \in Actors, FlagStep(a)
    PROVE  UNCHANGED Contract!vars
  <1> DEFINE q == Append(act[a].inbox, None)
             x == [act[a] EXCEPT !.signal = "dropped"]
             y == [act[a] EXCEPT !.halt = TRUE]
             z == [act[a] EXCEPT !.halt = TRUE, !.inbox = q]
             s == [act[a] EXCEPT !.phase = "recv"]
  <1>1. /\ msg' = msg
        /\ \/ act' = [act EXCEPT ![a] = x] \/ act' = [act EXCEPT ![a] = y] \/ act' = [act EXCEPT ![a] = z]
           \/ act[a].phase = "starting" /\ act' = [act EXCEPT ![a] = s]
    BY DEF FlagStep, RactorSpawnFails, RactorStop, KameoStop, CoerceStop, Started
  <1>2. act[a] \in ActorState
    BY ActorFacts
  <1> HIDE DEF q
  <1>3. /\ x.phase = act[a].phase /\ x.cur = act[a].cur /\ y.phase = act[a].phase /\ y.cur = act[a].cur
        /\ z.phase = act[a].phase /\ z.cur = act[a].cur /\ s.phase = "recv" /\ s.cur = act[a].cur
    BY <1>2 DEF ActorState
  <1> HIDE DEF x, y, z, s
  <1>4. \/ Goes(a, act[a].phase, act[a].cur)
        \/ act[a].phase = "starting" /\ Goes(a, "recv", act[a].cur)
    <2>1. CASE act' = [act EXCEPT ![a] = x]
      BY <1>3, <2>1, OneGoes
    <2>2. CASE act' = [act EXCEPT ![a] = y]
      BY <1>3, <2>2, OneGoes
    <2>3. CASE act' = [act EXCEPT ![a] = z]
      BY <1>3, <2>3, OneGoes
    <2>4. CASE act[a].phase = "starting" /\ act' = [act EXCEPT ![a] = s]
      BY <1>3, <2>4, OneGoes
    <2> QED
      BY <1>1, <2>1, <2>2, <2>3, <2>4
  <1>5. Fated({}, "failed")
    BY <1>1, SameFate
  <1>6. CASE Goes(a, act[a].phase, act[a].cur)
    BY <1>5, <1>6, QuietStep
  <1>7. CASE act[a].phase = "starting" /\ Goes(a, "recv", act[a].cur)
    <2>1. LifeOf("recv") = LifeOf(act[a].phase) /\ BusyOf("recv", act[a].cur) = BusyOf(act[a].phase, act[a].cur)
      BY <1>7 DEF LifeOf, BusyOf, Down
    <2> QED
      BY <1>5, <1>7, <2>1, QuietStep
  <1> QED
    BY <1>4, <1>6, <1>7

LEMMA ContractLeaves ==
    ASSUME AInv, NEW a \in Actors, RactorLeaves(a) \/ CoerceLeaves(a)
    PROVE  Contract!Next
  <1> DEFINE q == Tail(act[a].inbox)
             x == [act[a] EXCEPT !.phase = "exiting"]
             y == [act[a] EXCEPT !.inbox = q, !.phase = "exiting"]
  <1>1. act[a].phase = "recv" /\ msg' = msg /\ (act' = [act EXCEPT ![a] = x] \/ act' = [act EXCEPT ![a] = y])
    BY DEF RactorLeaves, CoerceLeaves
  <1>2. act[a] \in ActorState
    BY ActorFacts
  <1> HIDE DEF q
  <1>3. x.phase = "exiting" /\ x.cur = act[a].cur /\ y.phase = "exiting" /\ y.cur = act[a].cur
    BY <1>2 DEF ActorState
  <1> HIDE DEF x, y
  <1>4. Goes(a, "exiting", act[a].cur)
    <2>1. CASE act' = [act EXCEPT ![a] = x]
      BY <1>3, <2>1, OneGoes
    <2>2. CASE act' = [act EXCEPT ![a] = y]
      BY <1>3, <2>2, OneGoes
    <2> QED
      BY <1>1, <2>1, <2>2
  <1>5. Fated({}, "failed") /\ Waiting({}) /\ "exiting" \in Down
    BY <1>1, SameFate DEF Waiting, Down
  <1>6. LifeOf(act[a].phase) = "up" /\ BusyOf(act[a].phase, act[a].cur) = None
    BY <1>1 DEF LifeOf, BusyOf, Down
  <1> QED
    BY <1>4, <1>5, <1>6, DownStep

\* The inbox or the front channel is dropped.
LEMMA InboxDrop ==
    ASSUME AInv, NEW a \in Actors, msg' = DropAll(ToSet(act[a].inbox) \cap Msgs)
    PROVE  Waiting(ToSet(act[a].inbox) \cap Msgs) /\ Fated(ToSet(act[a].inbox) \cap Msgs, "failed")
  <1> DEFINE M == ToSet(act[a].inbox) \cap Msgs
  <1>1. Queued(act[a], "inbox", M) /\ M \in SUBSET Msgs
    BY DEF Queued, HasIn
  <1>2. msg' = DropAll(M)
    OBVIOUS
  <1> HIDE DEF M
  <1>3. Waiting(M) /\ Fated(M, "failed")
    BY <1>1, <1>2, DropFate
  <1> QED
    BY <1>3 DEF M

LEMMA ContractDrop ==
    ASSUME AInv, NEW a \in Actors, StartFails(a) \/ CloseInbox(a)
    PROVE  Contract!Next \/ UNCHANGED Contract!vars
  <1> DEFINE e == <<>>
             x == [act[a] EXCEPT !.phase = "crashed", !.open = FALSE, !.inbox = e, !.signal = "dropped"]
             y == [act[a] EXCEPT !.open = FALSE, !.inbox = e]
             M == ToSet(act[a].inbox) \cap Msgs
  <1>1. /\ msg' = DropAll(M)
        /\ \/ act[a].phase = "starting" /\ act' = [act EXCEPT ![a] = x]
           \/ act' = [act EXCEPT ![a] = y]
    BY DEF StartFails, CloseInbox
  <1>2. act[a] \in ActorState
    BY ActorFacts
  <1>3. Waiting(M) /\ Fated(M, "failed")
    BY <1>1, InboxDrop
  <1> HIDE DEF e, M
  <1>4. x.phase = "crashed" /\ x.cur = act[a].cur /\ y.phase = act[a].phase /\ y.cur = act[a].cur
    BY <1>2 DEF ActorState
  <1> HIDE DEF x, y
  <1>5. CASE act[a].phase = "starting" /\ act' = [act EXCEPT ![a] = x]
    <2>1. Goes(a, "crashed", act[a].cur)
      BY <1>4, <1>5, OneGoes
    <2>2. LifeOf(act[a].phase) = "up" /\ BusyOf(act[a].phase, act[a].cur) = None /\ "crashed" \in Down
      BY <1>5 DEF LifeOf, BusyOf, Down
    <2> QED
      BY <1>3, <2>1, <2>2, DownStep
  <1>6. CASE act' = [act EXCEPT ![a] = y]
    <2>1. Goes(a, act[a].phase, act[a].cur)
      BY <1>4, <1>6, OneGoes
    <2> QED
      BY <1>3, <2>1, FailStep
  <1> QED
    BY <1>1, <1>5, <1>6

LEMMA ContractForward ==
    ASSUME AInv, NEW a \in Actors, Forward(a)
    PROVE  Contract!Next \/ UNCHANGED Contract!vars
  <1> DEFINE e == <<>>
             f == Tail(act[a].front)
             q == Append(act[a].inbox, Head(act[a].front))
             x == [act[a] EXCEPT !.front = f, !.inbox = q]
             y == [act[a] EXCEPT !.front = e, !.fwd = "down"]
             M == ToSet(act[a].front)
  <1>1. \/ act' = [act EXCEPT ![a] = x] /\ msg' = msg
        \/ act' = [act EXCEPT ![a] = y] /\ msg' = DropAll(M)
    BY DEF Forward
  <1>2. act[a] \in ActorState /\ act[a].front \in Seq(Msgs)
    BY ActorFacts
  <1>3. Queued(act[a], "front", M)
    BY DEF Queued, HasIn
  <1>4. M \in SUBSET Msgs
    BY <1>2 DEF ToSet
  <1> HIDE DEF e, f, q, M
  <1>5. x.phase = act[a].phase /\ x.cur = act[a].cur /\ y.phase = act[a].phase /\ y.cur = act[a].cur
    BY <1>2 DEF ActorState
  <1> HIDE DEF x, y
  <1>6. CASE act' = [act EXCEPT ![a] = x] /\ msg' = msg
    <2>1. Goes(a, act[a].phase, act[a].cur) /\ Fated({}, "failed")
      BY <1>5, <1>6, OneGoes, SameFate
    <2> QED
      BY <2>1, QuietStep
  <1>7. CASE act' = [act EXCEPT ![a] = y] /\ msg' = DropAll(M)
    <2>1. Goes(a, act[a].phase, act[a].cur)
      BY <1>5, <1>7, OneGoes
    <2>2. Waiting(M) /\ Fated(M, "failed")
      BY <1>3, <1>4, <1>7, DropFate
    <2> QED
      BY <2>1, <2>2, FailStep
  <1> QED
    BY <1>1, <1>6, <1>7

LEMMA ContractStopHook ==
    ASSUME AInv, NEW a \in Actors, NEW p \in BOOLEAN, NEW why \in {"none", "failed"}, StopHook(a, p, why)
    PROVE  UNCHANGED Contract!vars
  <1> DEFINE tell == {w \in Actors : watchers[a][w] > 0 /\ act[w].open}
             note(w) == IF w \in tell THEN [act[w] EXCEPT !.inbox = Notified(act[w].inbox, watchers[a][w], a)] ELSE act[w]
             sig == IF p THEN "err" ELSE "ok"
             last == [note(a) EXCEPT !.phase = "ended", !.reason = why, !.signal = sig]
  <1>1. /\ act[a].phase = "exiting" /\ msg' = msg
        /\ act' = [w \in Actors |-> IF w # a THEN note(w) ELSE last]
    BY DEF StopHook, Notified
  <1>2. act'[a] = last /\ \A w \in Actors : w # a => act'[w] = note(w)
    BY <1>1
  <1>3. ASSUME NEW w \in Actors
        PROVE  note(w) \in ActorState /\ note(w).phase = act[w].phase /\ note(w).cur = act[w].cur
    <2>1. act[w] \in ActorState /\ act[w].inbox \in Seq(Items) /\ OnceIn(act[w].inbox)
      BY ActorFacts DEF AInv, ActOK
    <2>2. CASE w \notin tell
      BY <2>1, <2>2
    <2>3. CASE w \in tell
      <3> DEFINE q == Notified(act[w].inbox, watchers[a][w], a)
                 x == [act[w] EXCEPT !.inbox = q]
      <3>1. watchers[a][w] \in Nat
        BY DEF AInv, RestOK
      <3>0. a \in Items /\ a \notin Msgs
        BY AdapterAssumption DEF Items
      <3>2. q \in Seq(Items)
        BY <2>1, <3>0, <3>1, NotifiedQueue
      <3>3. note(w) = x
        BY <2>3
      <3> HIDE DEF q, note
      <3>4. x \in ActorState /\ x.phase = act[w].phase /\ x.cur = act[w].cur
        BY <2>1, <3>2 DEF ActorState
      <3> QED
        BY <3>3, <3>4
    <2> QED
      BY <2>2, <2>3
  <1>4. last.phase = "ended" /\ last.cur = act[a].cur
    <2> DEFINE n == note(a)
    <2>1. n \in ActorState /\ n.cur = act[a].cur
      BY <1>3
    <2> HIDE DEF n, note
    <2> DEFINE y == [n EXCEPT !.phase = "ended", !.reason = why, !.signal = sig]
    <2>2. last = y
      BY DEF n
    <2> HIDE DEF sig
    <2>3. y.phase = "ended" /\ y.cur = n.cur
      BY <2>1 DEF ActorState
    <2> QED
      BY <2>1, <2>2, <2>3
  <1> HIDE DEF last, note
  <1>5. Goes(a, "ended", act[a].cur)
    BY <1>2, <1>3, <1>4 DEF Goes
  <1>6. Fated({}, "failed")
    BY <1>1, SameFate
  <1>7. LifeOf("ended") = LifeOf(act[a].phase) /\ BusyOf("ended", act[a].cur) = BusyOf(act[a].phase, act[a].cur)
    BY <1>1 DEF LifeOf, BusyOf, Down
  <1> QED
    BY <1>5, <1>6, <1>7, QuietStep

LEMMA ContractInit ==
    ASSUME Init
    PROVE  Contract!Init
  <1>1. (\A a \in Actors : act[a].phase = "unborn") /\ \A m \in Msgs : msg[m].fate = "new"
    BY DEF Init, AInit
  <1>2. ContractLife = [a \in Actors |-> "none"]
    BY <1>1 DEF ContractLife, Spawned
  <1>3. ContractBusy = [a \in Actors |-> None]
    BY <1>1 DEF ContractBusy
  <1>4. ContractState = [m \in Msgs |-> "new"]
    BY <1>1 DEF ContractState
  <1> QED
    BY <1>2, <1>3, <1>4 DEF Contract!Init

LEMMA ContractLoop ==
    ASSUME AInv, NEW a \in Actors, LoopStep(a)
    PROVE  Contract!Next \/ UNCHANGED Contract!vars
  <1>1. CASE Forward(a)
    BY <1>1, ContractForward
  <1>2. CASE \E o \in Strategies \cup {None}, p \in {"recv", "starting"} : Begin(a, o, p)
    BY <1>2, ContractBegin
  <1>3. CASE \E p \in BOOLEAN, why \in {"none", "failed"} : StopHook(a, p, why)
    BY <1>3, ContractStopHook
  <1>4. CASE StartFails(a) \/ CloseInbox(a)
    BY <1>4, ContractDrop
  <1>5. CASE Reject(a) \/ Admit(a)
    BY <1>5, ContractReceive
  <1>6. CASE Dispatch(a)
    BY <1>6, ContractDispatch
  <1>7. CASE RactorLeaves(a) \/ CoerceLeaves(a)
    BY <1>7, ContractLeaves
  <1>8. CASE FlagStep(a)
    BY <1>8, ContractFlag
  <1>9. CASE DoneStep(a)
    BY <1>9, ContractDone
  <1> QED
    BY <1>1, <1>2, <1>3, <1>4, <1>5, <1>6, <1>7, <1>8, <1>9 DEF LoopStep

\* Each framework runtime implements the safety part of ActorContract, whatever the
\* actors, messages, capacities and strategies are: an actor's life is one way, it
\* works on one message at a time and on none once it is down, and no message is
\* worked on twice or after it failed.  About the wrapper actors, their forwarders
\* and the frameworks' inboxes under every interleaving with the users.
THEOREM AdaptersFollowContract == Spec => Contract!Safety
  <1>1. Init => Contract!Init
    BY ContractInit
  <1>2. AInv /\ [Next]_avars => [Contract!Next]_(Contract!vars)
    <2> SUFFICES ASSUME AInv, [Next]_avars
                 PROVE  Contract!Next \/ UNCHANGED Contract!vars
      OBVIOUS
    <2>1. CASE MapStep
      <3>1. UNCHANGED <<act, msg>>
        BY <2>1 DEF MapStep, CancelToken, WatchEntry, UnwatchEntries, TakeReceivers, AwaitReturns, DropFinished, avars
      <3> QED
        BY <3>1, ContractStill
    <2>2. CASE SendStep
      BY <2>2, ContractSend DEF SendStep
    <2>3. ASSUME NEW a \in Actors, LoopStep(a) PROVE Contract!Next \/ UNCHANGED Contract!vars
      BY <2>3, ContractLoop
    <2> QED
      BY <2>1, <2>2, <2>3, StepCases
  <1> QED
    BY <1>1, <1>2, AdapterInvariant, PTL DEF Spec, Contract!Safety

-----------------------------------------------------------------------------
(***************************************************************************)
(* The control plane.  What its variables hold, and the steps that the     *)
(* three runtimes have in common.                                          *)
(***************************************************************************)

Dues == {"none", "known", "known before start", "unknown", "cancelled", "not found"}
SpawnType == [factories : SUBSET Types, spawned : Seq(Nat)]
WatchType == SUBSET (Targets \X Watchers)
TokenType == [Keys -> Nat \cup {Nil}]
PeerType  == [status : {"none", "connecting", "connected", "disconnected"}, address : Addrs \cup {Nil}]
DirType   == [Peers -> PeerType]

WorkerItem == [op : {"register"}, ty : Types] \cup [op : {"spawn"}, ty : Types, req : Reqs]
WorkerType == [manager : SpawnType, box : Seq(WorkerItem), up : BOOLEAN]

WatchItem  == [op : {"watch", "unwatch"}, t : Targets, w : Watchers] \cup [op : {"terminated"}, t : Targets]
CancelItem == [op : {"token"}, k : Keys, token : Nat] \cup [op : {"complete"}, k : Keys]
              \cup [op : {"cancel"}, k : Keys, req : Reqs]
DirItem    == [op : {"connect"}, p : Peers, address : Addrs \cup {Nil}] \cup [op : {"disconnect"}, p : Peers]
NativeItem == WatchItem \cup CancelItem \cup DirItem

MgrType    == [spawn : SpawnType, watch : WatchType, cancel : TokenType, dir : DirType]
NativeType == [watch : WatchType, cancel : TokenType, dir : DirType]
ReqType    == [out : Outcomes, id : Nat, due : Dues]
News       == {"joined", "left"}
EventsType == [subs : SUBSET Subs, made : SUBSET Subs, pending : SUBSET Subs, peer : Peers \cup {Nil},
               news : News \cup {"none"}, heard : [Subs -> [Peers -> Seq(News)]]]
HistType   == [local : SUBSET Nat, since : SUBSET Types, watch : WatchType, dir : DirType,
               tokens : TokenType, due : Seq(WatchType), told : Seq(WatchType), cancelled : SUBSET Nat]

WorkersOK ==
    /\ started \in BOOLEAN
    /\ started => workers \in [1..Pool -> WorkerType]
    /\ ~started => DOMAIN workers = {}

EventsOK ==
    /\ events \in EventsType
    /\ events.pending \subseteq events.made /\ events.subs \subseteq events.made
    /\ events.pending # {} => events.peer \in Peers /\ events.news \in News

NodeTyped ==
    /\ WorkersOK
    /\ next \in 1..MaxLocal + 1 /\ turn \in Nat /\ moves \in 0..MaxMoves
    /\ mgr \in MgrType /\ native \in NativeType /\ box \in Seq(NativeItem)
    /\ req \in [Reqs -> ReqType]
    /\ EventsOK
    /\ hist \in HistType

\* A step of any of the runtimes, without the name of the runtime.
SpawningStep ==
    \/ StartSystemActors \/ SpawnLocal
    \/ \E ty \in Types : RegisterFactory(ty, TRUE) \/ (runtime = "kameo" /\ RegisterFactory(ty, FALSE))
    \/ \E ty \in Types : HandleSpawnRequest(ty)
    \/ \E r \in Reqs, ty \in Types : RouteSpawn(r, ty)
    \/ \E w \in DOMAIN workers : WorkerRegisters(w) \/ WorkerSpawns(w)
RouteStep ==
    \/ \E r \in Reqs, t \in Targets, w \in Watchers : RouteWatch(r, t, w)
    \/ \E r \in Reqs, k \in Keys : RouteCancel(r, k)
    \/ \E r \in Reqs, p \in Peers, address \in Addrs \cup {Nil} : RoutePeer(r, p, address)
    \/ \E t \in Targets : DirectTerminated(t)
    \/ \E k \in Keys : DirectToken(k)
    \/ \E r \in Reqs : GiveUp(r)
NativeStep == WatchManagerActor \/ CancelManagerActor \/ NodeDirectoryActor
StructStep ==
    \/ \E t \in Targets, w \in Watchers : RemoteWatch(t, w) \/ RemoteUnwatch(t, w)
    \/ \E t \in Targets : NotifyTerminated(t)
    \/ \E k \in Keys : RegisterCancel(k) \/ CancelRequest(k) \/ CompleteRequest(k)
PeerStep ==
    \/ \E p, q \in Peers, address \in Addrs \cup {Nil} : ConnectAfterHandshake(p, q, address)
    \/ \E p \in Peers : DisconnectPeer(p)
    \/ \E s \in Subs : Deliver(s) \/ Subscribe(s) \/ Unsubscribe(s)

LEMMA NodeSteps == NodeNext => SpawningStep \/ RouteStep \/ NativeStep \/ StructStep \/ PeerStep
  <1>1. RactorSystemStep \/ RactorCalls => SpawningStep \/ RouteStep \/ NativeStep \/ StructStep \/ PeerStep
    BY DEF RactorSystemStep, RactorCalls, RactorStartSystemActors, RactorRegisterFactory, RactorHandleSpawnRequest,
           RactorSpawnLocal, RactorSpawnManagerActor, RactorWatchManagerActor, RactorCancelManagerActor,
           RactorNodeDirectoryActor, RactorRoute, RactorRemoteWatch, RactorCancelRequests, RactorConnectPeer,
           RactorDisconnectPeer, RactorEmit, RactorSubscribe, RactorUnsubscribe,
           SpawningStep, RouteStep, NativeStep, StructStep, PeerStep
  <1>2. KameoSystemStep \/ KameoCalls => SpawningStep \/ RouteStep \/ NativeStep \/ StructStep \/ PeerStep
    BY DEF KameoSystemStep, KameoCalls, KameoStartSystemActors, KameoRegisterFactory, KameoHandleSpawnRequest,
           KameoSpawnLocal, KameoSpawnManagerActor, KameoWatchManagerActor, KameoCancelManagerActor,
           KameoNodeDirectoryActor, KameoRoute, KameoRemoteWatch, KameoCancelRequests, KameoConnectPeer,
           KameoDisconnectPeer, KameoEmit, KameoSubscribe, KameoUnsubscribe,
           SpawningStep, RouteStep, NativeStep, StructStep, PeerStep
  <1>3. CoerceSystemStep \/ CoerceCalls => SpawningStep \/ RouteStep \/ NativeStep \/ StructStep \/ PeerStep
    BY DEF CoerceSystemStep, CoerceCalls, CoerceStartSystemActors, CoerceRegisterFactory, CoerceHandleSpawnRequest,
           CoerceSpawnLocal, CoerceSpawnManagerActor, CoerceWatchManagerActor, CoerceCancelManagerActor,
           CoerceNodeDirectoryActor, CoerceRoute, CoerceRemoteWatch, CoerceCancelRequests, CoerceConnectPeer,
           CoerceDisconnectPeer, CoerceEmit, CoerceSubscribe, CoerceUnsubscribe,
           SpawningStep, RouteStep, NativeStep, StructStep, PeerStep
  <1>4. IntegrationStep => RouteStep
    BY DEF IntegrationStep, RouteStep
  <1> QED
    BY <1>1, <1>2, <1>3, <1>4 DEF NodeNext, SystemStep

\* What connecting and disconnecting make of the entry of a peer.
LEMMA ConnectedIs ==
    ASSUME NEW d \in DirType, NEW p \in Peers, NEW address \in Addrs \cup {Nil}
    PROVE  /\ Connected(d, p, address) =
                 [d EXCEPT ![p] = [status |-> "connected", address |-> IF address = Nil THEN d[p].address ELSE address]]
           /\ Connected(d, p, address) \in DirType
  <1> DEFINE a == IF address = Nil THEN d[p].address ELSE address
             e == [status |-> "none", address |-> Nil]
             f == [status |-> "connecting", address |-> a]
             g == [status |-> "connected", address |-> a]
             d1 == [d EXCEPT ![p] = e]
             d2 == [d1 EXCEPT ![p] = f]
  <1>1. a \in Addrs \cup {Nil}
    BY DEF DirType, PeerType
  <1>2. e \in PeerType /\ f \in PeerType /\ g \in PeerType
    BY <1>1 DEF PeerType
  <1>3. f.status = "connecting" /\ [f EXCEPT !.status = "connected"] = g
    OBVIOUS
  <1> HIDE DEF a, e, f, g
  <1>4. d2 = [d EXCEPT ![p] = f] /\ d2[p] = f /\ d2 \in DirType
    BY <1>2 DEF DirType
  <1>5. [d2 EXCEPT ![p].status = "connected"] = [d EXCEPT ![p] = g]
    BY <1>2, <1>3, <1>4 DEF DirType
  <1>6. SetStatus(d2, p, "connected") = [d EXCEPT ![p] = g]
    BY <1>3, <1>4, <1>5 DEF SetStatus
  <1>7. Connected(d, p, address) = SetStatus(d2, p, "connected")
    BY DEF Connected, AddPeer, RemovePeer, a, e, f
  <1>8. [d EXCEPT ![p] = g] \in DirType
    BY <1>2 DEF DirType
  <1> QED
    BY <1>6, <1>7, <1>8 DEF g, a

LEMMA DisconnectedIs ==
    ASSUME NEW d \in DirType, NEW p \in Peers
    PROVE  /\ Disconnected(d, p) =
                 IF d[p].status = "none" THEN d
                 ELSE [d EXCEPT ![p] = [status |-> "disconnected", address |-> d[p].address]]
           /\ Disconnected(d, p) \in DirType
  <1> DEFINE g == [status |-> "disconnected", address |-> d[p].address]
  <1>1. d[p] \in PeerType
    BY DEF DirType
  <1>2. g \in PeerType /\ [d[p] EXCEPT !.status = "disconnected"] = g
    BY <1>1 DEF PeerType
  <1> HIDE DEF g
  <1>3. [d EXCEPT ![p].status = "disconnected"] = [d EXCEPT ![p] = g]
    BY <1>2
  <1>4. [d EXCEPT ![p] = g] \in DirType
    BY <1>2 DEF DirType
  <1> QED
    BY <1>3, <1>4 DEF Disconnected, SetStatus, g

LEMMA WorkerItems ==
    ASSUME NEW s \in Seq(WorkerItem)
    PROVE  /\ \A ty \in Types : Append(s, [op |-> "register", ty |-> ty]) \in Seq(WorkerItem)
           /\ \A ty \in Types, r \in Reqs : Append(s, [op |-> "spawn", ty |-> ty, req |-> r]) \in Seq(WorkerItem)
           /\ s # <<>> => /\ Tail(s) \in Seq(WorkerItem) /\ Head(s).ty \in Types
                          /\ Head(s).op = "spawn" => Head(s).req \in Reqs
  <1>1. \A x \in WorkerItem : Append(s, x) \in Seq(WorkerItem)
    BY AppendProperties
  <1>2. s # <<>> => Tail(s) \in Seq(WorkerItem) /\ Head(s) \in WorkerItem
    BY HeadTailProperties
  <1>3. \A ty \in Types : [op |-> "register", ty |-> ty] \in WorkerItem
    BY DEF WorkerItem
  <1>4. \A ty \in Types, r \in Reqs : [op |-> "spawn", ty |-> ty, req |-> r] \in WorkerItem
    BY DEF WorkerItem
  <1>5. \A x \in WorkerItem : x.ty \in Types /\ (x.op = "spawn" => x.req \in Reqs)
    BY DEF WorkerItem
  <1> QED
    BY <1>1, <1>2, <1>3, <1>4, <1>5

LEMMA NativeItems ==
    ASSUME NEW s \in Seq(NativeItem)
    PROVE  /\ \A x \in NativeItem : Append(s, x) \in Seq(NativeItem)
           /\ s # <<>> => Tail(s) \in Seq(NativeItem) /\ Head(s) \in NativeItem
  BY AppendProperties, HeadTailProperties

LEMMA NativeItemParts ==
    ASSUME NEW x \in NativeItem
    PROVE  /\ x.op \in {"watch", "unwatch"} => x.t \in Targets /\ x.w \in Watchers
           /\ x.op = "terminated" => x.t \in Targets
           /\ x.op = "token" => x.k \in Keys /\ x.token \in Nat
           /\ x.op = "complete" => x.k \in Keys
           /\ x.op = "cancel" => x.k \in Keys /\ x.req \in Reqs
           /\ x.op = "connect" => x.p \in Peers /\ x.address \in Addrs \cup {Nil}
           /\ x.op = "disconnect" => x.p \in Peers
  <1>1. CASE x \in WatchItem
    BY <1>1 DEF WatchItem
  <1>2. CASE x \in CancelItem
    BY <1>2 DEF CancelItem
  <1>3. CASE x \in DirItem
    BY <1>3 DEF DirItem
  <1> QED
    BY <1>1, <1>2, <1>3 DEF NativeItem

LEMMA NativeItemMakers ==
    /\ \A t \in Targets, w \in Watchers : /\ [op |-> "watch", t |-> t, w |-> w] \in NativeItem
                                          /\ [op |-> "unwatch", t |-> t, w |-> w] \in NativeItem
    /\ \A t \in Targets : [op |-> "terminated", t |-> t] \in NativeItem
    /\ \A k \in Keys, n \in Nat : [op |-> "token", k |-> k, token |-> n] \in NativeItem
    /\ \A k \in Keys : [op |-> "complete", k |-> k] \in NativeItem
    /\ \A k \in Keys, r \in Reqs : [op |-> "cancel", k |-> k, req |-> r] \in NativeItem
    /\ \A p \in Peers, address \in Addrs \cup {Nil} : [op |-> "connect", p |-> p, address |-> address] \in NativeItem
    /\ \A p \in Peers : [op |-> "disconnect", p |-> p] \in NativeItem
  BY DEF NativeItem, WatchItem, CancelItem, DirItem

\* What an answer makes of a request.
LEMMA AnsweredType ==
    ASSUME req \in [Reqs -> ReqType], NEW r \in Reqs, NEW out \in Outcomes
    PROVE  /\ Answered(r, out) \in ReqType
           /\ Answered(r, out).id = req[r].id /\ Answered(r, out).due = req[r].due
           /\ Answered(r, out).out = IF req[r].out = "awaiting" THEN out ELSE req[r].out
           /\ \A n \in Nat : /\ [Answered(r, out) EXCEPT !.id = n] \in ReqType
                             /\ [Answered(r, out) EXCEPT !.id = n].id = n
                             /\ [Answered(r, out) EXCEPT !.id = n].due = req[r].due
                             /\ [Answered(r, out) EXCEPT !.id = n].out =
                                   IF req[r].out = "awaiting" THEN out ELSE req[r].out
  <1>1. req[r] \in ReqType
    OBVIOUS
  <1>2. [req[r] EXCEPT !.out = out] \in ReqType /\ [req[r] EXCEPT !.out = out].id = req[r].id
        /\ [req[r] EXCEPT !.out = out].due = req[r].due /\ [req[r] EXCEPT !.out = out].out = out
    BY <1>1 DEF ReqType
  <1>3. /\ Answered(r, out) \in ReqType
        /\ Answered(r, out).id = req[r].id /\ Answered(r, out).due = req[r].due
        /\ Answered(r, out).out = IF req[r].out = "awaiting" THEN out ELSE req[r].out
    BY <1>1, <1>2 DEF Answered
  <1> DEFINE x == Answered(r, out)
  <1> HIDE DEF x
  <1>4. x \in ReqType
    BY <1>3 DEF x
  <1>5. \A n \in Nat : [x EXCEPT !.id = n] \in ReqType /\ [x EXCEPT !.id = n].id = n
                       /\ [x EXCEPT !.id = n].due = x.due /\ [x EXCEPT !.id = n].out = x.out
    BY <1>4 DEF ReqType
  <1> QED
    BY <1>3, <1>5 DEF x

LEMMA NextWorker ==
    ASSUME NodeTyped
    PROVE  (turn % Pool) + 1 \in 1..Pool
  BY SystemNodeAssumption DEF NodeTyped

\* What becomes of a worker.
LEMMA WorkerTypes ==
    ASSUME NEW x \in WorkerType
    PROVE  /\ \A b \in Seq(WorkerItem) : [x EXCEPT !.box = b] \in WorkerType
           /\ \A b \in Seq(WorkerItem), m \in SpawnType : [x EXCEPT !.box = b, !.manager = m] \in WorkerType
           /\ [x EXCEPT !.box = <<>>, !.up = FALSE] \in WorkerType
           /\ x.manager \in SpawnType /\ x.box \in Seq(WorkerItem)
           /\ \A ty \in Types : AddFactory(x.manager, ty) \in SpawnType
           /\ \A n \in Nat : RecordSpawn(x.manager, n) \in SpawnType
  <1>1. x.manager \in SpawnType /\ x.box \in Seq(WorkerItem)
    BY DEF WorkerType
  <1>2. \A s \in Seq(Nat), n \in Nat : Append(s, n) \in Seq(Nat)
    BY AppendProperties
  <1>3. /\ \A ty \in Types : AddFactory(x.manager, ty) \in SpawnType
        /\ \A n \in Nat : RecordSpawn(x.manager, n) \in SpawnType
    BY <1>1, <1>2 DEF AddFactory, RecordSpawn, SpawnType
  <1> DEFINE e == <<>>
  <1>4. e \in Seq(WorkerItem)
    OBVIOUS
  <1> HIDE DEF e
  <1>5. [x EXCEPT !.box = e, !.up = FALSE] \in WorkerType
    BY <1>4 DEF WorkerType
  <1> QED
    BY <1>1, <1>3, <1>5 DEF WorkerType, e

LEMMA SpawnTyped == ASSUME NodeTyped, SpawningStep PROVE NodeTyped'
  <1> USE DEF NodeTyped
  <1>0. MaxLocal \in Nat /\ MaxMoves \in Nat /\ Pool \in Nat \ {0}
    BY SystemNodeAssumption
  <1>1. CASE StartSystemActors
    <2>1. NewWorker \in WorkerType
      <3> DEFINE e == <<>>
      <3>1. e \in Seq(WorkerItem) /\ e \in Seq(Nat)
        OBVIOUS
      <3> HIDE DEF e
      <3>2. [factories |-> {}, spawned |-> e] \in SpawnType
        BY <3>1 DEF SpawnType
      <3> QED
        BY <3>1, <3>2 DEF WorkerType, NewWorker, NewSpawnManager, e
    <2>2. WorkersOK'
      BY <1>1, <2>1 DEF StartSystemActors, WorkersOK
    <2> QED
      BY <1>1, <2>2 DEF StartSystemActors, EventsOK
  <1>2. CASE SpawnLocal
    <2>1. next' \in 1..MaxLocal + 1 /\ next \in Nat
      BY <1>0, <1>2 DEF SpawnLocal
    <2>2. hist' \in HistType
      BY <1>2, <2>1 DEF SpawnLocal, HistType
    <2> QED
      BY <1>2, <2>1, <2>2 DEF SpawnLocal, EventsOK, WorkersOK
  <1>3. ASSUME NEW ty \in Types, NEW tells \in BOOLEAN, RegisterFactory(ty, tells)
        PROVE  NodeTyped'
    <2>1. hist' \in HistType
      BY <1>3 DEF RegisterFactory, HistType
    <2>2. mgr' \in MgrType
      BY <1>3 DEF RegisterFactory, MgrType, AddFactory, SpawnType
    <2>3. moves' \in 0..MaxMoves
      BY <1>0, <1>3 DEF RegisterFactory, Move
    <2>4. started => TellWorkers(ty) \in [1..Pool -> WorkerType]
      BY WorkerItems, WorkerTypes DEF TellWorkers, WorkersOK
    <2>5. WorkersOK'
      BY <1>3, <2>4 DEF RegisterFactory, WorkersOK
    <2> QED
      BY <1>3, <2>1, <2>2, <2>3, <2>5 DEF RegisterFactory, EventsOK
  <1>4. ASSUME NEW ty \in Types, HandleSpawnRequest(ty)
        PROVE  NodeTyped'
    <2>1. next' \in 1..MaxLocal + 1 /\ next \in Nat
      BY <1>0, <1>4 DEF HandleSpawnRequest
    <2>2. \A s \in Seq(Nat) : Append(s, next) \in Seq(Nat)
      BY <2>1, AppendProperties
    <2>3. mgr' \in MgrType
      BY <1>4, <2>2 DEF HandleSpawnRequest, MgrType, RecordSpawn, SpawnType
    <2> QED
      BY <1>4, <2>1, <2>3 DEF HandleSpawnRequest, EventsOK, WorkersOK
  <1>5. ASSUME NEW r \in Reqs, NEW ty \in Types, RouteSpawn(r, ty)
        PROVE  NodeTyped'
    <2> DEFINE w == (turn % Pool) + 1
               due == CASE ty \in hist.since -> "known"
                        [] ty \in mgr.spawn.factories -> "known before start"
                        [] OTHER -> "unknown"
    <2>1. w \in 1..Pool
      BY NextWorker
    <2>2. due \in Dues
      BY DEF Dues
    <2>3. \A out \in {"error", "awaiting"} : [out |-> out, id |-> 0, due |-> due] \in ReqType
      BY <2>2 DEF ReqType, Outcomes
    <2> HIDE DEF w, due
    <2>4. req' \in [Reqs -> ReqType]
      BY <1>5, <2>3 DEF RouteSpawn, due
    <2>5. turn' \in Nat
      <3>1. turn' = turn \/ turn' = turn + 1
        BY <1>5, Zenon DEF RouteSpawn
      <3> QED
        BY <3>1
    <2>6. started => \A x \in Seq(WorkerItem) : [workers EXCEPT ![w].box = x] \in [1..Pool -> WorkerType]
      BY <2>1, WorkerTypes DEF WorkersOK
    <2>7. started => workers[w].box \in Seq(WorkerItem)
      BY <2>1, WorkerTypes DEF WorkersOK
    <2>8. started => [workers EXCEPT ![w].box = Append(workers[w].box, [op |-> "spawn", ty |-> ty, req |-> r])]
                        \in [1..Pool -> WorkerType]
      BY <2>6, <2>7, WorkerItems
    <2>9. WorkersOK'
      BY <1>5, <2>8 DEF RouteSpawn, WorkersOK, w
    <2> QED
      BY <1>5, <2>4, <2>5, <2>9 DEF RouteSpawn, EventsOK
  <1>6. ASSUME NEW w \in DOMAIN workers, WorkerRegisters(w)
        PROVE  NodeTyped'
    <2>1. started /\ workers \in [1..Pool -> WorkerType] /\ w \in 1..Pool
      BY DEF WorkersOK
    <2>2. /\ Tail(workers[w].box) \in Seq(WorkerItem)
          /\ AddFactory(workers[w].manager, Head(workers[w].box).ty) \in SpawnType
      BY <1>6, <2>1, WorkerItems, WorkerTypes DEF WorkerRegisters
    <2>3. workers' = [workers EXCEPT ![w] = [workers[w] EXCEPT !.box = Tail(workers[w].box),
                           !.manager = AddFactory(workers[w].manager, Head(workers[w].box).ty)]]
      BY <1>6, <2>1 DEF WorkerRegisters
    <2>4. workers' \in [1..Pool -> WorkerType]
      BY <2>1, <2>2, <2>3, WorkerTypes
    <2> QED
      BY <1>6, <2>1, <2>4 DEF WorkerRegisters, EventsOK, WorkersOK
  <1>7. ASSUME NEW w \in DOMAIN workers, WorkerSpawns(w)
        PROVE  NodeTyped'
    <2> DEFINE item == Head(workers[w].box)
    <2>1. started /\ workers \in [1..Pool -> WorkerType] /\ w \in 1..Pool
      BY DEF WorkersOK
    <2>2. Tail(workers[w].box) \in Seq(WorkerItem) /\ item.req \in Reqs
      BY <1>7, <2>1, WorkerItems, WorkerTypes DEF WorkerSpawns
    <2>3. next \in Nat
      OBVIOUS
    <2> HIDE DEF item
    <2>4. CASE /\ next <= MaxLocal /\ next' = next + 1
               /\ workers' = [workers EXCEPT ![w].box = Tail(@), ![w].manager = RecordSpawn(@, next)]
               /\ req' = [req EXCEPT ![item.req] = [Answered(item.req, "completed") EXCEPT !.id = next]]
      <3>1. next' \in 1..MaxLocal + 1
        BY <1>0, <2>3, <2>4
      <3>2. workers' = [workers EXCEPT ![w] = [workers[w] EXCEPT !.box = Tail(workers[w].box),
                             !.manager = RecordSpawn(workers[w].manager, next)]]
        BY <2>1, <2>4
      <3>3. workers' \in [1..Pool -> WorkerType]
        BY <2>1, <2>2, <2>3, <3>2, WorkerTypes
      <3>4. [Answered(item.req, "completed") EXCEPT !.id = next] \in ReqType
        BY <2>2, <2>3, AnsweredType DEF Outcomes
      <3>5. req' \in [Reqs -> ReqType]
        BY <2>2, <2>4, <3>4
      <3> QED
        BY <1>7, <2>1, <3>1, <3>3, <3>5 DEF WorkerSpawns, EventsOK, WorkersOK
    <2>5. CASE /\ next' = next
               /\ workers' = [workers EXCEPT ![w].box = Tail(@)]
               /\ req' = [req EXCEPT ![item.req] = Answered(item.req,
                            IF item.ty \in workers[w].manager.factories THEN "bad arguments" ELSE "unknown type")]
      <3>1. workers' = [workers EXCEPT ![w] = [workers[w] EXCEPT !.box = Tail(workers[w].box)]]
        BY <2>1, <2>5
      <3>2. workers' \in [1..Pool -> WorkerType]
        BY <2>1, <2>2, <3>1, WorkerTypes
      <3>3. Answered(item.req, "bad arguments") \in ReqType /\ Answered(item.req, "unknown type") \in ReqType
        BY <2>2, AnsweredType DEF Outcomes
      <3>4. req' \in [Reqs -> ReqType]
        BY <2>2, <2>5, <3>3
      <3> QED
        BY <1>7, <2>1, <2>5, <3>2, <3>4 DEF WorkerSpawns, EventsOK, WorkersOK
    <2>6. CASE /\ next' = next
               /\ workers' = [workers EXCEPT ![w].box = <<>>, ![w].up = FALSE]
               /\ req' = [r \in Reqs |-> IF r \in DroppedReplies(w) THEN Answered(r, "error") ELSE req[r]]
      <3>1. workers' = [workers EXCEPT ![w] = [workers[w] EXCEPT !.box = <<>>, !.up = FALSE]]
        BY <2>1, <2>6
      <3>2. workers' \in [1..Pool -> WorkerType]
        BY <2>1, <2>2, <3>1, WorkerTypes
      <3>3. \A r \in Reqs : Answered(r, "error") \in ReqType
        BY AnsweredType DEF Outcomes
      <3>4. req' \in [Reqs -> ReqType]
        BY <2>2, <2>6, <3>3
      <3> QED
        BY <1>7, <2>1, <2>6, <3>2, <3>4 DEF WorkerSpawns, EventsOK, WorkersOK
    <2> QED
      BY <1>7, <2>4, <2>5, <2>6 DEF WorkerSpawns, item
  <1> QED
    BY <1>1, <1>2, <1>3, <1>4, <1>5, <1>6, <1>7 DEF SpawningStep

LEMMA RouteTyped == ASSUME NodeTyped, RouteStep PROVE NodeTyped'
  <1> USE DEF NodeTyped
  <1>0. MaxMoves \in Nat
    BY SystemNodeAssumption
  <1>a. ASSUME NEW out \in Outcomes, NEW r \in Reqs
        PROVE  [req EXCEPT ![r].out = out] \in [Reqs -> ReqType]
    BY DEF ReqType
  <1>1. ASSUME NEW r \in Reqs, NEW item \in NativeItem, NEW h \in HistType, RouteTell(r, item, h)
        PROVE  NodeTyped'
    <2>1. Append(box, item) \in Seq(NativeItem)
      BY NativeItems
    <2>2. req' \in [Reqs -> ReqType]
      <3>1. req' \in {[req EXCEPT ![r].out = "error"], [req EXCEPT ![r].out = "acknowledged"]}
        BY <1>1 DEF RouteTell
      <3>2. "error" \in Outcomes /\ "acknowledged" \in Outcomes
        BY DEF Outcomes
      <3> QED
        BY <1>a, <3>1, <3>2
    <2>3. box' \in Seq(NativeItem) /\ hist' \in HistType
      BY <1>1, <2>1 DEF RouteTell
    <2> QED
      BY <1>1, <2>2, <2>3 DEF RouteTell, EventsOK, WorkersOK
  <1>2. ASSUME NEW item \in NativeItem, NEW h \in HistType, Direct(item, h)
        PROVE  NodeTyped'
    <2>1. Append(box, item) \in Seq(NativeItem)
      BY NativeItems
    <2>2. moves' \in 0..MaxMoves
      BY <1>0, <1>2 DEF Direct, Move
    <2>3. box' \in Seq(NativeItem) /\ hist' \in HistType
      BY <1>2, <2>1 DEF Direct
    <2> QED
      BY <1>2, <2>2, <2>3 DEF Direct, EventsOK, WorkersOK
  <1>3. ASSUME NEW r \in Reqs, NEW t \in Targets, NEW w \in Watchers, RouteWatch(r, t, w)
        PROVE  NodeTyped'
    <2>1. /\ [hist EXCEPT !.watch = @ \cup {<<t, w>>}] \in HistType
          /\ [hist EXCEPT !.watch = @ \ {<<t, w>>}] \in HistType
      <3>1. hist.watch \in WatchType
        BY DEF HistType
      <3>2. hist.watch \cup {<<t, w>>} \in WatchType /\ hist.watch \ {<<t, w>>} \in WatchType
        BY <3>1 DEF WatchType
      <3> QED
        BY <3>2 DEF HistType
    <2> QED
      BY <1>1, <1>3, <2>1, NativeItemMakers DEF RouteWatch
  <1>4. ASSUME NEW r \in Reqs, NEW p \in Peers, NEW address \in Addrs \cup {Nil}, RoutePeer(r, p, address)
        PROVE  NodeTyped'
    <2>1. hist.dir \in DirType
      BY DEF HistType
    <2>2. [hist EXCEPT !.dir[p] = PromisedEntry(p, address)] \in HistType
      <3>1. PromisedEntry(p, address) \in PeerType
        BY <2>1 DEF PromisedEntry, DirType, PeerType
      <3> QED
        BY <3>1 DEF HistType, DirType
    <2>3. [hist EXCEPT !.dir[p].status = IF @ = "none" THEN @ ELSE "disconnected"] \in HistType
      BY DEF HistType, DirType, PeerType
    <2> QED
      BY <1>1, <1>4, <2>2, <2>3, NativeItemMakers DEF RoutePeer
  <1>5. ASSUME NEW r \in Reqs, NEW k \in Keys, RouteCancel(r, k)
        PROVE  NodeTyped'
    <2>1. Append(box, [op |-> "cancel", k |-> k, req |-> r]) \in Seq(NativeItem)
      BY NativeItems, NativeItemMakers
    <2>2. [hist EXCEPT !.tokens[k] = Nil] \in HistType
      BY DEF HistType, TokenType
    <2>3. box' \in Seq(NativeItem) /\ hist' \in HistType
      BY <1>5, <2>1, <2>2 DEF RouteCancel
    <2>4. [req EXCEPT ![r].out = "error"] \in [Reqs -> ReqType]
      BY <1>a DEF Outcomes
    <2>5. \A d \in Dues : [req EXCEPT ![r].out = "awaiting", ![r].due = d] \in [Reqs -> ReqType]
      BY DEF ReqType, Outcomes
    <2>6. (IF hist.tokens[k] = Nil THEN "not found" ELSE "cancelled") \in Dues
      BY DEF Dues
    <2>7. req' \in [Reqs -> ReqType]
      BY <1>5, <2>4, <2>5, <2>6 DEF RouteCancel
    <2> QED
      BY <1>5, <2>3, <2>7 DEF RouteCancel, EventsOK, WorkersOK
  <1>6. ASSUME NEW t \in Targets, DirectTerminated(t)
        PROVE  NodeTyped'
    <2> DEFINE gone == {s \in hist.watch : s[1] = t}
               left == {s \in hist.watch : s[1] # t}
    <2>1. gone \in WatchType /\ left \in WatchType /\ hist.due \in Seq(WatchType)
      BY DEF HistType, WatchType
    <2>2. Append(hist.due, gone) \in Seq(WatchType)
      BY <2>1, AppendProperties
    <2> HIDE DEF gone, left
    <2>3. [hist EXCEPT !.watch = left, !.due = Append(hist.due, gone)] \in HistType
      BY <2>1, <2>2 DEF HistType
    <2>4. Direct([op |-> "terminated", t |-> t], [hist EXCEPT !.watch = left, !.due = Append(hist.due, gone)])
      BY <1>6 DEF DirectTerminated, gone, left
    <2> QED
      BY <1>2, <2>3, <2>4, NativeItemMakers
  <1>7. ASSUME NEW k \in Keys, DirectToken(k)
        PROVE  NodeTyped'
    <2>1. /\ [hist EXCEPT !.tokens[k] = Nil] \in HistType
          /\ [hist EXCEPT !.tokens[k] = moves] \in HistType
      <3>1. moves \in Nat /\ hist.tokens \in TokenType
        BY <1>0 DEF HistType
      <3>2. [hist.tokens EXCEPT ![k] = Nil] \in TokenType /\ [hist.tokens EXCEPT ![k] = moves] \in TokenType
        BY <3>1 DEF TokenType
      <3> QED
        BY <3>2 DEF HistType
    <2> QED
      BY <1>2, <1>7, <2>1, NativeItemMakers DEF DirectToken
  <1>8. ASSUME NEW r \in Reqs, GiveUp(r)
        PROVE  NodeTyped'
    <2>1. req' \in [Reqs -> ReqType]
      BY <1>8, <1>a DEF GiveUp, Outcomes
    <2> QED
      BY <1>8, <2>1 DEF GiveUp, EventsOK, WorkersOK
  <1> QED
    BY <1>3, <1>4, <1>5, <1>6, <1>7, <1>8 DEF RouteStep

LEMMA NativeTyped == ASSUME NodeTyped, NativeStep PROVE NodeTyped'
  <1> USE DEF NodeTyped
  <1> DEFINE item == Head(box)
  <1>1. box # <<>> => Tail(box) \in Seq(NativeItem) /\ item \in NativeItem
    BY NativeItems
  <1>2. native.watch \in WatchType /\ native.cancel \in TokenType /\ native.dir \in DirType
    BY DEF NativeType
  <1> HIDE DEF item
  <1>3. ASSUME WatchManagerActor
        PROVE  NodeTyped'
    <2>1. box # <<>> /\ box' \in Seq(NativeItem) /\ item.op \in {"watch", "unwatch", "terminated"}
      BY <1>1, <1>3 DEF WatchManagerActor, Handles, item
    <2>2. item.t \in Targets /\ (item.op # "terminated" => item.w \in Watchers)
      BY <1>1, <2>1, NativeItemParts
    <2>3. native' \in NativeType
      <3>1. item.op # "terminated" => /\ SubscribeWatch(native.watch, item.t, item.w) \in WatchType
                                      /\ UnsubscribeWatch(native.watch, item.t, item.w) \in WatchType
        BY <1>2, <2>2 DEF WatchType, SubscribeWatch, UnsubscribeWatch
      <3>2. OnTerminated(native.watch, item.t).left \in WatchType
        BY <1>2 DEF WatchType, OnTerminated
      <3>3. \A x \in WatchType : [native EXCEPT !.watch = x] \in NativeType
        BY DEF NativeType
      <3>4. \/ item.op = "watch" /\ native' = [native EXCEPT !.watch = SubscribeWatch(native.watch, item.t, item.w)]
            \/ item.op = "unwatch" /\ native' = [native EXCEPT !.watch = UnsubscribeWatch(native.watch, item.t, item.w)]
            \/ native' = [native EXCEPT !.watch = OnTerminated(native.watch, item.t).left]
        BY <1>3 DEF WatchManagerActor, Handles, item
      <3> QED
        BY <3>1, <3>2, <3>3, <3>4
    <2>4. hist' \in HistType
      <3> DEFINE n == OnTerminated(native.watch, item.t).notify
      <3>1. n \in WatchType /\ hist.told \in Seq(WatchType)
        BY <1>2 DEF WatchType, OnTerminated, HistType
      <3> HIDE DEF n
      <3>2. Append(hist.told, n) \in Seq(WatchType)
        BY <3>1, AppendProperties
      <3>3. [hist EXCEPT !.told = Append(hist.told, n)] \in HistType
        BY <3>2 DEF HistType
      <3>4. hist' = hist \/ hist' = [hist EXCEPT !.told = Append(hist.told, n)]
        BY <1>3 DEF WatchManagerActor, n, item
      <3> QED
        BY <3>3, <3>4
    <2> QED
      BY <1>3, <2>1, <2>3, <2>4 DEF WatchManagerActor, EventsOK, WorkersOK
  <1>4. ASSUME CancelManagerActor
        PROVE  NodeTyped'
    <2>1. box # <<>> /\ box' \in Seq(NativeItem) /\ item.op \in {"token", "complete", "cancel"}
      BY <1>1, <1>4 DEF CancelManagerActor, Handles, item
    <2>2. item.k \in Keys /\ (item.op = "token" => item.token \in Nat) /\ (item.op = "cancel" => item.req \in Reqs)
      BY <1>1, <2>1, NativeItemParts
    <2> DEFINE done == Cancel(native.cancel, item.k)
    <2>3. /\ done.left \in TokenType /\ done.answer \in {"not found", "cancelled"} /\ done.token \in Nat \cup {Nil}
          /\ RemoveToken(native.cancel, item.k) \in TokenType
      BY <1>2, <2>2 DEF Cancel, RemoveToken, TokenType
    <2>4. item.op = "token" => RegisterToken(native.cancel, item.k, item.token) \in TokenType
      BY <1>2, <2>2 DEF RegisterToken, TokenType
    <2>5. \A x \in TokenType : [native EXCEPT !.cancel = x] \in NativeType
      BY DEF NativeType
    <2>6. \A x \in SUBSET Nat : [hist EXCEPT !.cancelled = @ \cup x] \in HistType
      BY DEF HistType
    <2> HIDE DEF done
    <2>7. \/ /\ item.op = "token"
             /\ native' = [native EXCEPT !.cancel = RegisterToken(native.cancel, item.k, item.token)]
             /\ UNCHANGED <<req, hist>>
          \/ /\ item.op = "complete"
             /\ native' = [native EXCEPT !.cancel = RemoveToken(native.cancel, item.k)]
             /\ UNCHANGED <<req, hist>>
          \/ /\ item.op = "cancel"
             /\ native' = [native EXCEPT !.cancel = done.left]
             /\ req' = [req EXCEPT ![item.req] = Answered(item.req, done.answer)]
             /\ hist' = [hist EXCEPT !.cancelled = @ \cup ({done.token} \ {Nil})]
      BY <1>4 DEF CancelManagerActor, Handles, item, done
    <2>8. native' \in NativeType
      BY <2>3, <2>4, <2>5, <2>7
    <2>9. hist' \in HistType
      <3>1. {done.token} \ {Nil} \in SUBSET Nat
        BY <2>3
      <3>2. [hist EXCEPT !.cancelled = @ \cup ({done.token} \ {Nil})] \in HistType
        BY <2>6, <3>1
      <3> QED
        BY <2>7, <3>2
    <2>10. req' \in [Reqs -> ReqType]
      <3>1. item.op = "cancel" => Answered(item.req, done.answer) \in ReqType
        BY <2>2, <2>3, AnsweredType DEF Outcomes
      <3> QED
        BY <2>2, <2>7, <3>1
    <2> QED
      BY <1>4, <2>1, <2>8, <2>9, <2>10 DEF CancelManagerActor, EventsOK, WorkersOK
  <1>5. ASSUME NodeDirectoryActor
        PROVE  NodeTyped'
    <2>1. box # <<>> /\ box' \in Seq(NativeItem) /\ item.op \in {"connect", "disconnect"}
      BY <1>1, <1>5 DEF NodeDirectoryActor, Handles, item
    <2>2. item.p \in Peers /\ (item.op = "connect" => item.address \in Addrs \cup {Nil})
      BY <1>1, <2>1, NativeItemParts
    <2>3. /\ item.op = "connect" => Connected(native.dir, item.p, item.address) \in DirType
          /\ Disconnected(native.dir, item.p) \in DirType
      BY <1>2, <2>2, ConnectedIs, DisconnectedIs
    <2>4. \A x \in DirType : [native EXCEPT !.dir = x] \in NativeType
      BY DEF NativeType
    <2>5. \/ item.op = "connect" /\ native' = [native EXCEPT !.dir = Connected(native.dir, item.p, item.address)]
          \/ native' = [native EXCEPT !.dir = Disconnected(native.dir, item.p)]
      BY <1>5 DEF NodeDirectoryActor, Handles, item
    <2>6. native' \in NativeType
      BY <2>3, <2>4, <2>5
    <2> QED
      BY <1>5, <2>1, <2>6 DEF NodeDirectoryActor, EventsOK, WorkersOK
  <1> QED
    BY <1>3, <1>4, <1>5 DEF NativeStep

LEMMA StructTyped == ASSUME NodeTyped, StructStep PROVE NodeTyped' /\ mgr'.dir = mgr.dir /\ mgr'.spawn = mgr.spawn
  <1> USE DEF NodeTyped
  <1>0. MaxMoves \in Nat
    BY SystemNodeAssumption
  <1>1. mgr.watch \in WatchType /\ mgr.cancel \in TokenType
    BY DEF MgrType
  <1>2. ASSUME NEW x \in WatchType, StructCall([mgr EXCEPT !.watch = x])
        PROVE  NodeTyped' /\ mgr'.dir = mgr.dir /\ mgr'.spawn = mgr.spawn
    <2>1. moves' \in 0..MaxMoves
      BY <1>0, <1>2 DEF StructCall, Move
    <2>2. mgr' \in MgrType /\ mgr'.dir = mgr.dir /\ mgr'.spawn = mgr.spawn
      BY <1>2 DEF StructCall, MgrType
    <2> QED
      BY <1>2, <2>1, <2>2 DEF StructCall, EventsOK, WorkersOK
  <1>3. ASSUME NEW x \in TokenType, StructCall([mgr EXCEPT !.cancel = x])
        PROVE  NodeTyped' /\ mgr'.dir = mgr.dir /\ mgr'.spawn = mgr.spawn
    <2>1. moves' \in 0..MaxMoves
      BY <1>0, <1>3 DEF StructCall, Move
    <2>2. mgr' \in MgrType /\ mgr'.dir = mgr.dir /\ mgr'.spawn = mgr.spawn
      BY <1>3 DEF StructCall, MgrType
    <2> QED
      BY <1>3, <2>1, <2>2 DEF StructCall, EventsOK, WorkersOK
  <1>4. \A t \in Targets, w \in Watchers : /\ SubscribeWatch(mgr.watch, t, w) \in WatchType
                                           /\ UnsubscribeWatch(mgr.watch, t, w) \in WatchType
    BY <1>1 DEF WatchType, SubscribeWatch, UnsubscribeWatch
  <1>5. \A t \in Targets : OnTerminated(mgr.watch, t).left \in WatchType
    BY <1>1 DEF WatchType, OnTerminated
  <1>6. moves \in Nat
    BY <1>0
  <1>7. \A k \in Keys : /\ RegisterToken(mgr.cancel, k, moves) \in TokenType
                        /\ Cancel(mgr.cancel, k).left \in TokenType
                        /\ RemoveToken(mgr.cancel, k) \in TokenType
    BY <1>1, <1>6 DEF TokenType, RegisterToken, Cancel, RemoveToken
  <1>8. ASSUME NEW t \in Targets, NEW w \in Watchers, RemoteWatch(t, w) \/ RemoteUnwatch(t, w)
        PROVE  NodeTyped' /\ mgr'.dir = mgr.dir /\ mgr'.spawn = mgr.spawn
    BY <1>2, <1>4, <1>8 DEF RemoteWatch, RemoteUnwatch
  <1>9. ASSUME NEW t \in Targets, NotifyTerminated(t)
        PROVE  NodeTyped' /\ mgr'.dir = mgr.dir /\ mgr'.spawn = mgr.spawn
    BY <1>2, <1>5, <1>9 DEF NotifyTerminated
  <1>10. ASSUME NEW k \in Keys, RegisterCancel(k) \/ CancelRequest(k) \/ CompleteRequest(k)
         PROVE  NodeTyped' /\ mgr'.dir = mgr.dir /\ mgr'.spawn = mgr.spawn
    BY <1>3, <1>7, <1>10 DEF RegisterCancel, CancelRequest, CompleteRequest
  <1> QED
    BY <1>8, <1>9, <1>10 DEF StructStep

LEMMA PeerTyped == ASSUME NodeTyped, PeerStep PROVE NodeTyped'
  <1> USE DEF NodeTyped
  <1>0. MaxMoves \in Nat
    BY SystemNodeAssumption
  <1>1. mgr.dir \in DirType /\ \A x \in DirType : [mgr EXCEPT !.dir = x] \in MgrType
    BY DEF MgrType
  <1>2. ASSUME NEW p \in Peers, NEW news \in News
        PROVE  /\ Emit(p, news) \in EventsType
               /\ Emit(p, news).pending \subseteq Emit(p, news).made
               /\ Emit(p, news).subs \subseteq Emit(p, news).made
               /\ Emit(p, news).peer \in Peers /\ Emit(p, news).news \in News
    BY DEF Emit, EventsType, EventsOK
  <1>3. ASSUME NEW p \in Peers, NEW address \in Addrs \cup {Nil}, ConnectPeer(p, address)
        PROVE  NodeTyped'
    <2>1. moves' \in 0..MaxMoves
      BY <1>0, <1>3 DEF ConnectPeer, Move
    <2>2. mgr' \in MgrType
      BY <1>1, <1>3, ConnectedIs DEF ConnectPeer
    <2>3. events' = events \/ events' = Emit(p, "joined")
      BY <1>3 DEF ConnectPeer
    <2>4. EventsOK'
      BY <1>2, <2>3 DEF EventsOK, News
    <2> QED
      BY <1>3, <2>1, <2>2, <2>4 DEF ConnectPeer, WorkersOK
  <1>4. ASSUME NEW p \in Peers, DisconnectPeer(p)
        PROVE  NodeTyped'
    <2>1. moves' \in 0..MaxMoves
      BY <1>0, <1>4 DEF DisconnectPeer, Move
    <2>2. mgr' \in MgrType
      BY <1>1, <1>4, DisconnectedIs DEF DisconnectPeer
    <2>3. events' = events \/ events' = Emit(p, "left")
      BY <1>4 DEF DisconnectPeer
    <2>4. EventsOK'
      BY <1>2, <2>3 DEF EventsOK, News
    <2> QED
      BY <1>4, <2>1, <2>2, <2>4 DEF DisconnectPeer, WorkersOK
  <1>5. ASSUME NEW s \in Subs, Deliver(s)
        PROVE  NodeTyped'
    <2>1. events.peer \in Peers /\ events.news \in News /\ events.heard \in [Subs -> [Peers -> Seq(News)]]
      BY <1>5 DEF Deliver, EventsOK, EventsType
    <2> DEFINE q == Append(events.heard[s][events.peer], events.news)
               h == [events.heard EXCEPT ![s][events.peer] = q]
    <2>2. q \in Seq(News)
      BY <2>1, AppendProperties
    <2> HIDE DEF q
    <2>3. h \in [Subs -> [Peers -> Seq(News)]]
      BY <2>1, <2>2
    <2>4. events' = [events EXCEPT !.pending = events.pending \ {s}, !.heard = h]
      BY <1>5 DEF Deliver, q
    <2> HIDE DEF h
    <2>5. EventsOK'
      BY <2>3, <2>4 DEF EventsOK, EventsType
    <2> QED
      BY <1>5, <2>5 DEF Deliver, WorkersOK
  <1>6. ASSUME NEW s \in Subs, Subscribe(s) \/ Unsubscribe(s)
        PROVE  NodeTyped'
    <2>1. EventsOK'
      <3>1. CASE Subscribe(s)
        <4>1. events' = [events EXCEPT !.subs = events.subs \cup {s}, !.made = events.made \cup {s}]
          BY <3>1 DEF Subscribe
        <4> QED
          BY <4>1 DEF EventsOK, EventsType
      <3>2. CASE Unsubscribe(s)
        <4>1. events' = [events EXCEPT !.subs = events.subs \ {s}]
          BY <3>2 DEF Unsubscribe
        <4> QED
          BY <4>1 DEF EventsOK, EventsType
      <3> QED
        BY <1>6, <3>1, <3>2
    <2> QED
      BY <1>6, <2>1 DEF Subscribe, Unsubscribe, WorkersOK
  <1> QED
    BY <1>3, <1>4, <1>5, <1>6 DEF PeerStep, ConnectAfterHandshake

LEMMA NodeInitTyped == NodeInit => NodeTyped
  <1>1. ASSUME NEW ad, Create(ad)
        PROVE  NodeTyped
    <2> DEFINE e == <<>>
    <2>1. e \in Seq(Nat) /\ e \in Seq(NativeItem) /\ e \in Seq(WatchType) /\ e \in Seq(News) /\ DOMAIN e = {}
      OBVIOUS
    <2>2. NewCancelManager \in TokenType /\ NewNodeDirectory \in DirType /\ {} \in WatchType
      BY DEF NewCancelManager, NewNodeDirectory, TokenType, DirType, PeerType, WatchType
    <2> HIDE DEF e
    <2>3. [factories |-> {}, spawned |-> e] \in SpawnType
      BY <2>1 DEF SpawnType
    <2>4. NewSpawnManager \in SpawnType
      BY <2>3 DEF NewSpawnManager, e
    <2>5. mgr \in MgrType /\ native \in NativeType
      BY <1>1, <2>2, <2>4 DEF Create, NewNative, MgrType, NativeType
    <2>6. [out |-> "none", id |-> 0, due |-> "none"] \in ReqType
      BY DEF ReqType, Outcomes, Dues
    <2>7. req \in [Reqs -> ReqType]
      BY <1>1, <2>6 DEF Create
    <2>8. [s \in Subs |-> [p \in Peers |-> e]] \in [Subs -> [Peers -> Seq(News)]]
      BY <2>1
    <2>9. events = [subs |-> {}, made |-> {}, pending |-> {}, peer |-> Nil, news |-> "none",
                    heard |-> [s \in Subs |-> [p \in Peers |-> e]]]
      BY <1>1 DEF Create, e
    <2>10. EventsOK
      BY <2>8, <2>9 DEF EventsOK, EventsType
    <2>11. hist = [local |-> {}, since |-> {}, watch |-> {}, dir |-> NewNodeDirectory,
                   tokens |-> NewCancelManager, due |-> e, told |-> e, cancelled |-> {}]
      BY <1>1 DEF Create, e
    <2>12. hist \in HistType
      BY <2>1, <2>2, <2>11 DEF HistType
    <2>13. started = FALSE /\ next = 1 /\ workers = e /\ box = e /\ turn = 0 /\ moves = 0
      BY <1>1 DEF Create, e
    <2>14. WorkersOK /\ box \in Seq(NativeItem)
      BY <2>1, <2>13 DEF WorkersOK
    <2>15. next \in 1..MaxLocal + 1 /\ turn \in Nat /\ moves \in 0..MaxMoves
      BY <2>13, SystemNodeAssumption
    <2> QED
      BY <2>5, <2>7, <2>10, <2>12, <2>14, <2>15 DEF NodeTyped
  <1> QED
    BY <1>1 DEF NodeInit, RactorCreate, KameoCreate, CoerceCreate

LEMMA NodeKeepsTyped == NodeTyped /\ [NodeNext]_nvars => NodeTyped'
  <1> SUFFICES ASSUME NodeTyped, [NodeNext]_nvars PROVE NodeTyped'
    OBVIOUS
  <1>1. CASE UNCHANGED nvars
    BY <1>1 DEF nvars, NodeTyped, WorkersOK, EventsOK
  <1> QED
    BY <1>1, NodeSteps, SpawnTyped, RouteTyped, NativeTyped, StructTyped, PeerTyped

-----------------------------------------------------------------------------
(***************************************************************************)
(* Peers and events.  While an emit is under way, its news are those of    *)
(* the directory, and whoever is still to be called last heard the         *)
(* opposite.                                                               *)
(***************************************************************************)

\* h is what one subscriber heard of one peer.
HeardOK(h, made, due, news, subscribed, connected) ==
    /\ \A i \in 1..Len(h) - 1 : h[i] # h[i + 1]
    /\ ~made => h = <<>>
    /\ due /\ h # <<>> => Last(h) # news
    /\ subscribed /\ ~due /\ h # <<>> => (Last(h) = "joined" <=> connected)

IsDue(s, p) == s \in events.pending /\ p = events.peer
EventsHeard ==
    \A s \in Subs, p \in Peers :
        HeardOK(events.heard[s][p], s \in events.made, IsDue(s, p), events.news, s \in events.subs,
                IsConnected(mgr.dir, p))

NewsAreTrue == events.pending # {} => (events.news = "joined" <=> IsConnected(mgr.dir, events.peer))

PeersInv == EventsHeard /\ NewsAreTrue /\ ConnectedIsCompatible

LEMMA PeersImply == NodeTyped /\ PeersInv => PeersAreSound
  <1> SUFFICES ASSUME NodeTyped, PeersInv PROVE EventsFollowDirectory
    BY DEF PeersAreSound, PeersInv
  <1> SUFFICES ASSUME NEW s \in Subs, NEW p \in Peers
               PROVE  LET h == events.heard[s][p]
                      IN  /\ \A i \in 1 .. Len(h) - 1 : h[i] # h[i + 1]
                          /\ s \in events.subs /\ Quiet /\ h # <<>> =>
                                (Last(h) = "joined") = IsConnected(mgr.dir, p)
    BY DEF EventsFollowDirectory
  <1>1. HeardOK(events.heard[s][p], s \in events.made, IsDue(s, p), events.news, s \in events.subs,
                IsConnected(mgr.dir, p))
    BY DEF PeersInv, EventsHeard
  <1>2. Quiet => ~IsDue(s, p)
    BY DEF Quiet, IsDue
  <1>3. IsConnected(mgr.dir, p) \in BOOLEAN
    BY DEF IsConnected
  <1> QED
    BY <1>1, <1>2, <1>3 DEF HeardOK

\* A subscriber that is called hears the opposite of what it heard before.
LEMMA HeardAppend ==
    ASSUME NEW h \in Seq(News), NEW news \in News, NEW sub \in BOOLEAN, NEW conn \in BOOLEAN,
           HeardOK(h, TRUE, TRUE, news, sub, conn), news = "joined" <=> conn
    PROVE  HeardOK(Append(h, news), TRUE, FALSE, news, sub, conn)
  <1> DEFINE g == Append(h, news)
  <1>1. /\ g \in Seq(News) /\ Len(g) = Len(h) + 1 /\ g[Len(g)] = news /\ g # <<>> /\ Len(h) \in Nat
        /\ \A i \in 1..Len(h) : g[i] = h[i]
    BY AppendProperties
  <1>2. \A i \in 1..Len(h) - 1 : h[i] # h[i + 1]
    BY DEF HeardOK
  <1>3. Len(h) > 0 => h[Len(h)] # news
    <2>1. h # <<>> => Last(h) # news
      BY DEF HeardOK
    <2>2. Len(h) > 0 => h # <<>>
      OBVIOUS
    <2> QED
      BY <2>1, <2>2 DEF Last
  <1> HIDE DEF g
  <1>4. \A i \in 1..Len(g) - 1 : g[i] # g[i + 1]
    <2> SUFFICES ASSUME NEW i \in 1..Len(g) - 1 PROVE g[i] # g[i + 1]
      OBVIOUS
    <2>1. CASE i = Len(h)
      BY <1>1, <1>3, <2>1
    <2>2. CASE i # Len(h)
      <3>1. i \in 1..Len(h) - 1 /\ i \in 1..Len(h) /\ i + 1 \in 1..Len(h)
        BY <1>1, <2>2
      <3> QED
        BY <1>1, <1>2, <3>1
    <2> QED
      BY <2>1, <2>2
  <1>5. Last(g) = "joined" <=> conn
    BY <1>1 DEF Last
  <1>6. HeardOK(g, TRUE, FALSE, news, sub, conn)
    BY <1>4, <1>5 DEF HeardOK
  <1> QED
    BY <1>6 DEF g

\* A step that leaves the events and the connected peers alone.
LEMMA EventsStay ==
    ASSUME PeersInv, events' = events, ConnectedIsCompatible',
           \A r \in Peers : IsConnected(mgr'.dir, r) <=> IsConnected(mgr.dir, r), EventsOK
    PROVE  PeersInv'
  <1>1. NewsAreTrue'
    BY DEF PeersInv, NewsAreTrue, EventsOK
  <1>2. ASSUME NEW s \in Subs, NEW q \in Peers
        PROVE  HeardOK(events'.heard[s][q], s \in events'.made, IsDue(s, q)', events'.news, s \in events'.subs,
                       IsConnected(mgr'.dir, q))
    <2>1. HeardOK(events.heard[s][q], s \in events.made, IsDue(s, q), events.news, s \in events.subs,
                  IsConnected(mgr.dir, q))
      BY DEF PeersInv, EventsHeard
    <2>2. IsDue(s, q)' <=> IsDue(s, q)
      BY DEF IsDue
    <2> QED
      BY <2>1, <2>2 DEF HeardOK
  <1> QED
    BY <1>1, <1>2 DEF PeersInv, EventsHeard

\* A change of the directory, announced to all subscribers.
LEMMA AnnouncedKeeps ==
    ASSUME NodeTyped, PeersInv, NEW p \in Peers, NEW news \in News, Quiet,
           news = "joined" <=> ~IsConnected(mgr.dir, p),
           events' = Emit(p, news),
           IsConnected(mgr'.dir, p) <=> ~IsConnected(mgr.dir, p),
           \A q \in Peers : q # p => (IsConnected(mgr'.dir, q) <=> IsConnected(mgr.dir, q))
    PROVE  EventsHeard' /\ NewsAreTrue'
  <1>1. /\ events'.pending = events.subs /\ events'.subs = events.subs /\ events'.made = events.made
        /\ events'.peer = p /\ events'.news = news /\ events'.heard = events.heard
    BY DEF Emit, EventsOK, EventsType, NodeTyped, Quiet
  <1>2. NewsAreTrue'
    BY <1>1 DEF NewsAreTrue
  <1>3. ASSUME NEW s \in Subs, NEW q \in Peers
        PROVE  HeardOK(events'.heard[s][q], s \in events'.made, IsDue(s, q)', events'.news, s \in events'.subs,
                       IsConnected(mgr'.dir, q))
    <2> DEFINE h == events.heard[s][q]
    <2>1. HeardOK(h, s \in events.made, IsDue(s, q), events.news, s \in events.subs, IsConnected(mgr.dir, q))
      BY DEF PeersInv, EventsHeard
    <2>2. ~IsDue(s, q) /\ (IsDue(s, q)' <=> (s \in events.subs /\ q = p))
      BY <1>1 DEF Quiet, IsDue
    <2>3. h \in Seq(News)
      BY DEF NodeTyped, EventsOK, EventsType
    <2>4. h # <<>> => Last(h) \in News
      BY <2>3, LenProperties DEF Last
    <2> HIDE DEF h
    <2>5. CASE q = p
      BY <1>1, <2>1, <2>2, <2>4, <2>5 DEF HeardOK, News, h
    <2>6. CASE q # p
      BY <1>1, <2>1, <2>2, <2>4, <2>6 DEF HeardOK, News, h
    <2> QED
      BY <2>5, <2>6
  <1> QED
    BY <1>2, <1>3 DEF EventsHeard

LEMMA PeersStep == ASSUME NodeTyped, PeersInv, PeerStep PROVE PeersInv'
  <1>0. mgr.dir \in DirType
    BY DEF NodeTyped, MgrType
  <1>1. ASSUME NEW p \in Peers, NEW q \in Peers, NEW address \in Addrs \cup {Nil},
               ConnectAfterHandshake(p, q, address)
        PROVE  PeersInv'
    <2>1. profile[p].major = 0 /\ profile[p].adapter = runtime
      BY <1>1 DEF ConnectAfterHandshake, ValidateHandshake, VerifyPeerIdentity, IsCompatible, Answers, Own
    <2>2. ConnectPeer(p, address)
      BY <1>1 DEF ConnectAfterHandshake
    <2> DEFINE a == IF address = Nil THEN mgr.dir[p].address ELSE address
    <2>3. mgr'.dir = [mgr.dir EXCEPT ![p] = [status |-> "connected", address |-> a]]
      BY <1>0, <2>2, ConnectedIs DEF ConnectPeer, NodeTyped, MgrType
    <2> HIDE DEF a
    <2>4. IsConnected(mgr'.dir, p) /\ \A r \in Peers : r # p => (IsConnected(mgr'.dir, r) <=> IsConnected(mgr.dir, r))
      BY <1>0, <2>3 DEF IsConnected, DirType
    <2>5. ConnectedIsCompatible'
      BY <2>1, <2>2, <2>4 DEF ConnectedIsCompatible, PeersInv, ConnectPeer
    <2>6. CASE IsConnected(mgr.dir, p)
      <3>1. events' = events
        BY <2>2, <2>6 DEF ConnectPeer
      <3>2. \A r \in Peers : IsConnected(mgr'.dir, r) <=> IsConnected(mgr.dir, r)
        BY <2>4, <2>6
      <3> QED
        BY <2>5, <3>1, <3>2, EventsStay DEF NodeTyped
    <2>7. CASE ~IsConnected(mgr.dir, p)
      <3>1. events' = Emit(p, "joined") /\ Quiet /\ "joined" \in News
        BY <2>2, <2>7 DEF ConnectPeer, News
      <3>2. EventsHeard' /\ NewsAreTrue'
        BY <2>4, <2>7, <3>1, AnnouncedKeeps
      <3> QED
        BY <2>5, <3>2 DEF PeersInv
    <2> QED
      BY <2>6, <2>7
  <1>2. ASSUME NEW p \in Peers, DisconnectPeer(p)
        PROVE  PeersInv'
    <2>1. mgr'.dir = IF mgr.dir[p].status = "none" THEN mgr.dir
                     ELSE [mgr.dir EXCEPT ![p] = [status |-> "disconnected", address |-> mgr.dir[p].address]]
      BY <1>0, <1>2, DisconnectedIs DEF DisconnectPeer, NodeTyped, MgrType
    <2>2. ~IsConnected(mgr'.dir, p) /\ \A r \in Peers : r # p => (IsConnected(mgr'.dir, r) <=> IsConnected(mgr.dir, r))
      BY <1>0, <2>1 DEF IsConnected, DirType
    <2>3. ConnectedIsCompatible'
      BY <1>2, <2>2 DEF ConnectedIsCompatible, PeersInv, DisconnectPeer
    <2>4. CASE ~IsConnected(mgr.dir, p)
      <3>1. events' = events
        BY <1>2, <2>4 DEF DisconnectPeer
      <3>2. \A r \in Peers : IsConnected(mgr'.dir, r) <=> IsConnected(mgr.dir, r)
        BY <2>2, <2>4
      <3> QED
        BY <2>3, <3>1, <3>2, EventsStay DEF NodeTyped
    <2>5. CASE IsConnected(mgr.dir, p)
      <3>1. events' = Emit(p, "left") /\ Quiet /\ "left" \in News
        BY <1>2, <2>5 DEF DisconnectPeer, News
      <3>2. EventsHeard' /\ NewsAreTrue'
        BY <2>2, <2>5, <3>1, AnnouncedKeeps
      <3> QED
        BY <2>3, <3>2 DEF PeersInv
    <2> QED
      BY <2>4, <2>5
  <1>3. ASSUME NEW s \in Subs, Deliver(s)
        PROVE  PeersInv'
    <2> DEFINE p == events.peer
    <2>1. p \in Peers /\ events.news \in News /\ events.heard \in [Subs -> [Peers -> Seq(News)]] /\ s \in events.made
      BY <1>3 DEF Deliver, NodeTyped, EventsOK, EventsType
    <2>2. /\ events'.pending = events.pending \ {s} /\ events'.peer = p /\ events'.news = events.news
          /\ events'.subs = events.subs /\ events'.made = events.made
          /\ events'.heard = [events.heard EXCEPT ![s][p] = Append(events.heard[s][p], events.news)]
          /\ s \in events.pending /\ mgr' = mgr /\ profile' = profile /\ runtime' = runtime
      BY <1>3 DEF Deliver, NodeTyped, EventsOK, EventsType
    <2>3. events.news = "joined" <=> IsConnected(mgr.dir, p)
      BY <2>2 DEF PeersInv, NewsAreTrue
    <2>4. NewsAreTrue' /\ ConnectedIsCompatible'
      BY <2>2 DEF PeersInv, NewsAreTrue, ConnectedIsCompatible
    <2>5. ASSUME NEW t \in Subs, NEW q \in Peers
          PROVE  HeardOK(events'.heard[t][q], t \in events'.made, IsDue(t, q)', events'.news, t \in events'.subs,
                         IsConnected(mgr'.dir, q))
      <3>1. HeardOK(events.heard[t][q], t \in events.made, IsDue(t, q), events.news, t \in events.subs,
                    IsConnected(mgr.dir, q))
        BY DEF PeersInv, EventsHeard
      <3>2. CASE t = s /\ q = p
        <4> DEFINE h == events.heard[s][p]
                   news == events.news
                   sub == s \in events.subs
                   conn == IsConnected(mgr.dir, p)
        <4>1. IsDue(s, p) = TRUE /\ IsDue(s, p)' = FALSE /\ (s \in events.made) = TRUE
          BY <2>1, <2>2 DEF IsDue
        <4>2. HeardOK(h, TRUE, TRUE, news, sub, conn)
          BY <3>1, <3>2, <4>1
        <4>3. h \in Seq(News) /\ news \in News /\ conn \in BOOLEAN /\ sub \in BOOLEAN /\ (news = "joined" <=> conn)
          BY <2>1, <2>3 DEF IsConnected
        <4> HIDE DEF h, news, sub, conn
        <4>4. HeardOK(Append(h, news), TRUE, FALSE, news, sub, conn)
          BY <4>2, <4>3, HeardAppend
        <4>5. events'.heard[s][p] = Append(events.heard[s][p], events.news)
          BY <2>1, <2>2
        <4> QED
          BY <2>2, <3>2, <4>1, <4>4, <4>5 DEF h, news, sub, conn
      <3>3. CASE ~(t = s /\ q = p)
        <4>1. events'.heard[t][q] = events.heard[t][q]
          BY <2>1, <2>2, <3>3
        <4>2. IsDue(t, q)' <=> IsDue(t, q)
          BY <2>2, <3>3 DEF IsDue
        <4> QED
          BY <2>2, <3>1, <4>1, <4>2 DEF HeardOK
      <3> QED
        BY <3>2, <3>3
    <2> QED
      BY <2>4, <2>5 DEF PeersInv, EventsHeard
  <1>4. ASSUME NEW s \in Subs, Subscribe(s) \/ Unsubscribe(s)
        PROVE  PeersInv'
    <2>1. /\ mgr' = mgr /\ profile' = profile /\ runtime' = runtime
          /\ events'.pending = events.pending /\ events'.peer = events.peer /\ events'.news = events.news
          /\ events'.heard = events.heard
      BY <1>4 DEF Subscribe, Unsubscribe, NodeTyped, EventsOK, EventsType
    <2>2. \/ s \notin events.made /\ events'.subs = events.subs \cup {s} /\ events'.made = events.made \cup {s}
          \/ events'.subs = events.subs \ {s} /\ events'.made = events.made
      <3>1. CASE Subscribe(s)
        BY <3>1 DEF Subscribe, NodeTyped, EventsOK, EventsType
      <3>2. CASE Unsubscribe(s)
        BY <3>2 DEF Unsubscribe, NodeTyped, EventsOK, EventsType
      <3> QED
        BY <1>4, <3>1, <3>2
    <2>3. NewsAreTrue' /\ ConnectedIsCompatible'
      BY <2>1 DEF PeersInv, NewsAreTrue, ConnectedIsCompatible
    <2>4. ASSUME NEW t \in Subs, NEW q \in Peers
          PROVE  HeardOK(events'.heard[t][q], t \in events'.made, IsDue(t, q)', events'.news, t \in events'.subs,
                         IsConnected(mgr'.dir, q))
      <3>1. HeardOK(events.heard[t][q], t \in events.made, IsDue(t, q), events.news, t \in events.subs,
                    IsConnected(mgr.dir, q))
        BY DEF PeersInv, EventsHeard
      <3>2. IsDue(t, q)' <=> IsDue(t, q)
        BY <2>1 DEF IsDue
      <3>3. CASE t \in events'.made /\ t \notin events.made
        <4>1. events.heard[t][q] = <<>>
          BY <3>1, <3>3 DEF HeardOK
        <4> DEFINE e == <<>>
        <4>2. Len(e) = 0
          OBVIOUS
        <4> HIDE DEF e
        <4>3. \A i \in 1..Len(e) - 1 : e[i] # e[i + 1]
          BY <4>2
        <4> QED
          BY <2>1, <4>1, <4>3 DEF HeardOK, e
      <3>4. CASE ~(t \in events'.made /\ t \notin events.made)
        BY <2>1, <2>2, <3>1, <3>2, <3>4 DEF HeardOK
      <3> QED
        BY <3>3, <3>4
    <2> QED
      BY <2>3, <2>4 DEF PeersInv, EventsHeard
  <1> QED
    BY <1>1, <1>2, <1>3, <1>4 DEF PeerStep

\* The other steps leave the directory of the struct and the events alone.
LEMMA PeersRest ==
    ASSUME NodeTyped, PeersInv, events' = events, mgr'.dir = mgr.dir, profile' = profile, runtime' = runtime
    PROVE  PeersInv'
  <1>1. ConnectedIsCompatible'
    BY DEF PeersInv, ConnectedIsCompatible
  <1> QED
    BY <1>1, EventsStay DEF NodeTyped

LEMMA PeersElsewhere ==
    ASSUME NodeTyped, SpawningStep \/ RouteStep \/ NativeStep \/ StructStep
    PROVE  events' = events /\ mgr'.dir = mgr.dir /\ profile' = profile /\ runtime' = runtime
  <1>1. CASE SpawningStep
    <2>1. events' = events /\ profile' = profile /\ runtime' = runtime
      BY <1>1 DEF SpawningStep, StartSystemActors, SpawnLocal, RegisterFactory, HandleSpawnRequest, RouteSpawn,
                  WorkerRegisters, WorkerSpawns
    <2>2. mgr' = mgr \/ \E m : mgr' = [mgr EXCEPT !.spawn = m]
      BY <1>1 DEF SpawningStep, StartSystemActors, SpawnLocal, RegisterFactory, HandleSpawnRequest, RouteSpawn,
                  WorkerRegisters, WorkerSpawns
    <2>3. mgr'.dir = mgr.dir
      BY <2>2 DEF NodeTyped, MgrType
    <2> QED
      BY <2>1, <2>3
  <1>2. CASE RouteStep
    BY <1>2 DEF RouteStep, RouteWatch, RouteCancel, RoutePeer, RouteTell, DirectTerminated, DirectToken, Direct, GiveUp
  <1>3. CASE NativeStep
    BY <1>3 DEF NativeStep, WatchManagerActor, CancelManagerActor, NodeDirectoryActor
  <1>4. CASE StructStep
    <2>1. events' = events /\ profile' = profile /\ runtime' = runtime
      BY <1>4 DEF StructStep, RemoteWatch, RemoteUnwatch, NotifyTerminated, RegisterCancel, CancelRequest,
                  CompleteRequest, StructCall
    <2> QED
      BY <1>4, <2>1, StructTyped
  <1> QED
    BY <1>1, <1>2, <1>3, <1>4

\* connect_peer, disconnect_peer and the emitter: subscribers that come and go hear of
\* joins and leaves in turn, as the directory has them, and only compatible peers are
\* ever connected.
THEOREM PeersStaySound == NodeSpec => []PeersAreSound
  <1>1. NodeInit => PeersInv
    <2> SUFFICES ASSUME NEW ad, Create(ad) PROVE PeersInv
      BY DEF NodeInit, RactorCreate, KameoCreate, CoerceCreate
    <2>1. events.pending = {} /\ events.subs = {} /\ \A s \in Subs, p \in Peers : events.heard[s][p] = <<>>
      BY DEF Create
    <2>2. \A p \in Peers : ~IsConnected(mgr.dir, p)
      BY DEF Create, IsConnected, NewNodeDirectory
    <2> DEFINE e == <<>>
    <2>3. Len(e) = 0
      OBVIOUS
    <2> HIDE DEF e
    <2>4. \A i \in 1..Len(e) - 1 : e[i] # e[i + 1]
      BY <2>3
    <2>5. EventsHeard
      BY <2>1, <2>4 DEF EventsHeard, HeardOK, e
    <2> QED
      BY <2>1, <2>2, <2>5 DEF PeersInv, NewsAreTrue, ConnectedIsCompatible
  <1>2. NodeTyped /\ PeersInv /\ [NodeNext]_nvars => PeersInv'
    <2> SUFFICES ASSUME NodeTyped, PeersInv, [NodeNext]_nvars PROVE PeersInv'
      OBVIOUS
    <2>1. CASE UNCHANGED nvars
      BY <2>1, PeersRest DEF nvars
    <2>2. CASE NodeNext
      BY <2>2, NodeSteps, PeersStep, PeersRest, PeersElsewhere
    <2> QED
      BY <2>1, <2>2
  <1> QED
    BY <1>1, <1>2, NodeInitTyped, NodeKeepsTyped, PeersImply, PTL DEF NodeSpec

-----------------------------------------------------------------------------
(***************************************************************************)
(* The native managers.  What is in their mailboxes leads, message by      *)
(* message, from the state they are in to the one that was promised; the   *)
(* states on the way are a witness of the invariant.                       *)
(***************************************************************************)

ReplayType == [watch : WatchType, cancel : TokenType, dir : DirType, told : Seq(WatchType)]

\* What a manager in state s makes of message x.
Taken(s, x) ==
    CASE x.op = "watch" -> [s EXCEPT !.watch = SubscribeWatch(s.watch, x.t, x.w)]
      [] x.op = "unwatch" -> [s EXCEPT !.watch = UnsubscribeWatch(s.watch, x.t, x.w)]
      [] x.op = "terminated" -> [s EXCEPT !.watch = OnTerminated(s.watch, x.t).left,
                                          !.told = Append(s.told, OnTerminated(s.watch, x.t).notify)]
      [] x.op = "token" -> [s EXCEPT !.cancel = RegisterToken(s.cancel, x.k, x.token)]
      [] x.op = "complete" -> [s EXCEPT !.cancel = RemoveToken(s.cancel, x.k)]
      [] x.op = "cancel" -> [s EXCEPT !.cancel = Cancel(s.cancel, x.k).left]
      [] x.op = "connect" -> [s EXCEPT !.dir = Connected(s.dir, x.p, x.address)]
      [] OTHER -> [s EXCEPT !.dir = Disconnected(s.dir, x.p)]

InForce == [watch |-> native.watch, cancel |-> native.cancel, dir |-> native.dir, told |-> hist.told]
Promised == [watch |-> hist.watch, cancel |-> hist.tokens, dir |-> hist.dir, told |-> hist.due]

Leads(S, from, q, to) ==
    /\ S \in [0..Len(q) -> ReplayType]
    /\ S[0] = from /\ S[Len(q)] = to
    /\ \A i \in 1..Len(q) : S[i] = Taken(S[i - 1], q[i])

\* A cancel in the mailbox will be answered as was noted when it was routed.
AnswersDue(S, q, rq) ==
    \A i \in 1..Len(q) : q[i].op = "cancel" =>
        rq[q[i].req].out # "none" /\ rq[q[i].req].due = Cancel(S[i - 1].cancel, q[i].k).answer

\* No state on the way has told more than is due.
WithinDue(S, q, due) == \A i \in 0..Len(q) : IsPrefix(S[i].told, due)

AnsweredAsDue(rq) == \A r \in Reqs : rq[r].out \in {"cancelled", "not found"} => rq[r].out = rq[r].due

ReplayInv ==
    /\ \E S : Leads(S, InForce, box, Promised) /\ AnswersDue(S, box, req) /\ WithinDue(S, box, hist.due)
    /\ AnsweredAsDue(req)

LEMMA ReplayStates ==
    ASSUME NodeTyped
    PROVE  /\ InForce \in ReplayType /\ Promised \in ReplayType
           /\ InForce.watch = native.watch /\ InForce.cancel = native.cancel
           /\ InForce.dir = native.dir /\ InForce.told = hist.told
           /\ Promised.watch = hist.watch /\ Promised.cancel = hist.tokens
           /\ Promised.dir = hist.dir /\ Promised.told = hist.due
  BY DEF NodeTyped, NativeType, HistType, InForce, Promised, ReplayType

LEMMA ReplayImplies == NodeTyped /\ ReplayInv => NativeKeepsPromises
  <1> SUFFICES ASSUME NodeTyped, ReplayInv PROVE NativeKeepsPromises
    OBVIOUS
  <1>1. PICK S : Leads(S, InForce, box, Promised) /\ AnswersDue(S, box, req) /\ WithinDue(S, box, hist.due)
    BY DEF ReplayInv
  <1>2. Len(box) \in Nat /\ (box = <<>> => Len(box) = 0)
    BY DEF NodeTyped
  <1>3. IsPrefix(hist.told, hist.due)
    <2>1. S[0] = InForce /\ 0 \in 0..Len(box)
      BY <1>1, <1>2 DEF Leads
    <2> QED
      BY <1>1, <2>1, ReplayStates DEF WithinDue
  <1>4. box = <<>> => InForce = Promised
    BY <1>1, <1>2 DEF Leads
  <1> QED
    BY <1>3, <1>4, ReplayStates DEF NativeKeepsPromises, ReplayInv, AnsweredAsDue

\* A message that is put into the mailbox, with what it promises.
LEMMA LeadsAppend ==
    ASSUME NEW q \in Seq(NativeItem), NEW S, NEW from, NEW to, Leads(S, from, q, to),
           NEW x \in NativeItem, NEW goal \in ReplayType, goal = Taken(to, x)
    PROVE  \E T : /\ Leads(T, from, Append(q, x), goal)
                  /\ \A i \in 0..Len(q) : T[i] = S[i]
                  /\ T[Len(q) + 1] = goal
  <1> DEFINE n == Len(q)
             p == Append(q, x)
             T == [i \in 0..n + 1 |-> IF i <= n THEN S[i] ELSE goal]
  <1>1. n \in Nat /\ Len(p) = n + 1 /\ p[n + 1] = x /\ \A i \in 1..n : p[i] = q[i]
    BY AppendProperties
  <1>2. S \in [0..n -> ReplayType] /\ S[0] = from /\ S[n] = to /\ \A i \in 1..n : S[i] = Taken(S[i - 1], q[i])
    BY DEF Leads
  <1> HIDE DEF n, p
  <1>3. T \in [0..n + 1 -> ReplayType]
    BY <1>1, <1>2
  <1>4. (\A i \in 0..n : T[i] = S[i]) /\ T[n + 1] = goal /\ T[0] = from
    BY <1>1, <1>2
  <1> HIDE DEF T
  <1>5. ASSUME NEW i \in 1..n + 1
        PROVE  T[i] = Taken(T[i - 1], p[i])
    <2>1. CASE i = n + 1
      <3>1. i - 1 = n /\ n \in 0..n
        BY <1>1, <2>1
      <3> QED
        BY <1>1, <1>2, <1>4, <2>1, <3>1
    <2>2. CASE i # n + 1
      <3>1. i \in 1..n /\ i \in 0..n /\ i - 1 \in 0..n
        BY <1>1, <2>2
      <3> QED
        BY <1>1, <1>2, <1>4, <3>1
    <2> QED
      BY <2>1, <2>2
  <1>6. Leads(T, from, p, goal)
    BY <1>1, <1>3, <1>4, <1>5 DEF Leads
  <1> QED
    BY <1>4, <1>6 DEF n, p

\* A message that is handled.
LEMMA LeadsTail ==
    ASSUME NEW q \in Seq(NativeItem), q # <<>>, NEW S, NEW from, NEW to, Leads(S, from, q, to)
    PROVE  \E T : /\ Leads(T, Taken(from, Head(q)), Tail(q), to)
                  /\ \A i \in 0..Len(Tail(q)) : T[i] = S[i + 1]
  <1> DEFINE n == Len(q)
             p == Tail(q)
             T == [i \in 0..n - 1 |-> S[i + 1]]
  <1>1. n \in Nat /\ n > 0 /\ Len(p) = n - 1 /\ Head(q) = q[1] /\ \A i \in 1..n - 1 : p[i] = q[i + 1]
    BY HeadTailProperties
  <1>2. S \in [0..n -> ReplayType] /\ S[0] = from /\ S[n] = to /\ \A i \in 1..n : S[i] = Taken(S[i - 1], q[i])
    BY DEF Leads
  <1> HIDE DEF n, p
  <1>3. \A i \in 0..n - 1 : T[i] = S[i + 1] /\ i + 1 \in 0..n
    BY <1>1
  <1>4. T \in [0..n - 1 -> ReplayType]
    BY <1>1, <1>2
  <1> HIDE DEF T
  <1>5. T[0] = Taken(from, Head(q))
    <2>1. 0 \in 0..n - 1 /\ 1 \in 1..n /\ 0 + 1 = 1 /\ 1 - 1 = 0
      BY <1>1
    <2>2. T[0] = S[1] /\ S[1] = Taken(S[0], q[1])
      BY <1>2, <1>3, <2>1
    <2> QED
      BY <1>1, <1>2, <2>2
  <1>6. T[n - 1] = to
    <2>1. n - 1 \in 0..n - 1 /\ (n - 1) + 1 = n
      BY <1>1
    <2> QED
      BY <1>2, <1>3, <2>1
  <1>7. ASSUME NEW i \in 1..n - 1
        PROVE  T[i] = Taken(T[i - 1], p[i])
    <2>1. i \in 0..n - 1 /\ i - 1 \in 0..n - 1 /\ i + 1 \in 1..n /\ (i - 1) + 1 = i /\ (i + 1) - 1 = i
      BY <1>1
    <2>2. T[i] = S[i + 1] /\ T[i - 1] = S[i] /\ S[i + 1] = Taken(S[i], q[i + 1])
      BY <1>2, <1>3, <2>1
    <2> QED
      BY <1>1, <2>2
  <1>8. Leads(T, Taken(from, Head(q)), p, to)
    BY <1>1, <1>4, <1>5, <1>6, <1>7 DEF Leads
  <1> QED
    BY <1>1, <1>3, <1>8 DEF n, p

LEMMA PrefixAppend ==
    ASSUME NEW S, NEW s \in Seq(S), NEW t \in Seq(S), NEW x \in S
    PROVE  IsPrefix(t, t) /\ (IsPrefix(s, t) => IsPrefix(s, Append(t, x)))
  <1>1. IsPrefix(t, t)
    BY DEF IsPrefix
  <1>2. ASSUME IsPrefix(s, t) PROVE IsPrefix(s, Append(t, x))
    <2> DEFINE u == Append(t, x)
    <2>1. u \in Seq(S) /\ Len(u) = Len(t) + 1 /\ Len(t) \in Nat /\ Len(s) \in Nat /\ \A i \in 1..Len(t) : u[i] = t[i]
      BY AppendProperties
    <2>2. Len(s) <= Len(t) /\ SubSeq(s, 1, Len(s)) = SubSeq(t, 1, Len(s))
      BY <1>2 DEF IsPrefix
    <2> HIDE DEF u
    <2>3. SubSeq(u, 1, Len(s)) = SubSeq(t, 1, Len(s))
      <3>1. \A i \in 1..Len(s) : u[i] = t[i]
        BY <2>1, <2>2
      <3>2. /\ SubSeq(u, 1, Len(s)) = [i \in 1..Len(s) |-> u[i]]
            /\ SubSeq(t, 1, Len(s)) = [i \in 1..Len(s) |-> t[i]]
        BY <2>1, <2>2
      <3> QED
        BY <3>1, <3>2
    <2>4. Len(s) <= Len(u)
      BY <2>1, <2>2
    <2> QED
      BY <2>2, <2>3, <2>4 DEF IsPrefix, u
  <1> QED
    BY <1>1, <1>2

\* The requests that were routed before keep what was noted of them.
ReqsKept == \A r \in Reqs : req[r].out # "none" => req'[r].out # "none" /\ req'[r].due = req[r].due

\* A message with its promise is put into the mailbox.
LEMMA ReplayAppend ==
    ASSUME NodeTyped, NodeTyped', ReplayInv, NEW x \in NativeItem, box' = Append(box, x),
           native' = native, hist'.told = hist.told, Promised' = Taken(Promised, x),
           hist'.due = hist.due \/ (\E z \in WatchType : hist'.due = Append(hist.due, z)),
           ReqsKept, AnsweredAsDue(req'),
           x.op = "cancel" => req'[x.req].out # "none" /\ req'[x.req].due = Cancel(hist.tokens, x.k).answer
    PROVE  ReplayInv'
  <1>1. PICK S : Leads(S, InForce, box, Promised) /\ AnswersDue(S, box, req) /\ WithinDue(S, box, hist.due)
    BY DEF ReplayInv
  <1>2. box \in Seq(NativeItem) /\ Len(box) \in Nat /\ Len(box') = Len(box) + 1 /\ box'[Len(box) + 1] = x
        /\ \A i \in 1..Len(box) : box'[i] = box[i]
    BY AppendProperties DEF NodeTyped
  <1>3. Promised' \in ReplayType /\ InForce' = InForce
    <2>1. Promised' \in ReplayType
      BY DEF NodeTyped, HistType, Promised, ReplayType
    <2> QED
      BY <2>1 DEF InForce
  <1> DEFINE goal == Promised'
  <1>4. goal \in ReplayType /\ goal = Taken(Promised, x)
    BY <1>3
  <1> HIDE DEF goal
  <1>5. PICK T : /\ Leads(T, InForce, Append(box, x), goal)
                 /\ \A i \in 0..Len(box) : T[i] = S[i]
                 /\ T[Len(box) + 1] = goal
    BY <1>1, <1>2, <1>4, LeadsAppend
  <1>6. Leads(T, InForce', box', Promised')
    BY <1>3, <1>5 DEF goal
  <1>7. AnswersDue(T, box', req')
    <2> SUFFICES ASSUME NEW i \in 1..Len(box'), box'[i].op = "cancel"
                 PROVE  req'[box'[i].req].out # "none" /\ req'[box'[i].req].due = Cancel(T[i - 1].cancel, box'[i].k).answer
      BY DEF AnswersDue
    <2>1. CASE i = Len(box) + 1
      <3>1. i - 1 = Len(box) /\ Len(box) \in 0..Len(box)
        BY <1>2, <2>1
      <3>2. T[i - 1] = Promised
        BY <1>1, <1>5, <3>1 DEF Leads
      <3>3. Promised.cancel = hist.tokens
        BY ReplayStates
      <3> QED
        BY <1>2, <2>1, <3>2, <3>3
    <2>2. CASE i # Len(box) + 1
      <3>1. i \in 1..Len(box) /\ i - 1 \in 0..Len(box)
        BY <1>2, <2>2
      <3>2. T[i - 1] = S[i - 1] /\ box'[i] = box[i]
        BY <1>2, <1>5, <3>1
      <3>3. req[box[i].req].out # "none" /\ req[box[i].req].due = Cancel(S[i - 1].cancel, box[i].k).answer
        BY <1>1, <3>1, <3>2 DEF AnswersDue
      <3>4. box[i].req \in Reqs
        BY <1>2, <3>1, <3>2, NativeItemParts
      <3> QED
        BY <3>2, <3>3, <3>4 DEF ReqsKept
    <2> QED
      BY <2>1, <2>2
  <1>8. WithinDue(T, box', hist'.due)
    <2> SUFFICES ASSUME NEW i \in 0..Len(box') PROVE IsPrefix(T[i].told, hist'.due)
      BY DEF WithinDue
    <2>1. hist.due \in Seq(WatchType) /\ hist'.due \in Seq(WatchType)
      BY DEF NodeTyped, HistType
    <2>2. CASE i = Len(box) + 1
      <3>1. T[i].told = hist'.due
        BY <1>5, <2>2 DEF goal, Promised
      <3>2. IsPrefix(hist'.due, hist'.due)
        BY <2>1 DEF IsPrefix
      <3> QED
        BY <3>1, <3>2
    <2>3. CASE i # Len(box) + 1
      <3>1. i \in 0..Len(box)
        BY <1>2, <2>3
      <3>2. IsPrefix(S[i].told, hist.due) /\ T[i] = S[i]
        BY <1>1, <1>5, <3>1 DEF WithinDue
      <3>3. S[i].told \in Seq(WatchType)
        BY <1>1, <3>1 DEF Leads, ReplayType
      <3> QED
        BY <2>1, <3>2, <3>3, PrefixAppend
    <2> QED
      BY <2>2, <2>3
  <1> QED
    BY <1>6, <1>7, <1>8 DEF ReplayInv

\* The next message is handled.
LEMMA ReplayTail ==
    ASSUME NodeTyped, NodeTyped', ReplayInv, box # <<>>, box' = Tail(box),
           InForce' = Taken(InForce, Head(box)), Promised' = Promised, hist'.due = hist.due,
           ReqsKept, AnsweredAsDue(req')
    PROVE  ReplayInv'
  <1>1. PICK S : Leads(S, InForce, box, Promised) /\ AnswersDue(S, box, req) /\ WithinDue(S, box, hist.due)
    BY DEF ReplayInv
  <1>2. box \in Seq(NativeItem)
    BY DEF NodeTyped
  <1>3. PICK T : /\ Leads(T, Taken(InForce, Head(box)), Tail(box), Promised)
                 /\ \A i \in 0..Len(Tail(box)) : T[i] = S[i + 1]
    BY <1>1, <1>2, LeadsTail
  <1>4. Len(box) \in Nat /\ Len(box') = Len(box) - 1 /\ \A i \in 1..Len(box') : box'[i] = box[i + 1]
    BY <1>2, HeadTailProperties
  <1>5. Leads(T, InForce', box', Promised')
    BY <1>3
  <1>6. AnswersDue(T, box', req')
    <2> SUFFICES ASSUME NEW i \in 1..Len(box'), box'[i].op = "cancel"
                 PROVE  req'[box'[i].req].out # "none" /\ req'[box'[i].req].due = Cancel(T[i - 1].cancel, box'[i].k).answer
      BY DEF AnswersDue
    <2>1. i + 1 \in 1..Len(box) /\ i - 1 \in 0..Len(box') /\ (i - 1) + 1 = i /\ (i + 1) - 1 = i
      BY <1>4
    <2>2. T[i - 1] = S[i] /\ box'[i] = box[i + 1]
      BY <1>3, <1>4, <2>1
    <2>3. req[box[i + 1].req].out # "none" /\ req[box[i + 1].req].due = Cancel(S[i].cancel, box[i + 1].k).answer
      BY <1>1, <2>1, <2>2 DEF AnswersDue
    <2>4. box[i + 1].req \in Reqs
      BY <1>2, <2>1, <2>2, NativeItemParts
    <2> QED
      BY <2>2, <2>3, <2>4 DEF ReqsKept
  <1>7. WithinDue(T, box', hist'.due)
    <2> SUFFICES ASSUME NEW i \in 0..Len(box') PROVE IsPrefix(T[i].told, hist'.due)
      BY DEF WithinDue
    <2>1. i + 1 \in 0..Len(box)
      BY <1>4
    <2> QED
      BY <1>1, <1>3, <2>1 DEF WithinDue
  <1> QED
    BY <1>5, <1>6, <1>7 DEF ReplayInv

\* A step that leaves the mailboxes, the managers and the promises alone.
LEMMA ReplayStay ==
    ASSUME NodeTyped, ReplayInv, box' = box, InForce' = InForce, Promised' = Promised, hist'.due = hist.due,
           ReqsKept, AnsweredAsDue(req')
    PROVE  ReplayInv'
  <1>1. PICK S : Leads(S, InForce, box, Promised) /\ AnswersDue(S, box, req) /\ WithinDue(S, box, hist.due)
    BY DEF ReplayInv
  <1>2. \A i \in 1..Len(box) : box[i].op = "cancel" => box[i].req \in Reqs
    BY NativeItemParts DEF NodeTyped
  <1>3. AnswersDue(S, box', req')
    BY <1>1, <1>2 DEF AnswersDue, ReqsKept
  <1>4. Leads(S, InForce', box', Promised') /\ WithinDue(S, box', hist'.due)
    BY <1>1
  <1> QED
    BY <1>3, <1>4 DEF ReplayInv

\* A request is routed.
LEMMA ReqRouted ==
    ASSUME NodeTyped, AnsweredAsDue(req), NEW r \in Reqs, req[r].out = "none", NEW x,
           x.out \notin {"none", "cancelled", "not found"}, req' = [req EXCEPT ![r] = x]
    PROVE  ReqsKept /\ AnsweredAsDue(req')
  <1>1. req'[r] = x /\ \A q \in Reqs : q # r => req'[q] = req[q]
    BY DEF NodeTyped
  <1> QED
    BY <1>1 DEF ReqsKept, AnsweredAsDue

\* Outcomes that no manager answers, and the step that sets one.
Plain(out) == out \notin {"none", "cancelled", "not found"}
Routed(r, out) == req' = [req EXCEPT ![r].out = out]

LEMMA PlainOutcomes == Plain("error") /\ Plain("acknowledged")
  BY DEF Plain

LEMMA ReqRoutedOut ==
    ASSUME NodeTyped, AnsweredAsDue(req), NEW r \in Reqs, req[r].out = "none", NEW out, Plain(out), Routed(r, out)
    PROVE  ReqsKept /\ AnsweredAsDue(req')
  <1> DEFINE x == [req[r] EXCEPT !.out = out]
  <1>1. x.out = out
    BY DEF NodeTyped, ReqType
  <1>2. req' = [req EXCEPT ![r] = x]
    BY DEF Routed
  <1> HIDE DEF x
  <1>3. x.out \notin {"none", "cancelled", "not found"}
    BY <1>1 DEF Plain
  <1> QED
    BY <1>2, <1>3, ReqRouted

\* A request is answered, unless its caller gave it up.
LEMMA ReqAnswered ==
    ASSUME NodeTyped, AnsweredAsDue(req), NEW r \in Reqs, NEW out, out # "none",
           out \in {"cancelled", "not found"} => out = req[r].due,
           NEW x, x.out = IF req[r].out = "awaiting" THEN out ELSE req[r].out, x.due = req[r].due,
           req' = [req EXCEPT ![r] = x]
    PROVE  ReqsKept /\ AnsweredAsDue(req')
  <1>1. req'[r] = x /\ \A q \in Reqs : q # r => req'[q] = req[q]
    BY DEF NodeTyped
  <1> QED
    BY <1>1 DEF ReqsKept, AnsweredAsDue

LEMMA ReqsSame == ASSUME req' = req, AnsweredAsDue(req) PROVE ReqsKept /\ AnsweredAsDue(req')
  BY DEF ReqsKept, AnsweredAsDue

LEMMA ReplayRoutes == ASSUME NodeTyped, ReplayInv, RouteStep PROVE ReplayInv'
  <1>0. NodeTyped' /\ AnsweredAsDue(req)
    BY RouteTyped DEF ReplayInv
  <1>1. ASSUME NEW r \in Reqs, NEW x \in NativeItem, NEW h, RouteTell(r, x, h), x.op # "cancel",
               h.told = hist.told, [watch |-> h.watch, cancel |-> h.tokens, dir |-> h.dir, told |-> h.due] = Taken(Promised, x),
               h.due = hist.due
        PROVE  ReplayInv'
    <2>1. req[r].out = "none" /\ native' = native
      BY <1>1 DEF RouteTell, Fresh
    <2>2. CASE req' = [req EXCEPT ![r].out = "error"] /\ UNCHANGED <<box, hist>>
      <3>0. Routed(r, "error")
        BY <2>2 DEF Routed
      <3>1. ReqsKept /\ AnsweredAsDue(req')
        BY <1>0, <1>1, <2>1, <3>0, ReqRoutedOut, PlainOutcomes
      <3>2. InForce' = InForce /\ Promised' = Promised
        BY <2>1, <2>2 DEF InForce, Promised
      <3> QED
        BY <2>2, <3>1, <3>2, ReplayStay
    <2>3. CASE box' = Append(box, x) /\ req' = [req EXCEPT ![r].out = "acknowledged"] /\ hist' = h
      <3>0. Routed(r, "acknowledged")
        BY <2>3 DEF Routed
      <3>1. ReqsKept /\ AnsweredAsDue(req')
        BY <1>0, <1>1, <2>1, <3>0, ReqRoutedOut, PlainOutcomes
      <3>2. Promised' = Taken(Promised, x)
        BY <1>1, <2>3 DEF Promised
      <3> QED
        BY <1>0, <1>1, <2>1, <2>3, <3>1, <3>2, ReplayAppend
    <2> QED
      BY <1>1, <2>2, <2>3 DEF RouteTell
  <1>2. ASSUME NEW x \in NativeItem, NEW h, Direct(x, h), x.op # "cancel",
               h.told = hist.told, [watch |-> h.watch, cancel |-> h.tokens, dir |-> h.dir, told |-> h.due] = Taken(Promised, x),
               h.due = hist.due \/ \E z \in WatchType : h.due = Append(hist.due, z)
        PROVE  ReplayInv'
    <2>1. box' = Append(box, x) /\ req' = req /\ hist' = h /\ native' = native
      BY <1>2 DEF Direct
    <2>2. ReqsKept /\ AnsweredAsDue(req')
      BY <1>0, <2>1, ReqsSame
    <2>3. Promised' = Taken(Promised, x)
      BY <1>2, <2>1 DEF Promised
    <2> QED
      BY <1>0, <1>2, <2>1, <2>2, <2>3, ReplayAppend
  <1>3. ASSUME NEW r \in Reqs, NEW t \in Targets, NEW w \in Watchers, RouteWatch(r, t, w)
        PROVE  ReplayInv'
    <2> DEFINE x == [op |-> "watch", t |-> t, w |-> w]
               y == [op |-> "unwatch", t |-> t, w |-> w]
               a == hist.watch \cup {<<t, w>>}
               b == hist.watch \ {<<t, w>>}
               g == [hist EXCEPT !.watch = a]
               h == [hist EXCEPT !.watch = b]
    <2>1. x \in NativeItem /\ y \in NativeItem
      BY NativeItemMakers
    <2>2. SubscribeWatch(hist.watch, x.t, x.w) = a /\ UnsubscribeWatch(hist.watch, y.t, y.w) = b
      BY DEF SubscribeWatch, UnsubscribeWatch
    <2>4. x.op = "watch" /\ y.op = "unwatch" /\ (RouteTell(r, x, g) \/ RouteTell(r, y, h))
      BY <1>3 DEF RouteWatch
    <2> HIDE DEF x, y, a, b
    <2>3. /\ g.told = hist.told /\ g.due = hist.due /\ g.watch = a /\ g.tokens = hist.tokens /\ g.dir = hist.dir
          /\ h.told = hist.told /\ h.due = hist.due /\ h.watch = b /\ h.tokens = hist.tokens /\ h.dir = hist.dir
      BY DEF NodeTyped, HistType
    <2> HIDE DEF g, h
    <2>5. /\ [watch |-> g.watch, cancel |-> g.tokens, dir |-> g.dir, told |-> g.due] = [Promised EXCEPT !.watch = a]
          /\ [watch |-> h.watch, cancel |-> h.tokens, dir |-> h.dir, told |-> h.due] = [Promised EXCEPT !.watch = b]
      BY <2>3 DEF Promised
    <2>6. /\ Taken(Promised, x) = [Promised EXCEPT !.watch = a]
          /\ Taken(Promised, y) = [Promised EXCEPT !.watch = b]
      <3>1. /\ Taken(Promised, x) = [Promised EXCEPT !.watch = SubscribeWatch(Promised.watch, x.t, x.w)]
            /\ Taken(Promised, y) = [Promised EXCEPT !.watch = UnsubscribeWatch(Promised.watch, y.t, y.w)]
        BY <2>4 DEF Taken
      <3> QED
        BY <2>2, <3>1, ReplayStates
    <2>7. x.op # "cancel" /\ y.op # "cancel"
      BY <2>4
    <2> QED
      BY <1>1, <2>1, <2>3, <2>4, <2>5, <2>6, <2>7
  <1>4. ASSUME NEW r \in Reqs, NEW p \in Peers, NEW address \in Addrs \cup {Nil}, RoutePeer(r, p, address)
        PROVE  ReplayInv'
    <2> DEFINE x == [op |-> "connect", p |-> p, address |-> address]
               y == [op |-> "disconnect", p |-> p]
               g == [hist EXCEPT !.dir[p] = PromisedEntry(p, address)]
               h == [hist EXCEPT !.dir[p].status = IF @ = "none" THEN @ ELSE "disconnected"]
    <2>1. x \in NativeItem /\ y \in NativeItem
      BY NativeItemMakers
    <2>0. hist \in HistType /\ hist.dir \in DirType /\ Promised \in ReplayType /\ Promised.dir = hist.dir
      BY ReplayStates DEF NodeTyped, HistType
    <2>2. /\ g.told = hist.told /\ g.due = hist.due
          /\ [watch |-> g.watch, cancel |-> g.tokens, dir |-> g.dir, told |-> g.due] =
                [Promised EXCEPT !.dir = Connected(Promised.dir, x.p, x.address)]
      <3>1. Connected(hist.dir, p, address) = [hist.dir EXCEPT ![p] = PromisedEntry(p, address)]
        BY <2>0, ConnectedIs DEF PromisedEntry
      <3> DEFINE d == [hist.dir EXCEPT ![p] = PromisedEntry(p, address)]
      <3>2. g = [hist EXCEPT !.dir = d]
        OBVIOUS
      <3> HIDE DEF d, g
      <3>3. g.told = hist.told /\ g.due = hist.due /\ g.watch = hist.watch /\ g.tokens = hist.tokens /\ g.dir = d
        BY <2>0, <3>2 DEF HistType
      <3>4. [watch |-> g.watch, cancel |-> g.tokens, dir |-> g.dir, told |-> g.due] = [Promised EXCEPT !.dir = d]
        BY <3>3 DEF Promised
      <3>5. Connected(Promised.dir, x.p, x.address) = d
        BY <2>0, <3>1 DEF d
      <3> QED
        BY <3>3, <3>4, <3>5
    <2>3. /\ h.told = hist.told /\ h.due = hist.due
          /\ [watch |-> h.watch, cancel |-> h.tokens, dir |-> h.dir, told |-> h.due] =
                [Promised EXCEPT !.dir = Disconnected(Promised.dir, y.p)]
      <3> DEFINE st == IF hist.dir[p].status = "none" THEN "none" ELSE "disconnected"
                 d == [hist.dir EXCEPT ![p].status = st]
      <3>1. Disconnected(hist.dir, p) = d
        <4>1. hist.dir[p] \in PeerType
          BY <2>0 DEF DirType
        <4>2. CASE hist.dir[p].status = "none"
          <5>1. [hist.dir[p] EXCEPT !.status = "none"] = hist.dir[p]
            BY <4>1, <4>2 DEF PeerType
          <5>2. d = hist.dir
            BY <2>0, <4>2, <5>1 DEF DirType
          <5> QED
            BY <2>0, <4>2, <5>2, DisconnectedIs
        <4>3. CASE hist.dir[p].status # "none"
          <5>1. [hist.dir[p] EXCEPT !.status = "disconnected"] = [status |-> "disconnected", address |-> hist.dir[p].address]
            BY <4>1 DEF PeerType
          <5>2. d = [hist.dir EXCEPT ![p] = [status |-> "disconnected", address |-> hist.dir[p].address]]
            BY <4>3, <5>1
          <5> QED
            BY <2>0, <4>3, <5>2, DisconnectedIs
        <4> QED
          BY <4>2, <4>3
      <3>2. h = [hist EXCEPT !.dir = d]
        OBVIOUS
      <3> HIDE DEF d, h
      <3>3. h.told = hist.told /\ h.due = hist.due /\ h.watch = hist.watch /\ h.tokens = hist.tokens /\ h.dir = d
        BY <2>0, <3>2 DEF HistType
      <3>4. [watch |-> h.watch, cancel |-> h.tokens, dir |-> h.dir, told |-> h.due] = [Promised EXCEPT !.dir = d]
        BY <3>3 DEF Promised
      <3>5. Disconnected(Promised.dir, y.p) = d
        BY <2>0, <3>1
      <3> QED
        BY <3>3, <3>4, <3>5
    <2>4. x.op = "connect" /\ y.op = "disconnect" /\ (RouteTell(r, x, g) \/ RouteTell(r, y, h))
      BY <1>4 DEF RoutePeer
    <2> HIDE DEF x, y, g, h
    <2>5. /\ Taken(Promised, x) = [Promised EXCEPT !.dir = Connected(Promised.dir, x.p, x.address)]
          /\ Taken(Promised, y) = [Promised EXCEPT !.dir = Disconnected(Promised.dir, y.p)]
      BY <2>4 DEF Taken
    <2> QED
      BY <1>1, <2>1, <2>2, <2>3, <2>4, <2>5
  <1>5. ASSUME NEW r \in Reqs, NEW k \in Keys, RouteCancel(r, k)
        PROVE  ReplayInv'
    <2> DEFINE x == [op |-> "cancel", k |-> k, req |-> r]
               due == IF hist.tokens[k] = Nil THEN "not found" ELSE "cancelled"
               z == [req[r] EXCEPT !.out = "awaiting", !.due = due]
    <2>1. x \in NativeItem /\ x.op = "cancel" /\ x.req = r /\ x.k = k
      BY NativeItemMakers
    <2>2. req[r].out = "none" /\ native' = native
      BY <1>5 DEF RouteCancel, Fresh
    <2>3. CASE req' = [req EXCEPT ![r].out = "error"] /\ UNCHANGED <<box, hist>>
      <3>0. Routed(r, "error")
        BY <2>3 DEF Routed
      <3>1. ReqsKept /\ AnsweredAsDue(req')
        BY <1>0, <1>5, <2>2, <3>0, ReqRoutedOut, PlainOutcomes
      <3>2. InForce' = InForce /\ Promised' = Promised
        BY <2>2, <2>3 DEF InForce, Promised
      <3> QED
        BY <2>3, <3>1, <3>2, ReplayStay
    <2>4. CASE /\ box' = Append(box, x) /\ hist' = [hist EXCEPT !.tokens[k] = Nil]
               /\ req' = [req EXCEPT ![r].out = "awaiting", ![r].due = due]
      <3>1. z.out = "awaiting" /\ z.due = due
        BY DEF NodeTyped, ReqType
      <3>2. req' = [req EXCEPT ![r] = z]
        BY <2>4
      <3> HIDE DEF z, due
      <3>3. req'[r] = z
        BY <3>2 DEF NodeTyped
      <3>4. ReqsKept /\ AnsweredAsDue(req')
        BY <1>0, <2>2, <3>1, <3>2, ReqRouted
      <3> DEFINE tk == [hist.tokens EXCEPT ![k] = Nil]
      <3>5. hist' = [hist EXCEPT !.tokens = tk] /\ hist \in HistType
        BY <2>4 DEF NodeTyped
      <3>6. Cancel(hist.tokens, k).answer = due /\ Cancel(hist.tokens, k).left = tk
        BY DEF Cancel, RemoveToken, due
      <3> HIDE DEF tk
      <3>7. /\ hist'.told = hist.told /\ hist'.due = hist.due /\ hist'.watch = hist.watch /\ hist'.dir = hist.dir
            /\ hist'.tokens = tk
        BY <3>5 DEF HistType
      <3>8. Promised' = [Promised EXCEPT !.cancel = tk]
        BY <3>7 DEF Promised
      <3>9. Taken(Promised, x) = [Promised EXCEPT !.cancel = tk]
        <4>1. Taken(Promised, x) = [Promised EXCEPT !.cancel = Cancel(Promised.cancel, x.k).left]
          BY <2>1 DEF Taken
        <4> QED
          BY <2>1, <3>6, <4>1, ReplayStates
      <3> HIDE DEF x
      <3> QED
        BY <1>0, <2>1, <2>2, <2>4, <3>1, <3>3, <3>4, <3>6, <3>7, <3>8, <3>9, ReplayAppend
    <2> QED
      BY <1>5, <2>3, <2>4 DEF RouteCancel
  <1>6. ASSUME NEW t \in Targets, DirectTerminated(t)
        PROVE  ReplayInv'
    <2> DEFINE x == [op |-> "terminated", t |-> t]
               gone == {s \in hist.watch : s[1] = t}
               left == {s \in hist.watch : s[1] # t}
               more == Append(hist.due, gone)
               h == [hist EXCEPT !.watch = left, !.due = more]
    <2>1. x \in NativeItem /\ x.op = "terminated" /\ x.t = t
      BY NativeItemMakers
    <2>2. Direct(x, h)
      BY <1>6 DEF DirectTerminated
    <2>3. gone \in WatchType
      BY DEF NodeTyped, HistType, WatchType
    <2>4. OnTerminated(hist.watch, t).left = left /\ OnTerminated(hist.watch, t).notify = gone
      BY DEF OnTerminated
    <2> HIDE DEF gone, left, x, more
    <2>5. h.told = hist.told /\ h.due = more /\ h.watch = left /\ h.tokens = hist.tokens /\ h.dir = hist.dir
      BY DEF NodeTyped, HistType
    <2> HIDE DEF h
    <2>6. [watch |-> h.watch, cancel |-> h.tokens, dir |-> h.dir, told |-> h.due] =
             [Promised EXCEPT !.watch = left, !.told = more]
      <3> DEFINE mid == [watch |-> left, cancel |-> hist.tokens, dir |-> hist.dir, told |-> hist.due]
      <3>1. [Promised EXCEPT !.watch = left] = mid
        BY DEF Promised
      <3>2. [mid EXCEPT !.told = more] = [watch |-> left, cancel |-> hist.tokens, dir |-> hist.dir, told |-> more]
        OBVIOUS
      <3> HIDE DEF mid
      <3>3. [Promised EXCEPT !.watch = left, !.told = more] = [mid EXCEPT !.told = more]
        BY <3>1
      <3> QED
        BY <2>5, <3>2, <3>3
    <2>7. Taken(Promised, x) = [Promised EXCEPT !.watch = left, !.told = more]
      <3>1. Taken(Promised, x) = [Promised EXCEPT !.watch = OnTerminated(Promised.watch, x.t).left,
                                      !.told = Append(Promised.told, OnTerminated(Promised.watch, x.t).notify)]
        BY <2>1 DEF Taken
      <3> QED
        BY <2>1, <2>4, <3>1, ReplayStates DEF more
    <2>8. x.op # "cancel" /\ \E z \in WatchType : h.due = Append(hist.due, z)
      BY <2>1, <2>3, <2>5 DEF more
    <2> QED
      BY <1>2, <2>1, <2>2, <2>5, <2>6, <2>7, <2>8
  <1>7. ASSUME NEW k \in Keys, DirectToken(k)
        PROVE  ReplayInv'
    <2>0. moves \in Nat
      BY SystemNodeAssumption DEF NodeTyped
    <2> DEFINE x == [op |-> "token", k |-> k, token |-> moves]
               y == [op |-> "complete", k |-> k]
               a == [hist.tokens EXCEPT ![k] = moves]
               b == [hist.tokens EXCEPT ![k] = Nil]
               g == [hist EXCEPT !.tokens = a]
               h == [hist EXCEPT !.tokens = b]
    <2>1. /\ x \in NativeItem /\ x.op = "token" /\ x.k = k /\ x.token = moves
          /\ y \in NativeItem /\ y.op = "complete" /\ y.k = k
      BY <2>0, NativeItemMakers
    <2>2. Direct(x, g) \/ Direct(y, h)
      BY <1>7 DEF DirectToken
    <2>3. RegisterToken(hist.tokens, k, moves) = a /\ RemoveToken(hist.tokens, k) = b
      BY DEF RegisterToken, RemoveToken
    <2> HIDE DEF a, b, x, y
    <2>4. /\ g.told = hist.told /\ g.due = hist.due /\ g.watch = hist.watch /\ g.tokens = a /\ g.dir = hist.dir
          /\ h.told = hist.told /\ h.due = hist.due /\ h.watch = hist.watch /\ h.tokens = b /\ h.dir = hist.dir
      BY DEF NodeTyped, HistType
    <2> HIDE DEF g, h
    <2>5. /\ [watch |-> g.watch, cancel |-> g.tokens, dir |-> g.dir, told |-> g.due] = [Promised EXCEPT !.cancel = a]
          /\ [watch |-> h.watch, cancel |-> h.tokens, dir |-> h.dir, told |-> h.due] = [Promised EXCEPT !.cancel = b]
      BY <2>4 DEF Promised
    <2>6. /\ Taken(Promised, x) = [Promised EXCEPT !.cancel = a]
          /\ Taken(Promised, y) = [Promised EXCEPT !.cancel = b]
      <3>1. /\ Taken(Promised, x) = [Promised EXCEPT !.cancel = RegisterToken(Promised.cancel, x.k, x.token)]
            /\ Taken(Promised, y) = [Promised EXCEPT !.cancel = RemoveToken(Promised.cancel, y.k)]
        BY <2>1 DEF Taken
      <3> QED
        BY <2>1, <2>3, <3>1, ReplayStates
    <2> QED
      BY <1>2, <2>1, <2>2, <2>4, <2>5, <2>6
  <1>8. ASSUME NEW r \in Reqs, GiveUp(r)
        PROVE  ReplayInv'
    <2>1. req' = [req EXCEPT ![r].out = "given up"] /\ UNCHANGED <<box, hist, native>> /\ req[r].out = "awaiting"
      BY <1>8 DEF GiveUp
    <2>2. req'[r].out = "given up" /\ req'[r].due = req[r].due /\ \A q \in Reqs : q # r => req'[q] = req[q]
      BY <2>1 DEF NodeTyped, ReqType
    <2>3. ReqsKept /\ AnsweredAsDue(req')
      BY <1>0, <2>2 DEF ReqsKept, AnsweredAsDue
    <2>4. InForce' = InForce /\ Promised' = Promised
      BY <2>1 DEF InForce, Promised
    <2> QED
      BY <2>1, <2>3, <2>4, ReplayStay
  <1> QED
    BY <1>3, <1>4, <1>5, <1>6, <1>7, <1>8 DEF RouteStep

\* What a change of one manager makes of the state in force.
LEMMA ForceChanged ==
    ASSUME NodeTyped, NEW a
    PROVE  /\ native' = [native EXCEPT !.watch = a] /\ hist'.told = hist.told => InForce' = [InForce EXCEPT !.watch = a]
           /\ native' = [native EXCEPT !.cancel = a] /\ hist'.told = hist.told => InForce' = [InForce EXCEPT !.cancel = a]
           /\ native' = [native EXCEPT !.dir = a] /\ hist'.told = hist.told => InForce' = [InForce EXCEPT !.dir = a]
  <1>0. native \in NativeType
    BY DEF NodeTyped
  <1>1. ASSUME native' = [native EXCEPT !.watch = a], hist'.told = hist.told PROVE InForce' = [InForce EXCEPT !.watch = a]
    <2>1. native'.watch = a /\ native'.cancel = native.cancel /\ native'.dir = native.dir
      BY <1>0, <1>1 DEF NativeType
    <2> QED
      BY <1>1, <2>1 DEF InForce
  <1>2. ASSUME native' = [native EXCEPT !.cancel = a], hist'.told = hist.told PROVE InForce' = [InForce EXCEPT !.cancel = a]
    <2>1. native'.watch = native.watch /\ native'.cancel = a /\ native'.dir = native.dir
      BY <1>0, <1>2 DEF NativeType
    <2> QED
      BY <1>2, <2>1 DEF InForce
  <1>3. ASSUME native' = [native EXCEPT !.dir = a], hist'.told = hist.told PROVE InForce' = [InForce EXCEPT !.dir = a]
    <2>1. native'.watch = native.watch /\ native'.cancel = native.cancel /\ native'.dir = a
      BY <1>0, <1>3 DEF NativeType
    <2> QED
      BY <1>3, <2>1 DEF InForce
  <1> QED
    BY <1>1, <1>2, <1>3

LEMMA ReplayNative == ASSUME NodeTyped, NodeTyped', ReplayInv, NativeStep PROVE ReplayInv'
  <1> DEFINE x == Head(box)
  <1>0. AnsweredAsDue(req)
    BY DEF ReplayInv
  <1>1. ASSUME NEW op, Handles(op), InForce' = Taken(InForce, x), Promised' = Promised, hist'.due = hist.due, req' = req
        PROVE  ReplayInv'
    <2>1. ReqsKept /\ AnsweredAsDue(req')
      BY <1>0, <1>1, ReqsSame
    <2> QED
      BY <1>1, <2>1, ReplayTail DEF Handles
  <1>s. /\ InForce.watch = native.watch /\ InForce.cancel = native.cancel
        /\ InForce.dir = native.dir /\ InForce.told = hist.told
    BY ReplayStates
  <1>2. CASE WatchManagerActor
    <2>0. req' = req
      BY <1>2 DEF WatchManagerActor
    <2>1. CASE /\ Handles("watch") /\ native' = [native EXCEPT !.watch = SubscribeWatch(native.watch, x.t, x.w)] /\ hist' = hist
      <3> DEFINE a == SubscribeWatch(native.watch, x.t, x.w)
      <3>1. x.op = "watch"
        BY <2>1 DEF Handles
      <3> HIDE DEF x
      <3>2. Taken(InForce, x) = [InForce EXCEPT !.watch = SubscribeWatch(InForce.watch, x.t, x.w)]
        BY <3>1 DEF Taken
      <3> HIDE DEF a
      <3>3. InForce' = [InForce EXCEPT !.watch = a]
        BY <2>1, ForceChanged DEF a
      <3>4. InForce' = Taken(InForce, x)
        BY <1>s, <3>2, <3>3 DEF a
      <3> QED
        BY <1>1, <2>0, <2>1, <3>4 DEF Promised
    <2>2. CASE /\ Handles("unwatch") /\ native' = [native EXCEPT !.watch = UnsubscribeWatch(native.watch, x.t, x.w)]
               /\ hist' = hist
      <3> DEFINE a == UnsubscribeWatch(native.watch, x.t, x.w)
      <3>1. x.op = "unwatch"
        BY <2>2 DEF Handles
      <3> HIDE DEF x
      <3>2. Taken(InForce, x) = [InForce EXCEPT !.watch = UnsubscribeWatch(InForce.watch, x.t, x.w)]
        BY <3>1 DEF Taken
      <3> HIDE DEF a
      <3>3. InForce' = [InForce EXCEPT !.watch = a]
        BY <2>2, ForceChanged DEF a
      <3>4. InForce' = Taken(InForce, x)
        BY <1>s, <3>2, <3>3 DEF a
      <3> QED
        BY <1>1, <2>0, <2>2, <3>4 DEF Promised
    <2>3. CASE /\ Handles("terminated") /\ native' = [native EXCEPT !.watch = OnTerminated(native.watch, x.t).left]
               /\ hist' = [hist EXCEPT !.told = Append(hist.told, OnTerminated(native.watch, x.t).notify)]
      <3> DEFINE left == OnTerminated(native.watch, x.t).left
                 more == Append(hist.told, OnTerminated(native.watch, x.t).notify)
                 mid == [watch |-> left, cancel |-> native.cancel, dir |-> native.dir, told |-> hist.told]
      <3>1. x.op = "terminated"
        BY <2>3 DEF Handles
      <3> HIDE DEF x, left, more, mid
      <3>2. Taken(InForce, x) = [InForce EXCEPT !.watch = OnTerminated(InForce.watch, x.t).left,
                                     !.told = Append(InForce.told, OnTerminated(InForce.watch, x.t).notify)]
        BY <3>1 DEF Taken
      <3>3. Taken(InForce, x) = [InForce EXCEPT !.watch = left, !.told = more]
        BY <1>s, <3>2 DEF left, more
      <3>4. hist' = [hist EXCEPT !.told = more] /\ native' = [native EXCEPT !.watch = left]
        BY <2>3 DEF left, more
      <3>5. /\ hist'.told = more /\ hist'.watch = hist.watch /\ hist'.tokens = hist.tokens /\ hist'.dir = hist.dir
            /\ hist'.due = hist.due
        BY <3>4 DEF NodeTyped, HistType
      <3>6. native'.watch = left /\ native'.cancel = native.cancel /\ native'.dir = native.dir
        BY <3>4 DEF NodeTyped, NativeType
      <3>7. InForce' = [watch |-> left, cancel |-> native.cancel, dir |-> native.dir, told |-> more]
        BY <3>5, <3>6 DEF InForce
      <3>8. [InForce EXCEPT !.watch = left] = mid
        BY DEF InForce, mid
      <3>9. [mid EXCEPT !.told = more] = [watch |-> left, cancel |-> native.cancel, dir |-> native.dir, told |-> more]
        BY DEF mid
      <3>10. [InForce EXCEPT !.watch = left, !.told = more] = [mid EXCEPT !.told = more]
        BY <3>8
      <3>11. InForce' = Taken(InForce, x)
        BY <3>3, <3>7, <3>9, <3>10
      <3>12. Promised' = Promised
        BY <3>5 DEF Promised
      <3> QED
        BY <1>1, <2>0, <2>3, <3>5, <3>11, <3>12
    <2> QED
      BY <1>2, <2>1, <2>2, <2>3 DEF WatchManagerActor
  <1>3. CASE CancelManagerActor
    <2>1. CASE /\ Handles("token") /\ native' = [native EXCEPT !.cancel = RegisterToken(native.cancel, x.k, x.token)]
               /\ hist' = hist /\ req' = req
      <3> DEFINE a == RegisterToken(native.cancel, x.k, x.token)
      <3>1. x.op = "token"
        BY <2>1 DEF Handles
      <3> HIDE DEF x
      <3>2. Taken(InForce, x) = [InForce EXCEPT !.cancel = RegisterToken(InForce.cancel, x.k, x.token)]
        BY <3>1 DEF Taken
      <3> HIDE DEF a
      <3>3. InForce' = [InForce EXCEPT !.cancel = a]
        BY <2>1, ForceChanged DEF a
      <3>4. InForce' = Taken(InForce, x)
        BY <1>s, <3>2, <3>3 DEF a
      <3> QED
        BY <1>1, <2>1, <3>4 DEF Promised
    <2>2. CASE /\ Handles("complete") /\ native' = [native EXCEPT !.cancel = RemoveToken(native.cancel, x.k)]
               /\ hist' = hist /\ req' = req
      <3> DEFINE a == RemoveToken(native.cancel, x.k)
      <3>1. x.op = "complete"
        BY <2>2 DEF Handles
      <3> HIDE DEF x
      <3>2. Taken(InForce, x) = [InForce EXCEPT !.cancel = RemoveToken(InForce.cancel, x.k)]
        BY <3>1 DEF Taken
      <3> HIDE DEF a
      <3>3. InForce' = [InForce EXCEPT !.cancel = a]
        BY <2>2, ForceChanged DEF a
      <3>4. InForce' = Taken(InForce, x)
        BY <1>s, <3>2, <3>3 DEF a
      <3> QED
        BY <1>1, <2>2, <3>4 DEF Promised
    <2>3. CASE /\ Handles("cancel") /\ native' = [native EXCEPT !.cancel = Cancel(native.cancel, x.k).left]
               /\ req' = [req EXCEPT ![x.req] = Answered(x.req, Cancel(native.cancel, x.k).answer)]
               /\ hist' = [hist EXCEPT !.cancelled = @ \cup ({Cancel(native.cancel, x.k).token} \ {Nil})]
      <3> DEFINE a == Cancel(native.cancel, x.k).left
                 ans == Cancel(native.cancel, x.k).answer
                 y == Answered(x.req, ans)
                 c == hist.cancelled \cup ({Cancel(native.cancel, x.k).token} \ {Nil})
      <3>1. x.op = "cancel" /\ box # <<>> /\ box' = Tail(box)
        BY <2>3 DEF Handles
      <3>2. x = box[1] /\ 1 \in 1..Len(box) /\ x \in NativeItem
        BY <3>1, HeadTailProperties DEF NodeTyped
      <3>3. x.req \in Reqs /\ x.k \in Keys
        BY <3>1, <3>2, NativeItemParts
      <3> HIDE DEF x
      <3>4. Taken(InForce, x) = [InForce EXCEPT !.cancel = Cancel(InForce.cancel, x.k).left]
        BY <3>1 DEF Taken
      <3>5. ans \in {"cancelled", "not found"}
        BY DEF Cancel
      <3>6. ans = req[x.req].due
        <4>1. PICK S : Leads(S, InForce, box, Promised) /\ AnswersDue(S, box, req)
          BY DEF ReplayInv
        <4>2. S[0] = InForce
          BY <4>1 DEF Leads
        <4>3. 1 - 1 = 0
          OBVIOUS
        <4>4. req[x.req].due = Cancel(S[1 - 1].cancel, x.k).answer
          BY <3>1, <3>2, <4>1 DEF AnswersDue
        <4> QED
          BY <1>s, <4>2, <4>3, <4>4
      <3> HIDE DEF a, ans, c
      <3>7. ans \in Outcomes /\ ans # "none"
        BY <3>5 DEF Outcomes
      <3>8. y.due = req[x.req].due /\ y.out = IF req[x.req].out = "awaiting" THEN ans ELSE req[x.req].out
        BY <3>3, <3>7, AnsweredType DEF NodeTyped
      <3>9. req' = [req EXCEPT ![x.req] = y]
        BY <2>3 DEF ans
      <3> HIDE DEF y
      <3>10. ReqsKept /\ AnsweredAsDue(req')
        BY <1>0, <3>3, <3>6, <3>7, <3>8, <3>9, ReqAnswered
      <3>11. hist' = [hist EXCEPT !.cancelled = c] /\ native' = [native EXCEPT !.cancel = a]
        BY <2>3 DEF c, a
      <3>12. /\ hist'.told = hist.told /\ hist'.due = hist.due /\ hist'.watch = hist.watch /\ hist'.dir = hist.dir
             /\ hist'.tokens = hist.tokens
        BY <3>11 DEF NodeTyped, HistType
      <3>13. InForce' = [InForce EXCEPT !.cancel = a] /\ Promised' = Promised
        BY <3>11, <3>12, ForceChanged DEF Promised
      <3>14. InForce' = Taken(InForce, x)
        BY <1>s, <3>4, <3>13 DEF a
      <3> QED
        BY <3>1, <3>10, <3>12, <3>13, <3>14, ReplayTail DEF x
    <2> QED
      BY <1>3, <2>1, <2>2, <2>3 DEF CancelManagerActor
  <1>4. CASE NodeDirectoryActor
    <2>0. req' = req /\ hist' = hist
      BY <1>4 DEF NodeDirectoryActor
    <2>1. CASE Handles("connect") /\ native' = [native EXCEPT !.dir = Connected(native.dir, x.p, x.address)]
      <3> DEFINE a == Connected(native.dir, x.p, x.address)
      <3>1. x.op = "connect"
        BY <2>1 DEF Handles
      <3> HIDE DEF x
      <3>2. Taken(InForce, x) = [InForce EXCEPT !.dir = Connected(InForce.dir, x.p, x.address)]
        BY <3>1 DEF Taken
      <3> HIDE DEF a
      <3>3. InForce' = [InForce EXCEPT !.dir = a]
        BY <2>0, <2>1, ForceChanged DEF a
      <3>4. InForce' = Taken(InForce, x)
        BY <1>s, <3>2, <3>3 DEF a
      <3> QED
        BY <1>1, <2>0, <2>1, <3>4 DEF Promised
    <2>2. CASE Handles("disconnect") /\ native' = [native EXCEPT !.dir = Disconnected(native.dir, x.p)]
      <3> DEFINE a == Disconnected(native.dir, x.p)
      <3>1. x.op = "disconnect"
        BY <2>2 DEF Handles
      <3> HIDE DEF x
      <3>2. Taken(InForce, x) = [InForce EXCEPT !.dir = Disconnected(InForce.dir, x.p)]
        BY <3>1 DEF Taken
      <3> HIDE DEF a
      <3>3. InForce' = [InForce EXCEPT !.dir = a]
        BY <2>0, <2>2, ForceChanged DEF a
      <3>4. InForce' = Taken(InForce, x)
        BY <1>s, <3>2, <3>3 DEF a
      <3> QED
        BY <1>1, <2>0, <2>2, <3>4 DEF Promised
    <2> QED
      BY <1>4, <2>1, <2>2 DEF NodeDirectoryActor
  <1> QED
    BY <1>2, <1>3, <1>4 DEF NativeStep

\* A spawn is answered with what no cancel is answered with.
LEMMA ReplaySpawns == ASSUME NodeTyped, ReplayInv, SpawningStep PROVE ReplayInv'
  <1>0. AnsweredAsDue(req)
    BY DEF ReplayInv
  <1>1. box' = box /\ native' = native
    BY DEF SpawningStep, StartSystemActors, SpawnLocal, RegisterFactory, HandleSpawnRequest, RouteSpawn, WorkerRegisters,
           WorkerSpawns
  <1>2. /\ hist'.watch = hist.watch /\ hist'.tokens = hist.tokens /\ hist'.dir = hist.dir
        /\ hist'.due = hist.due /\ hist'.told = hist.told
    <2>1. hist' = hist \/ (\E a : hist' = [hist EXCEPT !.local = a]) \/ (\E a : hist' = [hist EXCEPT !.since = a])
      BY DEF SpawningStep, StartSystemActors, SpawnLocal, RegisterFactory, HandleSpawnRequest, RouteSpawn, WorkerRegisters,
             WorkerSpawns
    <2> QED
      BY <2>1 DEF NodeTyped, HistType
  <1>3. InForce' = InForce /\ Promised' = Promised
    BY <1>1, <1>2 DEF InForce, Promised
  <1>4. ReqsKept /\ AnsweredAsDue(req')
    <2>1. CASE req' = req
      BY <1>0, <2>1, ReqsSame
    <2>2. ASSUME NEW r \in Reqs, NEW ty \in Types, RouteSpawn(r, ty)
          PROVE  ReqsKept /\ AnsweredAsDue(req')
      <3> DEFINE due == CASE ty \in hist.since -> "known"
                          [] ty \in mgr.spawn.factories -> "known before start"
                          [] OTHER -> "unknown"
                 a == [out |-> "error", id |-> 0, due |-> due]
                 b == [out |-> "awaiting", id |-> 0, due |-> due]
      <3>1. req[r].out = "none" /\ (req' = [req EXCEPT ![r] = a] \/ req' = [req EXCEPT ![r] = b])
        BY <2>2 DEF RouteSpawn, Fresh
      <3> HIDE DEF due
      <3>2. a.out \notin {"none", "cancelled", "not found"} /\ b.out \notin {"none", "cancelled", "not found"}
        OBVIOUS
      <3> HIDE DEF a, b
      <3> QED
        BY <1>0, <3>1, <3>2, ReqRouted
    <2>3. ASSUME NEW w \in DOMAIN workers, WorkerSpawns(w)
          PROVE  ReqsKept /\ AnsweredAsDue(req')
      <3> DEFINE item == Head(workers[w].box)
      <3>1. item.req \in Reqs
        BY <2>3, WorkerItems, WorkerTypes DEF WorkerSpawns, NodeTyped, WorkersOK
      <3> HIDE DEF item
      <3> DEFINE r == item.req
      <3> HIDE DEF r
      <3>2. r \in Reqs
        BY <3>1 DEF r
      <3>3. \A out \in {"completed", "bad arguments", "unknown type", "error"} : out \in Outcomes /\ Plain(out) /\ out # "none"
        BY DEF Outcomes, Plain
      <3>4. ASSUME NEW out \in {"completed", "bad arguments", "unknown type", "error"}, NEW x,
                   x.out = IF req[r].out = "awaiting" THEN out ELSE req[r].out, x.due = req[r].due,
                   req' = [req EXCEPT ![r] = x]
            PROVE  ReqsKept /\ AnsweredAsDue(req')
        <4>1. out # "none" /\ (out \in {"cancelled", "not found"} => out = req[r].due)
          BY <3>3 DEF Plain
        <4> QED
          BY <1>0, <3>2, <3>4, <4>1, ReqAnswered
      <3>t. req \in [Reqs -> ReqType]
        BY DEF NodeTyped
      <3>5. ASSUME NEW out \in {"completed", "bad arguments", "unknown type", "error"}, NEW q \in Reqs
            PROVE  /\ Answered(q, out).due = req[q].due
                   /\ Answered(q, out).out = IF req[q].out = "awaiting" THEN out ELSE req[q].out
                   /\ \A n \in Nat : /\ [Answered(q, out) EXCEPT !.id = n].due = req[q].due
                                     /\ [Answered(q, out) EXCEPT !.id = n].out =
                                           IF req[q].out = "awaiting" THEN out ELSE req[q].out
        <4>1. out \in Outcomes
          BY <3>3
        <4> QED
          BY <3>t, <4>1, AnsweredType
      <3>6. CASE req' = [req EXCEPT ![r] = [Answered(r, "completed") EXCEPT !.id = next]]
        <4> DEFINE x == [Answered(r, "completed") EXCEPT !.id = next]
        <4>1. next \in Nat
          BY SystemNodeAssumption DEF NodeTyped
        <4>2. x.out = (IF req[r].out = "awaiting" THEN "completed" ELSE req[r].out) /\ x.due = req[r].due
          BY <3>2, <3>5, <4>1
        <4>3. req' = [req EXCEPT ![r] = x]
          BY <3>6
        <4> HIDE DEF x
        <4> QED
          BY <3>4, <4>2, <4>3
      <3>7. ASSUME NEW out \in {"bad arguments", "unknown type"}, req' = [req EXCEPT ![r] = Answered(r, out)]
            PROVE  ReqsKept /\ AnsweredAsDue(req')
        <4> DEFINE x == Answered(r, out)
        <4>1. x.out = (IF req[r].out = "awaiting" THEN out ELSE req[r].out) /\ x.due = req[r].due
          BY <3>2, <3>5
        <4>2. req' = [req EXCEPT ![r] = x]
          BY <3>7
        <4> HIDE DEF x
        <4> QED
          BY <3>4, <4>1, <4>2
      <3>8. CASE req' = [q \in Reqs |-> IF q \in DroppedReplies(w) THEN Answered(q, "error") ELSE req[q]]
        <4>1. ASSUME NEW q \in Reqs
              PROVE  /\ req'[q].due = req[q].due
                     /\ req'[q].out = req[q].out \/ (req[q].out = "awaiting" /\ req'[q].out = "error")
          <5>1. req'[q] = Answered(q, "error") \/ req'[q] = req[q]
            BY <3>8
          <5> QED
            BY <3>5, <5>1
        <4> QED
          BY <1>0, <4>1 DEF ReqsKept, AnsweredAsDue
      <3>9. \/ req' = [req EXCEPT ![r] = [Answered(r, "completed") EXCEPT !.id = next]]
            \/ \E out \in {"bad arguments", "unknown type"} : req' = [req EXCEPT ![r] = Answered(r, out)]
            \/ req' = [q \in Reqs |-> IF q \in DroppedReplies(w) THEN Answered(q, "error") ELSE req[q]]
        BY <2>3 DEF WorkerSpawns, item, r
      <3> QED
        BY <3>6, <3>7, <3>8, <3>9
    <2>4. \/ req' = req \/ (\E r \in Reqs, ty \in Types : RouteSpawn(r, ty)) \/ \E w \in DOMAIN workers : WorkerSpawns(w)
      BY DEF SpawningStep, StartSystemActors, SpawnLocal, RegisterFactory, HandleSpawnRequest, WorkerRegisters
    <2> QED
      BY <2>1, <2>2, <2>3, <2>4
  <1> QED
    BY <1>1, <1>2, <1>3, <1>4, ReplayStay

\* route_system_envelope and the native managers: what is acknowledged takes effect as
\* if at once, whatever else is routed before the manager gets to it.
THEOREM PromisesStayKept == NodeSpec => []NativeKeepsPromises
  <1>1. NodeInit => ReplayInv
    <2> SUFFICES ASSUME NEW ad, Create(ad), NodeTyped PROVE ReplayInv
      BY NodeInitTyped DEF NodeInit, RactorCreate, KameoCreate, CoerceCreate
    <2>1. AnsweredAsDue(req)
      BY DEF Create, AnsweredAsDue
    <2>2. Len(box) = 0
      BY DEF Create
    <2>3. /\ native.watch = {} /\ native.cancel = NewCancelManager /\ native.dir = NewNodeDirectory
          /\ hist.watch = {} /\ hist.tokens = NewCancelManager /\ hist.dir = NewNodeDirectory
          /\ hist.due = <<>> /\ hist.told = <<>>
      BY DEF Create, NewNative
    <2>4. InForce = Promised /\ InForce \in ReplayType /\ InForce.told = hist.due
      BY <2>3, ReplayStates DEF InForce, Promised
    <2> DEFINE S == [i \in 0..0 |-> InForce]
    <2>5. Leads(S, InForce, box, Promised)
      BY <2>2, <2>4 DEF Leads
    <2>6. AnswersDue(S, box, req)
      BY <2>2 DEF AnswersDue
    <2>7. IsPrefix(hist.due, hist.due)
      BY DEF IsPrefix, NodeTyped, HistType
    <2>8. WithinDue(S, box, hist.due)
      BY <2>2, <2>4, <2>7 DEF WithinDue
    <2> HIDE DEF S
    <2> QED
      BY <2>1, <2>5, <2>6, <2>8 DEF ReplayInv
  <1>2. NodeTyped /\ ReplayInv /\ [NodeNext]_nvars => ReplayInv'
    <2> SUFFICES ASSUME NodeTyped, ReplayInv, [NodeNext]_nvars PROVE ReplayInv'
      OBVIOUS
    <2>0. NodeTyped' /\ AnsweredAsDue(req)
      BY NodeKeepsTyped DEF ReplayInv
    <2>1. ASSUME box' = box, native' = native, hist' = hist, req' = req PROVE ReplayInv'
      <3>1. InForce' = InForce /\ Promised' = Promised /\ ReqsKept /\ AnsweredAsDue(req')
        BY <2>0, <2>1, ReqsSame DEF InForce, Promised
      <3> QED
        BY <2>1, <3>1, ReplayStay
    <2>2. CASE UNCHANGED nvars
      BY <2>1, <2>2 DEF nvars
    <2>3. CASE StructStep \/ PeerStep
      <3>1. box' = box /\ native' = native /\ hist' = hist /\ req' = req
        BY <2>3 DEF StructStep, RemoteWatch, RemoteUnwatch, NotifyTerminated, RegisterCancel, CancelRequest, CompleteRequest,
                    StructCall, PeerStep, ConnectAfterHandshake, ConnectPeer, DisconnectPeer, Deliver, Subscribe, Unsubscribe
      <3> QED
        BY <2>1, <3>1
    <2> QED
      BY <2>0, <2>2, <2>3, NodeSteps, ReplaySpawns, ReplayRoutes, ReplayNative
  <1> QED
    BY <1>1, <1>2, NodeInitTyped, NodeKeepsTyped, ReplayImplies, PTL DEF NodeSpec

-----------------------------------------------------------------------------
(***************************************************************************)
(* The ids of spawned actors.  Every id that some manager has recorded, or *)
(* a local spawn has taken, is below the counter that they share.          *)
(***************************************************************************)

\* The ids s are different from one another and below n.
IdList(s, n) == IsInjective(s) /\ \A x \in ToSet(s) : x < n

IdsApart(local, m, ls, n) ==
    /\ \A x \in local : x < n
    /\ IdList(m, n) /\ ToSet(m) \cap local = {}
    /\ \A w \in DOMAIN ls :
          /\ IdList(ls[w], n)
          /\ ToSet(ls[w]) \cap local = {} /\ ToSet(ls[w]) \cap ToSet(m) = {}
          /\ \A v \in DOMAIN ls \ {w} : ToSet(ls[w]) \cap ToSet(ls[v]) = {}

IdsTold(rq, ls) ==
    \A r \in Reqs : rq[r].out = "completed" =>
        /\ \E w \in DOMAIN ls : rq[r].id \in ToSet(ls[w])
        /\ \A q \in Reqs \ {r} : rq[q].out = "completed" => rq[r].id # rq[q].id

Lists == [w \in DOMAIN workers |-> workers[w].manager.spawned]

IdsInv == IdsApart(hist.local, mgr.spawn.spawned, Lists, next) /\ IdsTold(req, Lists)

LEMMA IdListAppend ==
    ASSUME NEW s \in Seq(Nat), NEW n \in Nat, IdList(s, n)
    PROVE  /\ IdList(Append(s, n), n + 1) /\ IdList(s, n + 1)
           /\ ToSet(Append(s, n)) = ToSet(s) \cup {n} /\ n \notin ToSet(s)
  <1> DEFINE t == Append(s, n)
  <1>1. t \in Seq(Nat) /\ Len(t) = Len(s) + 1 /\ t[Len(s) + 1] = n /\ \A i \in 1..Len(s) : t[i] = s[i]
    BY AppendProperties
  <1>2. Len(s) \in Nat /\ DOMAIN s = 1..Len(s) /\ DOMAIN t = 1..Len(s) + 1
    BY <1>1
  <1> HIDE DEF t
  <1>3. ToSet(s) \subseteq Nat /\ n \notin ToSet(s) /\ \A i \in 1..Len(s) : s[i] \in ToSet(s) /\ s[i] < n /\ s[i] \in Nat
    <2>1. \A i \in 1..Len(s) : s[i] \in ToSet(s) /\ s[i] \in Nat
      BY <1>2 DEF ToSet
    <2>2. ToSet(s) \subseteq Nat
      BY <1>2, <2>1 DEF ToSet
    <2>3. \A x \in ToSet(s) : x < n
      BY DEF IdList
    <2>4. n \notin ToSet(s)
      BY <2>3
    <2> QED
      BY <2>1, <2>2, <2>3, <2>4
  <1>4. ToSet(t) = ToSet(s) \cup {n}
    <2>1. \A x \in ToSet(t) : x \in ToSet(s) \cup {n}
      <3> SUFFICES ASSUME NEW i \in 1..Len(s) + 1 PROVE t[i] \in ToSet(s) \cup {n}
        BY <1>2 DEF ToSet
      <3>1. i \in 1..Len(s) \/ i = Len(s) + 1
        BY <1>2
      <3> QED
        BY <1>1, <1>3, <3>1
    <2>2. \A x \in ToSet(s) : x \in ToSet(t)
      <3> SUFFICES ASSUME NEW i \in 1..Len(s) PROVE s[i] \in ToSet(t)
        BY <1>2 DEF ToSet
      <3>1. i \in DOMAIN t /\ t[i] = s[i]
        BY <1>1, <1>2
      <3> QED
        BY <3>1 DEF ToSet
    <2>3. n \in ToSet(t)
      <3>1. Len(s) + 1 \in DOMAIN t
        BY <1>2
      <3> QED
        BY <1>1, <3>1 DEF ToSet
    <2> QED
      BY <2>1, <2>2, <2>3
  <1>5. IsInjective(t)
    <2> SUFFICES ASSUME NEW i \in 1..Len(s) + 1, NEW j \in 1..Len(s) + 1, t[i] = t[j] PROVE i = j
      BY <1>2 DEF IsInjective
    <2>1. (i \in 1..Len(s) \/ i = Len(s) + 1) /\ (j \in 1..Len(s) \/ j = Len(s) + 1)
      BY <1>2
    <2>2. \A k \in 1..Len(s) : t[k] # n
      BY <1>1, <1>3
    <2>3. CASE i \in 1..Len(s) /\ j \in 1..Len(s)
      BY <1>1, <1>2, <2>3 DEF IdList, IsInjective
    <2> QED
      BY <1>1, <2>1, <2>2, <2>3
  <1>6. \A x \in ToSet(s) : x < n /\ x \in Nat
    BY <1>3 DEF IdList
  <1>7. (\A x \in ToSet(s) : x < n + 1) /\ n < n + 1
    BY <1>6
  <1> QED
    BY <1>3, <1>4, <1>5, <1>7 DEF IdList, t

\* A local spawn, one by the struct and one by a worker take the next id.
LEMMA IdsLocal ==
    ASSUME NEW local \in SUBSET Nat, NEW m \in Seq(Nat), NEW D, NEW ls \in [D -> Seq(Nat)], NEW n \in Nat,
           IdsApart(local, m, ls, n)
    PROVE  IdsApart(local \cup {n}, m, ls, n + 1)
  <1>1. IdList(m, n + 1) /\ n \notin ToSet(m)
    BY IdListAppend DEF IdsApart
  <1>2. \A w \in DOMAIN ls : IdList(ls[w], n + 1) /\ n \notin ToSet(ls[w])
    BY IdListAppend DEF IdsApart
  <1>3. \A x \in local \cup {n} : x < n + 1
    BY DEF IdsApart
  <1>4. ToSet(m) \cap (local \cup {n}) = {}
    BY <1>1 DEF IdsApart
  <1>5. \A w \in DOMAIN ls : ToSet(ls[w]) \cap (local \cup {n}) = {}
    BY <1>2 DEF IdsApart
  <1> QED
    BY <1>1, <1>2, <1>3, <1>4, <1>5 DEF IdsApart

LEMMA IdsStruct ==
    ASSUME NEW local \in SUBSET Nat, NEW m \in Seq(Nat), NEW D, NEW ls \in [D -> Seq(Nat)], NEW n \in Nat,
           IdsApart(local, m, ls, n)
    PROVE  IdsApart(local, Append(m, n), ls, n + 1)
  <1>1. IdList(Append(m, n), n + 1) /\ ToSet(Append(m, n)) = ToSet(m) \cup {n}
    BY IdListAppend DEF IdsApart
  <1>2. \A w \in DOMAIN ls : IdList(ls[w], n + 1) /\ n \notin ToSet(ls[w])
    BY IdListAppend DEF IdsApart
  <1>3. (\A x \in local : x < n + 1) /\ n \notin local
    BY DEF IdsApart
  <1> DEFINE k == Append(m, n)
  <1> HIDE DEF k
  <1>4. ToSet(k) \cap local = {}
    BY <1>1, <1>3 DEF IdsApart, k
  <1>5. \A w \in DOMAIN ls : ToSet(ls[w]) \cap ToSet(k) = {}
    BY <1>1, <1>2 DEF IdsApart, k
  <1>6. IdsApart(local, k, ls, n + 1)
    BY <1>1, <1>2, <1>3, <1>4, <1>5 DEF IdsApart, k
  <1> QED
    BY <1>6 DEF k

\* Worker w records id n.
Records(ls, ks, w, n) == ks = [ls EXCEPT ![w] = Append(ls[w], n)]
HasRecorded(D, ls, ks, w, n) ==
    DOMAIN ks = D /\ n \in ToSet(ks[w]) /\ \A v \in D : n \notin ToSet(ls[v]) /\ ToSet(ls[v]) \subseteq ToSet(ks[v])

LEMMA IdsWorker ==
    ASSUME NEW local \in SUBSET Nat, NEW m \in Seq(Nat), NEW D, NEW ls \in [D -> Seq(Nat)], NEW n \in Nat,
           IdsApart(local, m, ls, n), NEW w \in D, NEW ks, Records(ls, ks, w, n)
    PROVE  IdsApart(local, m, ks, n + 1) /\ HasRecorded(D, ls, ks, w, n)
  <1>0. DOMAIN ls = D /\ DOMAIN ks = D /\ ks[w] = Append(ls[w], n) /\ \A v \in D \ {w} : ks[v] = ls[v]
    BY DEF Records
  <1>1. IdList(ks[w], n + 1) /\ ToSet(ks[w]) = ToSet(ls[w]) \cup {n}
    BY <1>0, IdListAppend DEF IdsApart
  <1>2. \A v \in D : IdList(ls[v], n + 1) /\ n \notin ToSet(ls[v])
    BY <1>0, IdListAppend DEF IdsApart
  <1>3. (\A x \in local : x < n + 1) /\ n \notin local
    BY DEF IdsApart
  <1>4. IdList(m, n + 1) /\ n \notin ToSet(m)
    BY IdListAppend DEF IdsApart
  <1>5. \A v \in D : IdList(ks[v], n + 1) /\ ToSet(ks[v]) = ToSet(ls[v]) \cup (IF v = w THEN {n} ELSE {})
    BY <1>0, <1>1, <1>2
  <1>6. \A v \in D : ToSet(ks[v]) \cap local = {} /\ ToSet(ks[v]) \cap ToSet(m) = {}
    BY <1>0, <1>3, <1>4, <1>5 DEF IdsApart
  <1>7. ASSUME NEW v \in D, NEW u \in D \ {v}
        PROVE  ToSet(ks[v]) \cap ToSet(ks[u]) = {}
    <2>1. ToSet(ls[v]) \cap ToSet(ls[u]) = {}
      BY <1>0 DEF IdsApart
    <2> QED
      BY <1>2, <1>5, <2>1
  <1>8. IdsApart(local, m, ks, n + 1)
    <2>1. ToSet(m) \cap local = {}
      BY DEF IdsApart
    <2>2. \A v \in D : IdList(ks[v], n + 1)
      BY <1>5
    <2>3. \A v \in DOMAIN ks : /\ IdList(ks[v], n + 1)
                              /\ ToSet(ks[v]) \cap local = {} /\ ToSet(ks[v]) \cap ToSet(m) = {}
                              /\ \A u \in DOMAIN ks \ {v} : ToSet(ks[v]) \cap ToSet(ks[u]) = {}
      <3> SUFFICES ASSUME NEW v \in D
                   PROVE  /\ IdList(ks[v], n + 1)
                          /\ ToSet(ks[v]) \cap local = {} /\ ToSet(ks[v]) \cap ToSet(m) = {}
                          /\ \A u \in D \ {v} : ToSet(ks[v]) \cap ToSet(ks[u]) = {}
        BY <1>0
      <3> QED
        BY <1>6, <1>7, <2>2
    <2> DEFINE n1 == n + 1
    <2> HIDE DEF n1
    <2>4. (\A x \in local : x < n1) /\ IdList(m, n1) /\ \A v \in DOMAIN ks : IdList(ks[v], n1)
      BY <1>3, <1>4, <2>3 DEF n1
    <2>5. IdsApart(local, m, ks, n1)
      BY <2>1, <2>3, <2>4 DEF IdsApart
    <2> QED
      BY <2>5 DEF n1
  <1> QED
    BY <1>0, <1>1, <1>2, <1>5, <1>8 DEF HasRecorded

\* The factories a worker has, and those it has yet to learn of: a worker with mailbox b
\* and factories fs finds the type of every spawn that was routed when it was known.
Registered(b, n, ty) == \E i \in 1..n : b[i].op = "register" /\ b[i].ty = ty

BoxOK(b, fs, since, rq) ==
    /\ \A ty \in since : ty \in fs \/ Registered(b, Len(b), ty)
    /\ \A j \in 1..Len(b) : b[j].op = "spawn" =>
          /\ rq[b[j].req].out # "none"
          /\ rq[b[j].req].due = "known" => b[j].ty \in fs \/ Registered(b, j - 1, b[j].ty)

FactoriesInv ==
    /\ runtime # "kameo" =>
          /\ hist.since # {} => started
          /\ \A w \in DOMAIN workers : workers[w].up =>
                BoxOK(workers[w].box, workers[w].manager.factories, hist.since, req)
    /\ RegisteredTypeIsFound

LEMMA BoxRegister ==
    ASSUME NEW b \in Seq(WorkerItem), NEW fs, NEW since, NEW rq, BoxOK(b, fs, since, rq), NEW ty \in Types
    PROVE  BoxOK(Append(b, [op |-> "register", ty |-> ty]), fs, since \cup {ty}, rq)
  <1> DEFINE x == [op |-> "register", ty |-> ty]
             c == Append(b, x)
  <1>1. x \in WorkerItem /\ x.op = "register" /\ x.ty = ty
    BY DEF WorkerItem
  <1> HIDE DEF x
  <1>2. Len(b) \in Nat /\ Len(c) = Len(b) + 1 /\ c[Len(b) + 1] = x /\ \A i \in 1..Len(b) : c[i] = b[i]
    BY <1>1, AppendProperties
  <1> HIDE DEF c
  <1>3. \A u : \A n \in 0..Len(b) : Registered(b, n, u) => Registered(c, n, u)
    BY <1>2 DEF Registered
  <1>4. \A u : Registered(b, Len(b), u) => Registered(c, Len(c), u)
    BY <1>2 DEF Registered
  <1>5. Registered(c, Len(c), ty)
    BY <1>1, <1>2 DEF Registered
  <1>6. ASSUME NEW j \in 1..Len(c), c[j].op = "spawn"
        PROVE  /\ rq[c[j].req].out # "none"
               /\ rq[c[j].req].due = "known" => c[j].ty \in fs \/ Registered(c, j - 1, c[j].ty)
    <2>1. j # Len(b) + 1
      BY <1>1, <1>2, <1>6
    <2>2. j \in 1..Len(b) /\ j - 1 \in 0..Len(b) /\ c[j] = b[j]
      BY <1>2, <2>1
    <2> QED
      BY <1>3, <1>6, <2>2 DEF BoxOK
  <1>7. \A u \in since \cup {ty} : u \in fs \/ Registered(c, Len(c), u)
    BY <1>4, <1>5 DEF BoxOK
  <1>8. BoxOK(c, fs, since \cup {ty}, rq)
    BY <1>6, <1>7 DEF BoxOK
  <1> QED
    BY <1>8 DEF c, x

LEMMA BoxSpawn ==
    ASSUME NEW b \in Seq(WorkerItem), NEW fs, NEW since, NEW rq, BoxOK(b, fs, since, rq), NEW ty \in Types, NEW r \in Reqs,
           NEW sq, \A q \in Reqs : rq[q].out # "none" => sq[q] = rq[q],
           sq[r].out # "none", sq[r].due = "known" => ty \in since
    PROVE  BoxOK(Append(b, [op |-> "spawn", ty |-> ty, req |-> r]), fs, since, sq)
  <1> DEFINE x == [op |-> "spawn", ty |-> ty, req |-> r]
             c == Append(b, x)
  <1>1. x \in WorkerItem /\ x.op = "spawn" /\ x.ty = ty /\ x.req = r
    BY DEF WorkerItem
  <1> HIDE DEF x
  <1>2. Len(b) \in Nat /\ Len(c) = Len(b) + 1 /\ c[Len(b) + 1] = x /\ \A i \in 1..Len(b) : c[i] = b[i]
    BY <1>1, AppendProperties
  <1> HIDE DEF c
  <1>3. \A u : \A n \in 0..Len(b) : Registered(b, n, u) => Registered(c, n, u)
    BY <1>2 DEF Registered
  <1>4. \A u : Registered(b, Len(b), u) => Registered(c, Len(c), u)
    BY <1>2 DEF Registered
  <1>5. \A u \in since : u \in fs \/ (Registered(c, Len(c), u) /\ Registered(c, Len(b), u))
    BY <1>2, <1>3, <1>4 DEF BoxOK
  <1>6. ASSUME NEW j \in 1..Len(c), c[j].op = "spawn"
        PROVE  /\ sq[c[j].req].out # "none"
               /\ sq[c[j].req].due = "known" => c[j].ty \in fs \/ Registered(c, j - 1, c[j].ty)
    <2>1. CASE j = Len(b) + 1
      <3>1. j - 1 = Len(b) /\ c[j] = x
        BY <1>2, <2>1
      <3> QED
        BY <1>1, <1>5, <3>1
    <2>2. CASE j # Len(b) + 1
      <3>1. j \in 1..Len(b) /\ j - 1 \in 0..Len(b) /\ c[j] = b[j]
        BY <1>2, <2>2
      <3>2. b[j].req \in Reqs
        <4>1. b[j] \in WorkerItem
          BY <3>1
        <4> QED
          BY <1>6, <3>1, <4>1 DEF WorkerItem
      <3>3. /\ rq[b[j].req].out # "none"
            /\ rq[b[j].req].due = "known" => b[j].ty \in fs \/ Registered(b, j - 1, b[j].ty)
        BY <1>6, <3>1 DEF BoxOK
      <3> QED
        BY <1>3, <3>1, <3>2, <3>3
    <2> QED
      BY <2>1, <2>2
  <1>7. BoxOK(c, fs, since, sq)
    BY <1>5, <1>6 DEF BoxOK
  <1> QED
    BY <1>7 DEF c, x

\* The worker takes its next message: a factory is added, a spawn is tried.
LEMMA BoxTail ==
    ASSUME NEW b \in Seq(WorkerItem), b # <<>>, NEW fs, NEW since, NEW rq, BoxOK(b, fs, since, rq), NEW gs,
           fs \subseteq gs, Head(b).op = "register" => Head(b).ty \in gs
    PROVE  BoxOK(Tail(b), gs, since, rq)
  <1> DEFINE c == Tail(b)
  <1>1. Len(b) \in Nat /\ Len(c) = Len(b) - 1 /\ Len(b) > 0 /\ Head(b) = b[1] /\ \A i \in 1..Len(c) : c[i] = b[i + 1]
    BY HeadTailProperties
  <1> HIDE DEF c
  <1>2. ASSUME NEW n \in 1..Len(b), NEW u, Registered(b, n, u)
        PROVE  u \in gs \/ Registered(c, n - 1, u)
    <2>1. PICK i \in 1..n : b[i].op = "register" /\ b[i].ty = u
      BY <1>2 DEF Registered
    <2>2. CASE i = 1
      BY <1>1, <2>1, <2>2
    <2>3. CASE i # 1
      <3>1. i - 1 \in 1..n - 1 /\ i - 1 \in 1..Len(c) /\ (i - 1) + 1 = i
        BY <1>1, <2>3
      <3>2. c[i - 1] = b[i]
        BY <1>1, <3>1
      <3> QED
        BY <2>1, <3>1, <3>2 DEF Registered
    <2> QED
      BY <2>2, <2>3
  <1>3. \A u \in since : u \in gs \/ Registered(c, Len(c), u)
    <2>1. Len(b) \in 1..Len(b) /\ Len(b) - 1 = Len(c)
      BY <1>1
    <2> QED
      BY <1>2, <2>1 DEF BoxOK
  <1>4. ASSUME NEW j \in 1..Len(c), c[j].op = "spawn"
        PROVE  /\ rq[c[j].req].out # "none"
               /\ rq[c[j].req].due = "known" => c[j].ty \in gs \/ Registered(c, j - 1, c[j].ty)
    <2>1. j + 1 \in 1..Len(b) /\ j \in 1..Len(b) /\ (j + 1) - 1 = j /\ c[j] = b[j + 1]
      BY <1>1
    <2>2. /\ rq[b[j + 1].req].out # "none"
          /\ rq[b[j + 1].req].due = "known" => b[j + 1].ty \in fs \/ Registered(b, j, b[j + 1].ty)
      BY <1>4, <2>1 DEF BoxOK
    <2> QED
      BY <1>2, <2>1, <2>2
  <1>5. BoxOK(c, gs, since, rq)
    BY <1>3, <1>4 DEF BoxOK
  <1> QED
    BY <1>5 DEF c

\* What is noted of a request that was routed stays.
LEMMA BoxReqs ==
    ASSUME NEW b \in Seq(WorkerItem), NEW fs, NEW since, NEW rq, BoxOK(b, fs, since, rq), NEW sq,
           \A q \in Reqs : rq[q].out # "none" => sq[q].out # "none" /\ sq[q].due = rq[q].due
    PROVE  BoxOK(b, fs, since, sq)
  <1>1. \A j \in 1..Len(b) : b[j].op = "spawn" => b[j].req \in Reqs
    <2> SUFFICES ASSUME NEW j \in 1..Len(b), b[j].op = "spawn" PROVE b[j].req \in Reqs
      OBVIOUS
    <2>1. b[j] \in WorkerItem
      OBVIOUS
    <2> QED
      BY <2>1 DEF WorkerItem
  <1> QED
    BY <1>1 DEF BoxOK

LEMMA BoxHead ==
    ASSUME NEW b \in Seq(WorkerItem), b # <<>>, NEW fs, NEW since, NEW rq, BoxOK(b, fs, since, rq),
           Head(b).op = "spawn", rq[Head(b).req].due = "known"
    PROVE  Head(b).ty \in fs
  <1>1. Head(b) = b[1] /\ 1 \in 1..Len(b) /\ 1 - 1 = 0
    BY HeadTailProperties
  <1>2. ~Registered(b, 0, b[1].ty)
    BY DEF Registered
  <1> QED
    BY <1>1, <1>2 DEF BoxOK

SpawnsInv == IdsInv /\ FactoriesInv

LEMMA SpawnsImply == NodeTyped /\ SpawnsInv => SpawnsAreSound
  <1> SUFFICES ASSUME NodeTyped, SpawnsInv PROVE SpawnsAreSound
    OBVIOUS
  <1>1. NodeTypeOK
    <2>1. DOMAIN workers \subseteq 1..Pool /\ \A w \in DOMAIN workers : workers[w].manager.factories \subseteq Types
      BY DEF NodeTyped, WorkersOK, WorkerType, SpawnType
    <2>2. \A r \in Reqs : req[r].out \in Outcomes
      BY DEF NodeTyped, ReqType
    <2>3. native.watch \cup mgr.watch \subseteq Targets \X Watchers
      BY DEF NodeTyped, MgrType, NativeType, WatchType
    <2>4. \A p \in Peers : mgr.dir[p] \in PeerType /\ native.dir[p] \in PeerType
      BY DEF NodeTyped, MgrType, NativeType, DirType
    <2>5. \A p \in Peers : {mgr.dir[p].status, native.dir[p].status}
                              \subseteq {"none", "connecting", "connected", "disconnected"}
      BY <2>4 DEF PeerType
    <2> QED
      BY <2>1, <2>2, <2>3, <2>5 DEF NodeTypeOK, NodeTyped, WorkersOK, EventsOK
  <1>2. DOMAIN Lists = DOMAIN workers
    BY DEF Lists
  <1>3. \A w \in DOMAIN workers : ToSet(Lists[w]) \cap (hist.local \cup ToSet(mgr.spawn.spawned)) = {}
    BY <1>2 DEF SpawnsInv, IdsInv, IdsApart
  <1>4. SpawnIdsAreUnique
    BY <1>1, <1>2, <1>3 DEF SpawnIdsAreUnique, Lists, SpawnsInv, IdsInv, IdsApart, IdList, IdsTold
  <1> QED
    BY <1>4 DEF SpawnsAreSound, SpawnsInv, FactoriesInv

\* A step that no spawn's answer is touched by.
ReqsCalm ==
    \A q \in Reqs :
        /\ req[q].out # "none" => req'[q].out # "none" /\ req'[q].due = req[q].due
        /\ req'[q].out \in {"completed", "unknown type"} => req'[q] = req[q]

LEMMA ToldCalm ==
    ASSUME NEW ls, IdsTold(req, ls), ReqsCalm
    PROVE  IdsTold(req', ls)
  <1>1. \A q \in Reqs : req'[q].out = "completed" => req'[q] = req[q]
    BY DEF ReqsCalm
  <1> QED
    BY <1>1 DEF IdsTold

LEMMA FoundCalm ==
    ASSUME RegisteredTypeIsFound, ReqsCalm, runtime' = runtime
    PROVE  RegisteredTypeIsFound'
  <1>1. \A q \in Reqs : req'[q].out = "unknown type" => req'[q] = req[q]
    BY DEF ReqsCalm
  <1> QED
    BY <1>1 DEF RegisteredTypeIsFound

\* A step that is not about spawning.
LEMMA SpawnsCalm ==
    ASSUME NodeTyped, SpawnsInv, ReqsCalm, runtime' = runtime, started' = started, workers' = workers, next' = next,
           hist'.local = hist.local, hist'.since = hist.since, mgr'.spawn = mgr.spawn
    PROVE  SpawnsInv'
  <1>1. Lists' = Lists
    BY DEF Lists
  <1>2. IdsTold(req', Lists')
    BY <1>1, ToldCalm DEF SpawnsInv, IdsInv
  <1>3. IdsInv'
    BY <1>1, <1>2 DEF SpawnsInv, IdsInv
  <1>4. ASSUME runtime # "kameo", NEW w \in DOMAIN workers, workers[w].up
        PROVE  BoxOK(workers[w].box, workers[w].manager.factories, hist.since, req')
    <2>1. BoxOK(workers[w].box, workers[w].manager.factories, hist.since, req)
      BY <1>4 DEF SpawnsInv, FactoriesInv
    <2>2. workers[w].box \in Seq(WorkerItem)
      BY WorkerTypes DEF NodeTyped, WorkersOK
    <2>3. \A q \in Reqs : req[q].out # "none" => req'[q].out # "none" /\ req'[q].due = req[q].due
      BY DEF ReqsCalm
    <2> QED
      BY <2>1, <2>2, <2>3, BoxReqs
  <1>5. FactoriesInv'
    BY <1>4, FoundCalm DEF SpawnsInv, FactoriesInv
  <1> QED
    BY <1>3, <1>5 DEF SpawnsInv

LEMMA CalmSame == req' = req => ReqsCalm
  BY DEF ReqsCalm

LEMMA CalmChange ==
    ASSUME NodeTyped, NEW r \in Reqs, NEW x, req' = [req EXCEPT ![r] = x], x.out \notin {"none", "completed", "unknown type"},
           req[r].out = "none" \/ x.due = req[r].due
    PROVE  ReqsCalm
  <1>1. req'[r] = x /\ \A q \in Reqs : q # r => req'[q] = req[q]
    BY DEF NodeTyped
  <1> QED
    BY <1>1 DEF ReqsCalm

LEMMA RoutesCalm == ASSUME NodeTyped, RouteStep PROVE ReqsCalm
  <1>1. ASSUME NEW r \in Reqs, NEW out \in {"error", "acknowledged", "given up"}, req' = [req EXCEPT ![r].out = out]
        PROVE  ReqsCalm
    <2> DEFINE x == [req[r] EXCEPT !.out = out]
    <2>1. x.out = out /\ x.due = req[r].due
      BY DEF NodeTyped, ReqType
    <2>2. req' = [req EXCEPT ![r] = x]
      BY <1>1
    <2> HIDE DEF x
    <2>3. x.out \notin {"none", "completed", "unknown type"}
      BY <2>1
    <2> QED
      BY <2>1, <2>2, <2>3, CalmChange
  <1>2. ASSUME NEW r \in Reqs, NEW item, NEW promised, RouteTell(r, item, promised)
        PROVE  ReqsCalm
    <2>1. req' = [req EXCEPT ![r].out = "error"] \/ req' = [req EXCEPT ![r].out = "acknowledged"]
      BY <1>2 DEF RouteTell
    <2> QED
      BY <1>1, <2>1
  <1>3. ASSUME NEW r \in Reqs, NEW k \in Keys, RouteCancel(r, k)
        PROVE  ReqsCalm
    <2> DEFINE due == IF hist.tokens[k] = Nil THEN "not found" ELSE "cancelled"
               z == [req[r] EXCEPT !.out = "awaiting", !.due = due]
    <2>1. req[r].out = "none" /\ (req' = [req EXCEPT ![r].out = "error"] \/ req' = [req EXCEPT ![r] = z])
      BY <1>3 DEF RouteCancel, Fresh
    <2> HIDE DEF due
    <2>2. z.out = "awaiting"
      BY DEF NodeTyped, ReqType
    <2> HIDE DEF z
    <2>3. z.out \notin {"none", "completed", "unknown type"}
      BY <2>2
    <2>4. CASE req' = [req EXCEPT ![r] = z]
      BY <2>1, <2>3, <2>4, CalmChange
    <2> QED
      BY <1>1, <2>1, <2>4
  <1>4. ASSUME NEW r \in Reqs, GiveUp(r)
        PROVE  ReqsCalm
    <2>1. req' = [req EXCEPT ![r].out = "given up"]
      BY <1>4 DEF GiveUp
    <2> QED
      BY <1>1, <2>1
  <1>5. ASSUME (\E t \in Targets : DirectTerminated(t)) \/ (\E k \in Keys : DirectToken(k))
        PROVE  ReqsCalm
    BY <1>5, CalmSame DEF DirectTerminated, DirectToken, Direct
  <1>6. CASE \E r \in Reqs, t \in Targets, w \in Watchers : RouteWatch(r, t, w)
    BY <1>2, <1>6 DEF RouteWatch
  <1>7. CASE \E r \in Reqs, p \in Peers, address \in Addrs \cup {Nil} : RoutePeer(r, p, address)
    BY <1>2, <1>7 DEF RoutePeer
  <1> QED
    BY <1>3, <1>4, <1>5, <1>6, <1>7 DEF RouteStep

LEMMA NativeCalm == ASSUME NodeTyped, NativeStep PROVE ReqsCalm
  <1>1. CASE req' = req
    BY <1>1, CalmSame
  <1> DEFINE r == Head(box).req
             ans == Cancel(native.cancel, Head(box).k).answer
  <1>2. CASE Handles("cancel") /\ req' = [req EXCEPT ![r] = Answered(r, ans)]
    <2>1. Head(box) \in NativeItem /\ Head(box).op = "cancel"
      BY <1>2, NativeItems DEF Handles, NodeTyped
    <2>2. r \in Reqs
      BY <2>1, NativeItemParts
    <2>3. ans \in {"cancelled", "not found"}
      BY DEF Cancel
    <2> HIDE DEF r, ans
    <2>4. ans \in Outcomes /\ req \in [Reqs -> ReqType]
      BY <2>3 DEF Outcomes, NodeTyped
    <2>5. Answered(r, ans).due = req[r].due /\ Answered(r, ans).out = IF req[r].out = "awaiting" THEN ans ELSE req[r].out
      BY <2>2, <2>4, AnsweredType
    <2>6. req'[r] = Answered(r, ans) /\ \A q \in Reqs : q # r => req'[q] = req[q]
      BY <1>2, <2>2, <2>4
    <2>7. Answered(r, ans).out = "none" => req[r].out = "none"
      BY <2>3, <2>5
    <2>8. CASE req[r].out = "awaiting"
      BY <2>3, <2>5, <2>6, <2>8 DEF ReqsCalm
    <2>9. CASE req[r].out # "awaiting"
      <3>1. Answered(r, ans) = req[r]
        BY <2>9 DEF Answered
      <3> QED
        BY <2>6, <3>1 DEF ReqsCalm
    <2> QED
      BY <2>8, <2>9
  <1> QED
    BY <1>1, <1>2 DEF NativeStep, WatchManagerActor, CancelManagerActor, NodeDirectoryActor

\* None of the steps that are not about spawning touches what spawning uses.
LEMMA SpawnsElsewhere ==
    ASSUME NodeTyped, RouteStep \/ NativeStep \/ StructStep \/ PeerStep
    PROVE  /\ ReqsCalm /\ runtime' = runtime /\ started' = started /\ workers' = workers /\ next' = next
           /\ hist'.local = hist.local /\ hist'.since = hist.since /\ mgr'.spawn = mgr.spawn
  <1>1. CASE RouteStep
    <2>1. /\ runtime' = runtime /\ started' = started /\ workers' = workers /\ next' = next /\ mgr' = mgr
      BY <1>1 DEF RouteStep, RouteWatch, RouteCancel, RoutePeer, RouteTell, DirectTerminated, DirectToken, Direct, GiveUp
    <2>2. \/ hist' = hist
          \/ \E a : hist' = [hist EXCEPT !.watch = a] \/ hist' = [hist EXCEPT !.dir = a] \/ hist' = [hist EXCEPT !.tokens = a]
          \/ \E a, b : hist' = [hist EXCEPT !.watch = a, !.due = b]
      BY <1>1 DEF RouteStep, RouteWatch, RouteCancel, RoutePeer, RouteTell, DirectTerminated, DirectToken, Direct, GiveUp
    <2>3. hist'.local = hist.local /\ hist'.since = hist.since
      BY <2>2 DEF NodeTyped, HistType
    <2> QED
      BY <1>1, <2>1, <2>3, RoutesCalm
  <1>2. CASE NativeStep
    <2>1. /\ runtime' = runtime /\ started' = started /\ workers' = workers /\ next' = next /\ mgr' = mgr
      BY <1>2 DEF NativeStep, WatchManagerActor, CancelManagerActor, NodeDirectoryActor
    <2>2. hist' = hist \/ \E a : hist' = [hist EXCEPT !.told = a] \/ hist' = [hist EXCEPT !.cancelled = a]
      BY <1>2 DEF NativeStep, WatchManagerActor, CancelManagerActor, NodeDirectoryActor
    <2>3. hist'.local = hist.local /\ hist'.since = hist.since
      BY <2>2 DEF NodeTyped, HistType
    <2> QED
      BY <1>2, <2>1, <2>3, NativeCalm
  <1>3. CASE StructStep
    <2>1. runtime' = runtime /\ started' = started /\ workers' = workers /\ next' = next /\ hist' = hist /\ req' = req
      BY <1>3 DEF StructStep, RemoteWatch, RemoteUnwatch, NotifyTerminated, RegisterCancel, CancelRequest, CompleteRequest,
                  StructCall
    <2> QED
      BY <1>3, <2>1, StructTyped, CalmSame
  <1>4. CASE PeerStep
    <2>1. runtime' = runtime /\ started' = started /\ workers' = workers /\ next' = next /\ hist' = hist /\ req' = req
      BY <1>4 DEF PeerStep, ConnectAfterHandshake, ConnectPeer, DisconnectPeer, Deliver, Subscribe, Unsubscribe
    <2>2. mgr' = mgr \/ \E a : mgr' = [mgr EXCEPT !.dir = a]
      BY <1>4 DEF PeerStep, ConnectAfterHandshake, ConnectPeer, DisconnectPeer, Deliver, Subscribe, Unsubscribe
    <2>3. mgr'.spawn = mgr.spawn
      BY <2>2 DEF NodeTyped, MgrType
    <2> QED
      BY <2>1, <2>3, CalmSame
  <1> QED
    BY <1>1, <1>2, <1>3, <1>4

\* The fields of a worker after each change of it.
LEMMA WorkerFields ==
    ASSUME NEW x \in WorkerType, NEW b, NEW m
    PROVE  /\ [x EXCEPT !.box = b].box = b /\ [x EXCEPT !.box = b].manager = x.manager /\ [x EXCEPT !.box = b].up = x.up
           /\ [x EXCEPT !.box = b, !.manager = m].box = b /\ [x EXCEPT !.box = b, !.manager = m].manager = m
           /\ [x EXCEPT !.box = b, !.manager = m].up = x.up
           /\ [x EXCEPT !.box = b, !.up = FALSE].box = b /\ [x EXCEPT !.box = b, !.up = FALSE].manager = x.manager
           /\ [x EXCEPT !.box = b, !.up = FALSE].up = FALSE
  BY DEF WorkerType

LEMMA ManagerAdds ==
    ASSUME NEW m \in SpawnType, NEW ty
    PROVE  AddFactory(m, ty).factories = m.factories \cup {ty} /\ AddFactory(m, ty).spawned = m.spawned
  BY DEF AddFactory, SpawnType

LEMMA ManagerRecords ==
    ASSUME NEW m \in SpawnType, NEW n
    PROVE  RecordSpawn(m, n).factories = m.factories /\ RecordSpawn(m, n).spawned = Append(m.spawned, n)
  BY DEF RecordSpawn, SpawnType

\* The lists of ids and their counter, as the lemmas about them take them.
LEMMA IdsTyped ==
    ASSUME NodeTyped
    PROVE  /\ hist.local \in SUBSET Nat /\ mgr.spawn.spawned \in Seq(Nat) /\ next \in Nat
           /\ Lists \in [DOMAIN workers -> Seq(Nat)] /\ mgr.spawn \in SpawnType
           /\ \A w \in DOMAIN workers : workers[w] \in WorkerType /\ workers[w].manager \in SpawnType
                                        /\ workers[w].box \in Seq(WorkerItem) /\ workers \in [1..Pool -> WorkerType]
  <1>1. hist.local \in SUBSET Nat /\ mgr.spawn \in SpawnType /\ next \in Nat
    BY SystemNodeAssumption DEF NodeTyped, HistType, MgrType
  <1>2. \A w \in DOMAIN workers : workers[w] \in WorkerType /\ workers \in [1..Pool -> WorkerType]
    BY DEF NodeTyped, WorkersOK
  <1>3. \A w \in DOMAIN workers : workers[w].manager \in SpawnType /\ workers[w].box \in Seq(WorkerItem)
    BY <1>2, WorkerTypes
  <1>4. Lists \in [DOMAIN workers -> Seq(Nat)]
    BY <1>3 DEF Lists, SpawnType
  <1> QED
    BY <1>1, <1>2, <1>3, <1>4 DEF SpawnType

\* A step that records no id.
LEMMA IdsStay ==
    ASSUME IdsInv, Lists' = Lists, next' = next, hist'.local = hist.local, mgr'.spawn.spawned = mgr.spawn.spawned,
           IdsTold(req', Lists)
    PROVE  IdsInv'
  BY DEF IdsInv

LEMMA SpawnsStart == ASSUME NodeTyped, SpawnsInv, StartSystemActors PROVE SpawnsInv'
  <1>1. ~started /\ DOMAIN workers = {} /\ workers' = [w \in 1..Pool |-> NewWorker]
        /\ UNCHANGED <<next, req, hist, mgr, runtime>> /\ started'
    BY DEF StartSystemActors, NodeTyped, WorkersOK
  <1>2. DOMAIN Lists = {}
    BY <1>1 DEF Lists
  <1>3. \A r \in Reqs : req[r].out # "completed"
    BY <1>2 DEF SpawnsInv, IdsInv, IdsTold
  <1> DEFINE e == <<>>
  <1>4. ToSet(e) = {} /\ IsInjective(e) /\ Len(e) = 0
    BY DEF ToSet, IsInjective
  <1>5. Lists' = [w \in 1..Pool |-> e]
    BY <1>1 DEF Lists, NewWorker, NewSpawnManager
  <1>6. \A w \in 1..Pool : workers'[w].box = e /\ workers'[w].manager.factories = {} /\ DOMAIN workers' = 1..Pool
    BY <1>1 DEF NewWorker, NewSpawnManager
  <1> HIDE DEF e
  <1>7. IdList(e, next)
    BY <1>4 DEF IdList
  <1>8. IdsApart(hist.local, mgr.spawn.spawned, Lists', next)
    BY <1>4, <1>5, <1>7 DEF SpawnsInv, IdsInv, IdsApart
  <1>9. IdsInv'
    BY <1>1, <1>3, <1>8 DEF IdsInv, IdsTold
  <1>10. runtime # "kameo" => BoxOK(e, {}, hist.since, req)
    <2>1. runtime # "kameo" => hist.since = {}
      BY <1>1 DEF SpawnsInv, FactoriesInv
    <2> QED
      BY <1>4, <2>1 DEF BoxOK
  <1>11. FactoriesInv'
    BY <1>1, <1>6, <1>10 DEF SpawnsInv, FactoriesInv, RegisteredTypeIsFound
  <1> QED
    BY <1>9, <1>11 DEF SpawnsInv

LEMMA SpawnsLocal == ASSUME NodeTyped, SpawnsInv, SpawnLocal PROVE SpawnsInv'
  <1>1. hist' = [hist EXCEPT !.local = hist.local \cup {next}] /\ next' = next + 1
        /\ UNCHANGED <<runtime, started, mgr, workers, req>>
    BY DEF SpawnLocal
  <1>2. hist'.local = hist.local \cup {next} /\ hist'.since = hist.since
    BY <1>1 DEF NodeTyped, HistType
  <1>3. Lists' = Lists
    BY <1>1 DEF Lists
  <1>4. IdsApart(hist.local \cup {next}, mgr.spawn.spawned, Lists, next + 1)
    BY IdsTyped, IdsLocal DEF SpawnsInv, IdsInv
  <1>5. IdsInv'
    BY <1>1, <1>2, <1>3, <1>4 DEF SpawnsInv, IdsInv
  <1>6. FactoriesInv'
    BY <1>1, <1>2 DEF SpawnsInv, FactoriesInv, RegisteredTypeIsFound
  <1> QED
    BY <1>5, <1>6 DEF SpawnsInv

LEMMA SpawnsHandled == ASSUME NodeTyped, SpawnsInv, NEW ty \in Types, HandleSpawnRequest(ty) PROVE SpawnsInv'
  <1>1. mgr' = [mgr EXCEPT !.spawn = RecordSpawn(mgr.spawn, next)] /\ next' = next + 1
        /\ UNCHANGED <<runtime, started, hist, workers, req>>
    BY DEF HandleSpawnRequest
  <1>2. mgr'.spawn = RecordSpawn(mgr.spawn, next)
    BY <1>1 DEF NodeTyped, MgrType
  <1>3. mgr'.spawn.spawned = Append(mgr.spawn.spawned, next)
    BY <1>2, IdsTyped, ManagerRecords
  <1>4. Lists' = Lists
    BY <1>1 DEF Lists
  <1>5. IdsApart(hist.local, Append(mgr.spawn.spawned, next), Lists, next + 1)
    BY IdsTyped, IdsStruct DEF SpawnsInv, IdsInv
  <1>6. IdsInv'
    BY <1>1, <1>3, <1>4, <1>5 DEF SpawnsInv, IdsInv
  <1>7. FactoriesInv'
    BY <1>1 DEF SpawnsInv, FactoriesInv, RegisteredTypeIsFound
  <1> QED
    BY <1>6, <1>7 DEF SpawnsInv

LEMMA SpawnsRegistered ==
    ASSUME NodeTyped, SpawnsInv, NEW ty \in Types, NEW tells \in BOOLEAN, RegisterFactory(ty, tells),
           tells \/ runtime = "kameo"
    PROVE  SpawnsInv'
  <1> DEFINE since == IF started THEN hist.since \cup {ty} ELSE hist.since
             item == [op |-> "register", ty |-> ty]
  <1>1. /\ mgr' = [mgr EXCEPT !.spawn = AddFactory(mgr.spawn, ty)]
        /\ workers' = (IF started /\ tells THEN TellWorkers(ty) ELSE workers)
        /\ hist' = [hist EXCEPT !.since = since]
        /\ UNCHANGED <<runtime, started, next, req>>
    BY DEF RegisterFactory
  <1> HIDE DEF since
  <1>2. hist'.since = since /\ hist'.local = hist.local
    BY <1>1 DEF NodeTyped, HistType
  <1>3. mgr'.spawn.spawned = mgr.spawn.spawned
    <2>1. mgr'.spawn = AddFactory(mgr.spawn, ty)
      BY <1>1 DEF NodeTyped, MgrType
    <2> QED
      BY <2>1, IdsTyped, ManagerAdds
  <1>4. DOMAIN workers' = DOMAIN workers
    BY <1>1 DEF TellWorkers
  <1>5. ASSUME NEW w \in DOMAIN workers
        PROVE  /\ workers'[w].manager = workers[w].manager /\ workers'[w].up = workers[w].up
               /\ workers'[w].box = IF started /\ tells /\ workers[w].up THEN Append(workers[w].box, item) ELSE workers[w].box
    <2>1. workers'[w] = IF started /\ tells /\ workers[w].up THEN [workers[w] EXCEPT !.box = Append(workers[w].box, item)]
                                                        ELSE workers[w]
      BY <1>1 DEF TellWorkers
    <2> DEFINE b == Append(workers[w].box, item)
    <2> HIDE DEF b
    <2>2. [workers[w] EXCEPT !.box = b].manager = workers[w].manager /\ [workers[w] EXCEPT !.box = b].up = workers[w].up
          /\ [workers[w] EXCEPT !.box = b].box = b
      BY IdsTyped, WorkerFields
    <2> QED
      BY <2>1, <2>2 DEF b
  <1>6. Lists' = Lists
    BY <1>4, <1>5 DEF Lists
  <1>7. IdsInv'
    BY <1>1, <1>2, <1>3, <1>6 DEF SpawnsInv, IdsInv
  <1>8. ASSUME runtime # "kameo", NEW w \in DOMAIN workers, workers[w].up
        PROVE  BoxOK(workers'[w].box, workers'[w].manager.factories, since, req)
    <2>1. started /\ tells
      BY <1>8 DEF NodeTyped, WorkersOK
    <2>2. BoxOK(workers[w].box, workers[w].manager.factories, hist.since, req)
      BY <1>8 DEF SpawnsInv, FactoriesInv
    <2>3. BoxOK(Append(workers[w].box, item), workers[w].manager.factories, hist.since \cup {ty}, req)
      BY <2>2, IdsTyped, BoxRegister
    <2> QED
      BY <1>5, <1>8, <2>1, <2>3 DEF since
  <1>9. runtime # "kameo" => (since # {} => started)
    BY DEF since, SpawnsInv, FactoriesInv
  <1>10. ASSUME NEW w \in DOMAIN workers', workers'[w].up, runtime # "kameo"
         PROVE  BoxOK(workers'[w].box, workers'[w].manager.factories, since, req)
    BY <1>4, <1>5, <1>8, <1>10
  <1>11. FactoriesInv'
    BY <1>1, <1>2, <1>9, <1>10 DEF SpawnsInv, FactoriesInv, RegisteredTypeIsFound
  <1> QED
    BY <1>7, <1>11 DEF SpawnsInv

LEMMA SpawnsRouted ==
    ASSUME NodeTyped, SpawnsInv, NEW r \in Reqs, NEW ty \in Types, RouteSpawn(r, ty)
    PROVE  SpawnsInv'
  <1> DEFINE v == (turn % Pool) + 1
             due == CASE ty \in hist.since -> "known"
                      [] ty \in mgr.spawn.factories -> "known before start"
                      [] OTHER -> "unknown"
             a == [out |-> "error", id |-> 0, due |-> due]
             b == [out |-> "awaiting", id |-> 0, due |-> due]
             item == [op |-> "spawn", ty |-> ty, req |-> r]
  <1>1. /\ req[r].out = "none" /\ UNCHANGED <<runtime, started, next, mgr, hist>>
        /\ \/ req' = [req EXCEPT ![r] = a] /\ workers' = workers
           \/ /\ started /\ req' = [req EXCEPT ![r] = b]
              /\ workers' = [workers EXCEPT ![v].box = Append(workers[v].box, item)]
    BY DEF RouteSpawn, Fresh
  <1>2. due = "known" => ty \in hist.since
    OBVIOUS
  <1> HIDE DEF due
  <1>3. a.out = "error" /\ b.out = "awaiting" /\ a.due = due /\ b.due = due
    OBVIOUS
  <1> HIDE DEF a, b
  <1>4. ReqsCalm /\ req'[r].out # "none" /\ req'[r].due = due /\ \A q \in Reqs : req[q].out # "none" => req'[q] = req[q]
    <2>1. PICK x \in {a, b} : req' = [req EXCEPT ![r] = x]
      BY <1>1
    <2>2. x.out \notin {"none", "completed", "unknown type"} /\ x.due = due
      BY <1>3, <2>1
    <2>3. req'[r] = x /\ \A q \in Reqs : q # r => req'[q] = req[q]
      BY <2>1 DEF NodeTyped
    <2>4. ReqsCalm
      BY <1>1, <2>1, <2>2, CalmChange
    <2> QED
      BY <1>1, <2>2, <2>3, <2>4
  <1>5. CASE workers' = workers
    BY <1>1, <1>4, <1>5, SpawnsCalm
  <1>6. CASE started /\ workers' = [workers EXCEPT ![v].box = Append(workers[v].box, item)]
    <2>1. v \in 1..Pool /\ DOMAIN workers = 1..Pool
      BY <1>6, NextWorker DEF NodeTyped, WorkersOK
    <2> HIDE DEF v
    <2> DEFINE c == Append(workers[v].box, item)
    <2>2. workers' = [workers EXCEPT ![v] = [workers[v] EXCEPT !.box = c]]
      BY <1>6
    <2>3. BoxOK(workers[v].box, workers[v].manager.factories, hist.since, req)
             => BoxOK(c, workers[v].manager.factories, hist.since, req')
      BY <1>2, <1>4, <2>1, IdsTyped, BoxSpawn
    <2> HIDE DEF c
    <2>4. /\ workers'[v].box = c /\ workers'[v].manager = workers[v].manager /\ workers'[v].up = workers[v].up
          /\ DOMAIN workers' = DOMAIN workers /\ \A w \in DOMAIN workers \ {v} : workers'[w] = workers[w]
      BY <2>1, <2>2, IdsTyped, WorkerFields
    <2>5. Lists' = Lists
      BY <2>4 DEF Lists
    <2>6. IdsInv'
      BY <1>1, <1>4, <2>5, ToldCalm, IdsStay DEF SpawnsInv, IdsInv
    <2>7. ASSUME runtime # "kameo", NEW w \in DOMAIN workers', workers'[w].up
          PROVE  BoxOK(workers'[w].box, workers'[w].manager.factories, hist.since, req')
      <3>1. w \in DOMAIN workers /\ workers[w].up
        BY <2>4, <2>7
      <3>2. BoxOK(workers[w].box, workers[w].manager.factories, hist.since, req)
        BY <2>7, <3>1 DEF SpawnsInv, FactoriesInv
      <3>3. CASE w = v
        BY <2>3, <2>4, <3>2, <3>3
      <3>4. CASE w # v
        <4>1. workers'[w] = workers[w]
          BY <2>4, <3>1, <3>4
        <4>2. \A q \in Reqs : req[q].out # "none" => req'[q].out # "none" /\ req'[q].due = req[q].due
          BY <1>4
        <4> QED
          BY <3>1, <3>2, <4>1, <4>2, IdsTyped, BoxReqs
      <3> QED
        BY <3>3, <3>4
    <2>8. FactoriesInv'
      BY <1>1, <1>4, <2>7, FoundCalm DEF SpawnsInv, FactoriesInv
    <2> QED
      BY <2>6, <2>8 DEF SpawnsInv
  <1> QED
    BY <1>1, <1>5, <1>6

\* The worker w becomes x, which holds the same ids.
LEMMA SpawnsWorker ==
    ASSUME NodeTyped, SpawnsInv, NEW w \in DOMAIN workers, NEW x, workers' = [workers EXCEPT ![w] = x],
           x.manager.spawned = workers[w].manager.spawned,
           UNCHANGED <<runtime, started, next, mgr, hist>>, IdsTold(req', Lists), RegisteredTypeIsFound',
           \A q \in Reqs : req[q].out # "none" => req'[q].out # "none" /\ req'[q].due = req[q].due,
           runtime # "kameo" /\ x.up => BoxOK(x.box, x.manager.factories, hist.since, req')
    PROVE  SpawnsInv'
  <1>1. workers'[w] = x /\ DOMAIN workers' = DOMAIN workers /\ \A v \in DOMAIN workers \ {w} : workers'[v] = workers[v]
    BY IdsTyped
  <1>2. Lists' = Lists
    BY <1>1 DEF Lists
  <1>3. IdsInv'
    BY <1>2, IdsStay DEF SpawnsInv
  <1>4. ASSUME runtime # "kameo", NEW v \in DOMAIN workers', workers'[v].up
        PROVE  BoxOK(workers'[v].box, workers'[v].manager.factories, hist.since, req')
    <2>1. CASE v = w
      BY <1>1, <1>4, <2>1
    <2>2. CASE v # w
      <3>1. v \in DOMAIN workers /\ workers'[v] = workers[v]
        BY <1>1, <2>2
      <3>2. BoxOK(workers[v].box, workers[v].manager.factories, hist.since, req)
        BY <1>4, <3>1 DEF SpawnsInv, FactoriesInv
      <3> QED
        BY <3>1, <3>2, IdsTyped, BoxReqs
    <2> QED
      BY <2>1, <2>2
  <1>5. FactoriesInv'
    BY <1>4 DEF SpawnsInv, FactoriesInv
  <1> QED
    BY <1>3, <1>5 DEF SpawnsInv

LEMMA SpawnsLearned == ASSUME NodeTyped, SpawnsInv, NEW w \in DOMAIN workers, WorkerRegisters(w) PROVE SpawnsInv'
  <1> DEFINE m == AddFactory(workers[w].manager, Head(workers[w].box).ty)
             b == Tail(workers[w].box)
             x == [workers[w] EXCEPT !.box = b, !.manager = m]
  <1>1. workers[w].up /\ workers[w].box # <<>> /\ Head(workers[w].box).op = "register"
        /\ workers' = [workers EXCEPT ![w] = x] /\ UNCHANGED <<runtime, started, next, mgr, hist, req>>
    BY IdsTyped DEF WorkerRegisters
  <1>2. m.factories = workers[w].manager.factories \cup {Head(workers[w].box).ty} /\ m.spawned = workers[w].manager.spawned
    BY IdsTyped, ManagerAdds
  <1>3. ASSUME runtime # "kameo"
        PROVE  BoxOK(b, m.factories, hist.since, req)
    <2>1. BoxOK(workers[w].box, workers[w].manager.factories, hist.since, req)
      BY <1>1, <1>3 DEF SpawnsInv, FactoriesInv
    <2>2. workers[w].manager.factories \subseteq m.factories /\ Head(workers[w].box).ty \in m.factories
      BY <1>2
    <2> HIDE DEF m
    <2> QED
      BY <1>1, <2>1, <2>2, IdsTyped, BoxTail
  <1> HIDE DEF m, b
  <1>4. x.box = b /\ x.manager = m
    BY IdsTyped, WorkerFields
  <1> HIDE DEF x
  <1>5. IdsTold(req', Lists) /\ RegisteredTypeIsFound'
    BY <1>1 DEF SpawnsInv, IdsInv, FactoriesInv, RegisteredTypeIsFound
  <1>6. \A q \in Reqs : req[q].out # "none" => req'[q].out # "none" /\ req'[q].due = req[q].due
    BY <1>1
  <1>7. runtime # "kameo" /\ x.up => BoxOK(x.box, x.manager.factories, hist.since, req')
    BY <1>1, <1>3, <1>4
  <1>8. x.manager.spawned = workers[w].manager.spawned
    BY <1>2, <1>4
  <1> QED
    BY <1>1, <1>5, <1>6, <1>7, <1>8, SpawnsWorker

\* What the answer out makes of request q.
SpawnOuts == {"completed", "bad arguments", "unknown type", "error"}
AnsweredWith(x, q, out) == x.due = req[q].due /\ x.out = IF req[q].out = "awaiting" THEN out ELSE req[q].out

LEMMA SpawnAnswers ==
    ASSUME NodeTyped, NEW out \in SpawnOuts, NEW q \in Reqs
    PROVE  /\ AnsweredWith(Answered(q, out), q, out)
           /\ \A n \in Nat : AnsweredWith([Answered(q, out) EXCEPT !.id = n], q, out)
                              /\ [Answered(q, out) EXCEPT !.id = n].id = n
  <1>1. out \in Outcomes
    BY DEF Outcomes, SpawnOuts
  <1>2. req \in [Reqs -> ReqType]
    BY DEF NodeTyped
  <1> QED
    BY <1>1, <1>2, AnsweredType DEF AnsweredWith

LEMMA SpawnsTried == ASSUME NodeTyped, SpawnsInv, NEW w \in DOMAIN workers, WorkerSpawns(w) PROVE SpawnsInv'
  <1> DEFINE item == Head(workers[w].box)
             r == item.req
             b == Tail(workers[w].box)
             fs == workers[w].manager.factories
  <1>1. workers[w].up /\ workers[w].box # <<>> /\ item.op = "spawn" /\ UNCHANGED <<runtime, started, mgr, hist>>
    BY DEF WorkerSpawns
  <1>2. r \in Reqs /\ req \in [Reqs -> ReqType]
    BY <1>1, IdsTyped, WorkerItems DEF NodeTyped
  <1>3. \/ /\ next' = next + 1
           /\ workers' = [workers EXCEPT ![w] = [workers[w] EXCEPT !.box = b,
                                                    !.manager = RecordSpawn(workers[w].manager, next)]]
           /\ req' = [req EXCEPT ![r] = [Answered(r, "completed") EXCEPT !.id = next]]
        \/ /\ next' = next
           /\ workers' = [workers EXCEPT ![w] = [workers[w] EXCEPT !.box = b]]
           /\ req' = [req EXCEPT ![r] = Answered(r, IF item.ty \in fs THEN "bad arguments" ELSE "unknown type")]
        \/ /\ next' = next
           /\ workers' = [workers EXCEPT ![w] = [workers[w] EXCEPT !.box = <<>>, !.up = FALSE]]
           /\ req' = [q \in Reqs |-> IF q \in DroppedReplies(w) THEN Answered(q, "error") ELSE req[q]]
    BY IdsTyped DEF WorkerSpawns
  <1>4. ASSUME runtime # "kameo"
        PROVE  BoxOK(workers[w].box, fs, hist.since, req) /\ BoxOK(b, fs, hist.since, req)
    <2>1. BoxOK(workers[w].box, fs, hist.since, req)
      BY <1>1, <1>4 DEF SpawnsInv, FactoriesInv
    <2> HIDE DEF fs
    <2> QED
      BY <1>1, <2>1, IdsTyped, BoxTail
  <1> HIDE DEF r, b, fs
  <1>5. \A out \in {"completed", "bad arguments", "unknown type", "error"} : out \in SpawnOuts
    BY DEF SpawnOuts
  <1>6. CASE /\ next' = next + 1
             /\ workers' = [workers EXCEPT ![w] = [workers[w] EXCEPT !.box = b,
                                                      !.manager = RecordSpawn(workers[w].manager, next)]]
             /\ req' = [req EXCEPT ![r] = [Answered(r, "completed") EXCEPT !.id = next]]
    <2> DEFINE x == [workers[w] EXCEPT !.box = b, !.manager = RecordSpawn(workers[w].manager, next)]
               y == [Answered(r, "completed") EXCEPT !.id = next]
               ks == [Lists EXCEPT ![w] = Append(Lists[w], next)]
    <2>1. x.box = b /\ x.manager = RecordSpawn(workers[w].manager, next)
      BY IdsTyped, WorkerFields
    <2>2. x.manager.factories = fs /\ x.manager.spawned = Append(workers[w].manager.spawned, next)
      BY <2>1, IdsTyped, ManagerRecords DEF fs
    <2>3. /\ y.due = req[r].due /\ y.id = next /\ y.out \in {"completed", req[r].out}
          /\ y.out = "none" => req[r].out = "none"
          /\ y.out = "unknown type" => req[r].out = "unknown type"
      <3>1. next \in Nat /\ "completed" \in SpawnOuts
        BY <1>5, IdsTyped
      <3>2. AnsweredWith(y, r, "completed") /\ y.id = next
        BY <1>2, <3>1, SpawnAnswers
      <3> HIDE DEF y
      <3> QED
        BY <3>2 DEF AnsweredWith
    <2> HIDE DEF x, y
    <2>4. workers'[w] = x /\ DOMAIN workers' = DOMAIN workers /\ \A v \in DOMAIN workers \ {w} : workers'[v] = workers[v]
      BY <1>6, IdsTyped DEF x
    <2>5. req'[r] = y /\ \A q \in Reqs : q # r => req'[q] = req[q]
      BY <1>2, <1>6 DEF y
    <2>6. DOMAIN Lists = DOMAIN workers /\ \A v \in DOMAIN workers : Lists[v] = workers[v].manager.spawned
      BY DEF Lists
    <2>7. Lists' = ks
      <3>2. Lists' = [v \in DOMAIN workers |-> workers'[v].manager.spawned]
        BY <2>4 DEF Lists
      <3>3. \A v \in DOMAIN workers : workers'[v].manager.spawned = IF v = w THEN Append(Lists[v], next) ELSE Lists[v]
        BY <2>2, <2>4, <2>6
      <3> QED
        BY <2>6, <3>2, <3>3
    <2>8. /\ IdsApart(hist.local, mgr.spawn.spawned, Lists', next + 1)
          /\ DOMAIN Lists' = DOMAIN workers /\ next \in ToSet(Lists'[w])
          /\ \A v \in DOMAIN workers : next \notin ToSet(Lists[v]) /\ ToSet(Lists[v]) \subseteq ToSet(Lists'[v])
      <3> HIDE DEF ks
      <3>1. Records(Lists, ks, w, next)
        BY DEF ks, Records
      <3>2. IdsApart(hist.local, mgr.spawn.spawned, Lists, next)
        BY DEF SpawnsInv, IdsInv
      <3>3. hist.local \in SUBSET Nat /\ mgr.spawn.spawned \in Seq(Nat) /\ next \in Nat
            /\ Lists \in [DOMAIN workers -> Seq(Nat)]
        BY IdsTyped
      <3>4. IdsApart(hist.local, mgr.spawn.spawned, ks, next + 1) /\ HasRecorded(DOMAIN workers, Lists, ks, w, next)
        BY <3>1, <3>2, <3>3, IdsWorker
      <3> QED
        BY <2>7, <3>4 DEF HasRecorded
    <2>9. IdsTold(req', Lists')
      <3>1. IdsTold(req, Lists)
        BY DEF SpawnsInv, IdsInv
      <3>2. ASSUME NEW q \in Reqs, q # r, req[q].out = "completed"
            PROVE  \E v \in DOMAIN workers : req[q].id \in ToSet(Lists'[v]) /\ req[q].id # next
        BY <2>6, <2>8, <3>1, <3>2 DEF IdsTold
      <3>3. ASSUME NEW p \in Reqs, req'[p].out = "completed"
            PROVE  /\ \E v \in DOMAIN Lists' : req'[p].id \in ToSet(Lists'[v])
                   /\ \A q \in Reqs \ {p} : req'[q].out = "completed" => req'[p].id # req'[q].id
        <4>1. CASE p = r
          <5>1. req'[p].id = next
            BY <2>3, <2>5, <4>1
          <5>2. \A q \in Reqs \ {p} : req'[q].out = "completed" => req'[q].id # next
            BY <2>5, <3>2, <4>1
          <5> QED
            BY <2>8, <5>1, <5>2
        <4>2. CASE p # r
          <5>1. req'[p] = req[p] /\ req[p].out = "completed"
            BY <2>5, <3>3, <4>2
          <5>2. \A q \in Reqs \ {p} : req'[q].out = "completed" => req[p].id # req'[q].id
            <6> SUFFICES ASSUME NEW q \in Reqs \ {p}, req'[q].out = "completed" PROVE req[p].id # req'[q].id
              OBVIOUS
            <6>1. CASE q = r
              BY <2>3, <2>5, <3>2, <4>2, <5>1, <6>1
            <6>2. CASE q # r
              BY <2>5, <3>1, <5>1, <6>2 DEF IdsTold
            <6> QED
              BY <6>1, <6>2
          <5> QED
            BY <2>8, <3>2, <4>2, <5>1, <5>2
        <4> QED
          BY <4>1, <4>2
      <3> QED
        BY <3>3 DEF IdsTold
    <2>10. IdsInv'
      BY <1>1, <1>6, <2>8, <2>9 DEF IdsInv
    <2>11. \A q \in Reqs : req[q].out # "none" => req'[q].out # "none" /\ req'[q].due = req[q].due
      BY <2>3, <2>5
    <2>12. RegisteredTypeIsFound'
      BY <1>1, <2>3, <2>5 DEF SpawnsInv, FactoriesInv, RegisteredTypeIsFound
    <2>13. ASSUME runtime # "kameo", NEW v \in DOMAIN workers', workers'[v].up
           PROVE  BoxOK(workers'[v].box, workers'[v].manager.factories, hist.since, req')
      <3>1. v \in DOMAIN workers
        BY <2>4
      <3>2. CASE v = w
        <4>1. b \in Seq(WorkerItem)
          BY <1>1, IdsTyped, WorkerItems DEF b
        <4>2. BoxOK(b, fs, hist.since, req')
          BY <1>4, <2>11, <2>13, <4>1, BoxReqs
        <4> QED
          BY <2>1, <2>2, <2>4, <3>2, <4>2
      <3>3. CASE v # w
        <4>1. workers'[v] = workers[v]
          BY <2>4, <3>1, <3>3
        <4>2. BoxOK(workers[v].box, workers[v].manager.factories, hist.since, req)
          BY <2>13, <3>1, <4>1 DEF SpawnsInv, FactoriesInv
        <4> QED
          BY <2>11, <3>1, <4>1, <4>2, IdsTyped, BoxReqs
      <3> QED
        BY <3>2, <3>3
    <2>14. FactoriesInv'
      BY <1>1, <2>12, <2>13 DEF SpawnsInv, FactoriesInv
    <2> QED
      BY <2>10, <2>14 DEF SpawnsInv
  <1>7. CASE /\ next' = next
             /\ workers' = [workers EXCEPT ![w] = [workers[w] EXCEPT !.box = b]]
             /\ req' = [req EXCEPT ![r] = Answered(r, IF item.ty \in fs THEN "bad arguments" ELSE "unknown type")]
    <2> DEFINE x == [workers[w] EXCEPT !.box = b]
               out == IF item.ty \in fs THEN "bad arguments" ELSE "unknown type"
               y == Answered(r, out)
    <2>1. x.box = b /\ x.manager = workers[w].manager
      BY IdsTyped, WorkerFields
    <2>2. out \in {"bad arguments", "unknown type"} /\ (out = "unknown type" => item.ty \notin fs)
      OBVIOUS
    <2>3. req' = [req EXCEPT ![r] = y] /\ workers' = [workers EXCEPT ![w] = x]
      BY <1>7
    <2>4. runtime # "kameo" /\ req[r].due = "known" => item.ty \in fs
      BY <1>1, <1>4, IdsTyped, BoxHead DEF r
    <2> HIDE DEF x, out, item
    <2>5. y.due = req[r].due /\ y.out = IF req[r].out = "awaiting" THEN out ELSE req[r].out
      <3>1. out \in SpawnOuts
        BY <1>5, <2>2
      <3> QED
        BY <1>2, <3>1, SpawnAnswers DEF AnsweredWith
    <2>6. req[r].out # "awaiting" => y = req[r]
      BY DEF Answered
    <2> HIDE DEF y
    <2>7. req'[r] = y /\ \A q \in Reqs : q # r => req'[q] = req[q]
      BY <1>2, <2>3
    <2>8. \A q \in Reqs : req[q].out # "none" => req'[q].out # "none" /\ req'[q].due = req[q].due
      BY <2>2, <2>5, <2>7
    <2>9. \A q \in Reqs : req'[q].out = "completed" => req'[q] = req[q]
      BY <2>2, <2>5, <2>6, <2>7
    <2>10. IdsTold(req', Lists)
      BY <2>9 DEF IdsTold, SpawnsInv, IdsInv
    <2>11. RegisteredTypeIsFound'
      BY <1>1, <2>2, <2>4, <2>5, <2>6, <2>7 DEF SpawnsInv, FactoriesInv, RegisteredTypeIsFound
    <2>12. runtime # "kameo" => BoxOK(b, fs, hist.since, req')
      <3>1. b \in Seq(WorkerItem)
        BY <1>1, IdsTyped, WorkerItems DEF b
      <3> QED
        BY <1>4, <2>8, <3>1, BoxReqs
    <2>13. runtime # "kameo" /\ x.up => BoxOK(x.box, x.manager.factories, hist.since, req')
      BY <2>1, <2>12 DEF fs
    <2>14. x.manager.spawned = workers[w].manager.spawned
      BY <2>1
    <2> QED
      BY <1>1, <1>7, <2>3, <2>8, <2>10, <2>11, <2>13, <2>14, SpawnsWorker
  <1>8. CASE /\ next' = next
             /\ workers' = [workers EXCEPT ![w] = [workers[w] EXCEPT !.box = <<>>, !.up = FALSE]]
             /\ req' = [q \in Reqs |-> IF q \in DroppedReplies(w) THEN Answered(q, "error") ELSE req[q]]
    <2> DEFINE e == <<>>
               x == [workers[w] EXCEPT !.box = e, !.up = FALSE]
    <2>1. workers' = [workers EXCEPT ![w] = x]
      BY <1>8
    <2> HIDE DEF e
    <2>2. x.up = FALSE /\ x.manager = workers[w].manager
      BY IdsTyped, WorkerFields
    <2> HIDE DEF x
    <2>3. ASSUME NEW q \in Reqs
          PROVE  req'[q] = req[q] \/ (req[q].out = "awaiting" /\ req'[q].out = "error" /\ req'[q].due = req[q].due)
      <3>1. req'[q] = Answered(q, "error") \/ req'[q] = req[q]
        BY <1>8
      <3>2. req[q].out # "awaiting" => Answered(q, "error") = req[q]
        BY DEF Answered
      <3> QED
        <4>1. "error" \in SpawnOuts
          BY <1>5
        <4>2. AnsweredWith(Answered(q, "error"), q, "error")
          BY <4>1, SpawnAnswers
        <4> QED
          BY <3>1, <3>2, <4>2 DEF AnsweredWith
    <2>4. ReqsCalm
      BY <2>3 DEF ReqsCalm
    <2>5. IdsTold(req', Lists) /\ RegisteredTypeIsFound'
      BY <1>1, <2>4, ToldCalm, FoundCalm DEF SpawnsInv, IdsInv, FactoriesInv
    <2>6. \A q \in Reqs : req[q].out # "none" => req'[q].out # "none" /\ req'[q].due = req[q].due
      BY <2>4 DEF ReqsCalm
    <2>7. x.manager.spawned = workers[w].manager.spawned
      BY <2>2
    <2>8. runtime # "kameo" /\ x.up => BoxOK(x.box, x.manager.factories, hist.since, req')
      BY <2>2
    <2> QED
      BY <1>1, <1>8, <2>1, <2>5, <2>6, <2>7, <2>8, SpawnsWorker
  <1> HIDE DEF item
  <1> QED
    BY <1>3, <1>6, <1>7, <1>8

\* register_factory, handle_spawn_request, the native spawn managers and local spawns:
\* no two actors of a node share an id, whoever spawned them, and with ractor and coerce
\* a spawn routed after its type was registered never fails for an unknown type.
THEOREM SpawnsStaySound == NodeSpec => []SpawnsAreSound
  <1>1. NodeInit => SpawnsInv
    <2> SUFFICES ASSUME NEW ad, Create(ad) PROVE SpawnsInv
      BY DEF NodeInit, RactorCreate, KameoCreate, CoerceCreate
    <2> DEFINE e == <<>>
    <2>1. ToSet(e) = {} /\ IsInjective(e) /\ DOMAIN e = {}
      BY DEF ToSet, IsInjective
    <2>2. workers = e /\ mgr.spawn.spawned = e /\ hist.local = {} /\ hist.since = {} /\ \A r \in Reqs : req[r].out = "none"
      BY DEF Create, NewSpawnManager
    <2> HIDE DEF e
    <2>3. DOMAIN Lists = {} /\ DOMAIN workers = {}
      BY <2>1, <2>2 DEF Lists
    <2>4. IdList(e, next)
      BY <2>1 DEF IdList
    <2>5. IdsApart(hist.local, e, Lists, next)
      BY <2>1, <2>2, <2>3, <2>4 DEF IdsApart
    <2>6. IdsInv
      BY <2>2, <2>5 DEF IdsInv, IdsTold
    <2>7. FactoriesInv
      BY <2>2, <2>3 DEF FactoriesInv, RegisteredTypeIsFound
    <2> QED
      BY <2>6, <2>7 DEF SpawnsInv
  <1>2. NodeTyped /\ SpawnsInv /\ [NodeNext]_nvars => SpawnsInv'
    <2> SUFFICES ASSUME NodeTyped, SpawnsInv, [NodeNext]_nvars PROVE SpawnsInv'
      OBVIOUS
    <2>1. CASE UNCHANGED nvars
      BY <2>1, SpawnsCalm, CalmSame DEF nvars
    <2>2. CASE RouteStep \/ NativeStep \/ StructStep \/ PeerStep
      BY <2>2, SpawnsElsewhere, SpawnsCalm
    <2>3. CASE SpawningStep
      BY <2>3, SpawnsStart, SpawnsLocal, SpawnsHandled, SpawnsRegistered, SpawnsRouted, SpawnsLearned, SpawnsTried
         DEF SpawningStep
    <2> QED
      BY <2>1, <2>2, <2>3, NodeSteps
  <1> QED
    BY <1>1, <1>2, NodeInitTyped, NodeKeepsTyped, SpawnsImply, PTL DEF NodeSpec
=============================================================================
