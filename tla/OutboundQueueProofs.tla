------------------------ MODULE OutboundQueueProofs ------------------------
(***************************************************************************)
(* Theorems about OutboundQueue, for every set of envelopes, send modes,   *)
(* priorities, capacity, max_consecutive and max_age.                      *)
(***************************************************************************)
EXTENDS OutboundQueue, RetainProofs

-----------------------------------------------------------------------------
(***************************************************************************)
(* What the operators of the queue return.                                 *)
(***************************************************************************)

LEMMA PriorityType ==
    ASSUME NEW e \in Envelopes
    PROVE  ExtractPriority(e) \in Nat /\ LaneIndexFromPriority(ExtractPriority(e)) \in Lanes
  <1>1. ExtractPriority(e) \in 0..255
    BY QueueAssumption DEF ExtractPriority
  <1> QED
    BY <1>1 DEF LaneIndexFromPriority, Lanes

\* The linear scan of the comparer mode always finds its position: the
\* comparer, ageing or not, has a first element in every non-empty queue.
LEMMA BestIsFirst ==
    ASSUME TypeOK, sorted # <<>>
    PROVE  /\ Best \in DOMAIN sorted
           /\ \A j \in DOMAIN sorted : ~CompareLess(j, Best)
  <1> DEFINE IsBest(i) == \A j \in DOMAIN sorted :
                              ~CompareLess(j, i) /\ (j < i => CompareLess(i, j))
  <1>1. /\ DOMAIN sorted = 1..Len(sorted) /\ Len(sorted) \in Nat \ {0}
        /\ \A i \in DOMAIN sorted : sorted[i] \in Envelopes
    <2>1. sorted \in Seq(Envelopes)
      BY DEF TypeOK
    <2> QED
      BY <2>1, LenProperties, EmptySeq
  <1>2. \A i \in DOMAIN sorted : ExtractPriority(sorted[i]) \in Nat
    <2>1. \A e \in Envelopes : ExtractPriority(e) \in Nat
      BY PriorityType
    <2> QED
      BY <1>1, <2>1
  <1>3. CASE mode = "aging" /\ \E i \in DOMAIN sorted : IsAged(i)
    <2> DEFINE A == {i \in DOMAIN sorted : IsAged(i)}
    <2>1. PICK i \in A : \A j \in A : i <= j
      <3>1. A \subseteq Nat /\ A # {}
        BY <1>1, <1>3
      <3> HIDE DEF A
      <3> QED
        BY <3>1, LeastNat
    <2>2. i \in DOMAIN sorted /\ IsBest(i)
      BY <1>1, <1>3, <2>1 DEF CompareLess
    <2> QED
      BY <2>2 DEF Best
  <1>4. CASE ~(mode = "aging" /\ \E i \in DOMAIN sorted : IsAged(i))
    <2> DEFINE P == {ExtractPriority(sorted[i]) : i \in DOMAIN sorted}
    <2>1. PICK p \in P : \A q \in P : p <= q
      <3>1. P \subseteq Nat
        BY <1>2
      <3>2. 1 \in DOMAIN sorted
        BY <1>1
      <3>3. P # {}
        BY <3>2
      <3> HIDE DEF P
      <3> QED
        BY <3>1, <3>3, LeastNat
    <2> DEFINE I == {i \in DOMAIN sorted : ExtractPriority(sorted[i]) = p}
    <2>2. PICK i \in I : \A j \in I : i <= j
      <3>1. I \subseteq Nat /\ I # {}
        BY <1>1, <2>1
      <3> HIDE DEF I
      <3> QED
        BY <3>1, LeastNat
    <2>3. i \in DOMAIN sorted /\ IsBest(i)
      <3> SUFFICES ASSUME NEW j \in DOMAIN sorted
                   PROVE  ~CompareLess(j, i) /\ (j < i => CompareLess(i, j))
        BY <2>2
      <3>1. /\ CompareLess(i, j) <=> ExtractPriority(sorted[i]) < ExtractPriority(sorted[j])
            /\ CompareLess(j, i) <=> ExtractPriority(sorted[j]) < ExtractPriority(sorted[i])
        BY <1>4, <2>2 DEF CompareLess
      <3>2. p <= ExtractPriority(sorted[j]) /\ ExtractPriority(sorted[i]) = p
        BY <2>1, <2>2
      <3>3. p \in Nat /\ ExtractPriority(sorted[j]) \in Nat
        BY <1>2, <2>1
      <3>4. j < i => ExtractPriority(sorted[j]) # p
        BY <1>1, <2>2
      <3> QED
        BY <3>1, <3>2, <3>3, <3>4
    <2> QED
      BY <2>3 DEF Best
  <1> QED
    BY <1>3, <1>4

\* Removing position k of a queue takes one entry and keeps the others.
LEMMA RemoveAt ==
    ASSUME NEW q \in Seq(Envelopes), NEW k \in DOMAIN q,
           NEW r, r = SubSeq(q, 1, k - 1) \o SubSeq(q, k + 1, Len(q))
    PROVE  /\ r \in Seq(Envelopes)
           /\ Len(r) = Len(q) - 1
           /\ \A i \in DOMAIN q : i # k => q[i] \in Elems(r)
  <1> DEFINE a == SubSeq(q, 1, k - 1)
             b == SubSeq(q, k + 1, Len(q))
  <1>1. /\ k \in 1..Len(q) /\ Len(q) \in Nat /\ DOMAIN q = 1..Len(q)
        /\ \A i \in 1..Len(q) : q[i] \in Envelopes
    BY LenProperties
  <1>2. a \in Seq(Envelopes) /\ Len(a) = k - 1 /\ \A i \in 1..(k - 1) : a[i] = q[i]
    <2>1. 1 \in Int /\ k - 1 \in Int /\ \A i \in 1..(k - 1) : q[i] \in Envelopes
      BY <1>1
    <2> QED
      BY <1>1, <2>1, SubSeqProperties
  <1>3. /\ b \in Seq(Envelopes) /\ Len(b) = Len(q) - k
        /\ \A i \in 1..(Len(q) - k) : b[i] = q[k + i]
    <2>1. k + 1 \in Int /\ Len(q) \in Int /\ \A i \in (k + 1)..Len(q) : q[i] \in Envelopes
      BY <1>1
    <2>2. /\ b \in Seq(Envelopes) /\ Len(b) = IF k + 1 <= Len(q) THEN Len(q) - (k + 1) + 1 ELSE 0
          /\ \A i \in 1..(Len(q) - (k + 1) + 1) : b[i] = q[(k + 1) + i - 1]
      BY <2>1, SubSeqProperties
    <2> QED
      BY <1>1, <2>2
  <1>r. r = a \o b
    OBVIOUS
  <1> HIDE DEF a, b
  <1>4. /\ r \in Seq(Envelopes) /\ Len(r) = Len(q) - 1 /\ DOMAIN r = 1..(Len(q) - 1)
        /\ \A i \in 1..(Len(q) - 1) : r[i] = IF i <= k - 1 THEN a[i] ELSE b[i - (k - 1)]
    <2>1. /\ a \o b \in Seq(Envelopes) /\ Len(a \o b) = Len(a) + Len(b)
          /\ \A i \in 1..(Len(a) + Len(b)) :
                (a \o b)[i] = IF i <= Len(a) THEN a[i] ELSE b[i - Len(a)]
      BY <1>2, <1>3, ConcatProperties
    <2>2. Len(a) + Len(b) = Len(q) - 1
      BY <1>1, <1>2, <1>3
    <2>3. /\ r \in Seq(Envelopes) /\ Len(r) = Len(q) - 1
          /\ \A i \in 1..(Len(q) - 1) : r[i] = IF i <= Len(a) THEN a[i] ELSE b[i - Len(a)]
      BY <2>1, <2>2, <1>r, Zenon
    <2> QED
      BY <1>2, <2>3, LenProperties
  <1>5. ASSUME NEW i \in DOMAIN q, i # k PROVE q[i] \in Elems(r)
    <2>1. CASE i < k
      <3>1. i \in 1..(Len(q) - 1) /\ i <= k - 1 /\ i \in 1..(k - 1)
        BY <1>1, <2>1
      <3>2. r[i] = q[i]
        BY <1>2, <1>4, <3>1
      <3> QED
        BY <1>4, <3>1, <3>2 DEF Elems
    <2>2. CASE i > k
      <3>1. i - 1 \in 1..(Len(q) - 1) /\ ~(i - 1 <= k - 1) /\ (i - 1) - (k - 1) = i - k
        BY <1>1, <2>2
      <3>2. r[i - 1] = b[i - k]
        BY <1>4, <3>1
      <3>3. i - k \in 1..(Len(q) - k) /\ k + (i - k) = i
        BY <1>1, <2>2
      <3>4. b[i - k] = q[i]
        BY <1>3, <3>3
      <3> QED
        BY <1>4, <3>1, <3>2, <3>4 DEF Elems
    <2> QED
      BY <1>1, <1>5, <2>1, <2>2
  <1> QED
    BY <1>4, <1>5

\* While some lane has an entry, going round from any lane finds one that has;
\* it is another lane when the round starts behind the lane and another waits.
LEMMA NextLane ==
    ASSUME TypeOK, \E l \in Lanes : lanes[l] # <<>>, NEW start \in 0..5
    PROVE  /\ NextNonEmptyLane(start) \in Lanes
           /\ lanes[NextNonEmptyLane(start)] # <<>>
           /\ \A k \in Lanes : (start = k + 1 /\ OtherLaneWaits(k)) => NextNonEmptyLane(start) # k
  <1> DEFINE I == {i \in Lanes : lanes[(start + i) % 5] # <<>>}
             Found(l) == \E i \in Lanes :
                            /\ l = (start + i) % 5 /\ lanes[l] # <<>>
                            /\ \A j \in Lanes : j < i => lanes[(start + j) % 5] = <<>>
  <1>1. \A l \in Lanes : \E i \in Lanes : (start + i) % 5 = l
    <2> TAKE l \in Lanes
    <2>1. CASE start <= l
      <3>1. l - start \in Lanes /\ (start + (l - start)) % 5 = l
        BY <2>1 DEF Lanes
      <3> QED
        BY <3>1
    <2>2. CASE start > l
      <3>1. l + 5 - start \in Lanes /\ (start + (l + 5 - start)) % 5 = l
        BY <2>2 DEF Lanes
      <3> QED
        BY <3>1
    <2> QED
      BY <2>1, <2>2 DEF Lanes
  <1>2. \A i \in Lanes : (start + i) % 5 \in Lanes
    BY DEF Lanes
  <1>3. PICK i \in I : \A j \in I : i <= j
    <2>1. I \subseteq Nat
      BY DEF Lanes
    <2>2. PICK l \in Lanes : lanes[l] # <<>>
      OBVIOUS
    <2>3. PICK h \in Lanes : (start + h) % 5 = l
      BY <1>1
    <2>4. h \in I
      BY <2>2, <2>3
    <2> HIDE DEF I
    <2> QED
      BY <2>1, <2>4, LeastNat
  <1>4. (start + i) % 5 \in Lanes /\ Found((start + i) % 5)
    <2>1. i \in Lanes /\ lanes[(start + i) % 5] # <<>>
      BY <1>3
    <2>2. \A j \in Lanes : j < i => lanes[(start + j) % 5] = <<>>
      <3> SUFFICES ASSUME NEW j \in Lanes, j < i, lanes[(start + j) % 5] # <<>> PROVE FALSE
        OBVIOUS
      <3>1. i <= j
        BY <1>3
      <3> QED
        BY <2>1, <3>1 DEF Lanes
    <2> QED
      BY <1>2, <2>1, <2>2
  <1>5. NextNonEmptyLane(start) \in Lanes /\ Found(NextNonEmptyLane(start))
    BY <1>4 DEF NextNonEmptyLane
  <1>6. ASSUME NEW k \in Lanes, start = k + 1, OtherLaneWaits(k), Found(k)
        PROVE  FALSE
    <2>1. PICK m \in Lanes \ {k} : lanes[m] # <<>>
      BY <1>6 DEF OtherLaneWaits
    <2>2. PICK h \in Lanes : k = (start + h) % 5 /\ \A j \in Lanes : j < h => lanes[(start + j) % 5] = <<>>
      BY <1>6
    <2>3. h = 4
      BY <1>6, <2>2 DEF Lanes
    <2>4. PICK n \in Lanes : (start + n) % 5 = m
      BY <1>1, <2>1
    <2>5. n # 4
      BY <1>6, <2>1, <2>4 DEF Lanes
    <2> QED
      BY <2>1, <2>2, <2>3, <2>4, <2>5 DEF Lanes
  <1> QED
    BY <1>5, <1>6

-----------------------------------------------------------------------------
(***************************************************************************)
(* The counters.  LaneTurns is not inductive: that a lane is not served    *)
(* for longer than its share follows from consecutive_from_lane, which     *)
(* bounds the streak and belongs to the lane of the streak.                *)
(***************************************************************************)

\* The length of a queue, under a name of its own: the provers add up terms
\* that they need not look into.
Size(q) == Len(q)

LaneTotal(f) == Size(f[0]) + Size(f[1]) + Size(f[2]) + Size(f[3]) + Size(f[4])

TurnInv ==
    /\ consecutive_from_lane <= MaxConsecutive
    /\ streak[2] <= consecutive_from_lane
    /\ streak[2] > 0 => streak[1] = current_lane

QueueInv == TotalIsExact /\ TurnInv

LEMMA SizeType ==
    ASSUME NEW q \in Seq(Envelopes)
    PROVE  Size(q) \in Nat
  BY LenProperties DEF Size

LEMMA LaneSizes ==
    ASSUME NEW f \in [Lanes -> Seq(Envelopes)]
    PROVE  /\ Size(f[0]) \in Nat /\ Size(f[1]) \in Nat /\ Size(f[2]) \in Nat
           /\ Size(f[3]) \in Nat /\ Size(f[4]) \in Nat /\ LaneTotal(f) \in Nat
  <1>1. \A k \in Lanes : Size(f[k]) \in Nat
    BY SizeType
  <1>2. /\ Size(f[0]) \in Nat /\ Size(f[1]) \in Nat /\ Size(f[2]) \in Nat
        /\ Size(f[3]) \in Nat /\ Size(f[4]) \in Nat
    BY <1>1 DEF Lanes
  <1> QED
    BY <1>2 DEF LaneTotal

LEMMA LaneReplace ==
    ASSUME NEW f \in [Lanes -> Seq(Envelopes)], NEW l \in Lanes, NEW q \in Seq(Envelopes)
    PROVE  /\ [f EXCEPT ![l] = q] \in [Lanes -> Seq(Envelopes)]
           /\ LaneTotal([f EXCEPT ![l] = q]) = LaneTotal(f) - Size(f[l]) + Size(q)
  <1> DEFINE g == [f EXCEPT ![l] = q]
  <1>1. g \in [Lanes -> Seq(Envelopes)] /\ \A k \in Lanes : g[k] = IF k = l THEN q ELSE f[k]
    OBVIOUS
  <1> HIDE DEF g
  <1>2. /\ g[0] = IF 0 = l THEN q ELSE f[0]
        /\ g[1] = IF 1 = l THEN q ELSE f[1]
        /\ g[2] = IF 2 = l THEN q ELSE f[2]
        /\ g[3] = IF 3 = l THEN q ELSE f[3]
        /\ g[4] = IF 4 = l THEN q ELSE f[4]
    BY <1>1 DEF Lanes
  <1>3. LaneTotal(g) = LaneTotal(f) - Size(f[l]) + Size(q)
    <2>1. /\ Size(f[0]) \in Nat /\ Size(f[1]) \in Nat /\ Size(f[2]) \in Nat
          /\ Size(f[3]) \in Nat /\ Size(f[4]) \in Nat /\ Size(q) \in Nat
      BY SizeType, LaneSizes
    <2>2. CASE l = 0
      BY <1>2, <2>1, <2>2 DEF LaneTotal
    <2>3. CASE l = 1
      BY <1>2, <2>1, <2>3 DEF LaneTotal
    <2>4. CASE l = 2
      BY <1>2, <2>1, <2>4 DEF LaneTotal
    <2>5. CASE l = 3
      BY <1>2, <2>1, <2>5 DEF LaneTotal
    <2>6. CASE l = 4
      BY <1>2, <2>1, <2>6 DEF LaneTotal
    <2> QED
      BY <2>2, <2>3, <2>4, <2>5, <2>6 DEF Lanes
  <1> QED
    BY <1>1, <1>3 DEF g

LEMMA SumOfSeven ==
    ASSUME NEW p \in Nat, NEW q \in Nat, NEW v \in Nat, NEW w \in Nat, NEW x \in Nat,
           NEW y \in Nat, NEW z \in Nat
    PROVE  p + q + v + w + x + y + z = p + q + (v + w + x + y + z)
  OBVIOUS

\* The sizes of the parts of a queue.
LEMMA Sizes ==
    ASSUME NEW a \in Seq(Envelopes), NEW b \in Seq(Envelopes),
           NEW f \in [Lanes -> Seq(Envelopes)]
    PROVE  Len(a) + Len(b) + Len(f[0]) + Len(f[1]) + Len(f[2]) + Len(f[3]) + Len(f[4])
             = Size(a) + Size(b) + LaneTotal(f)
  <1>1. /\ Size(f[0]) \in Nat /\ Size(f[1]) \in Nat /\ Size(f[2]) \in Nat
        /\ Size(f[3]) \in Nat /\ Size(f[4]) \in Nat /\ Size(a) \in Nat /\ Size(b) \in Nat
    BY SizeType, LaneSizes
  <1>2. Size(a) + Size(b) + Size(f[0]) + Size(f[1]) + Size(f[2]) + Size(f[3]) + Size(f[4])
           = Size(a) + Size(b) + LaneTotal(f)
    <2> DEFINE v == Size(f[0])  w == Size(f[1])  x == Size(f[2])  y == Size(f[3])
               z == Size(f[4])  p == Size(a)  q == Size(b)
    <2>1. p \in Nat /\ q \in Nat /\ v \in Nat /\ w \in Nat /\ x \in Nat /\ y \in Nat /\ z \in Nat
      BY <1>1
    <2>2. LaneTotal(f) = v + w + x + y + z
      BY DEF LaneTotal
    <2> HIDE DEF p, q, v, w, x, y, z
    <2>3. p + q + v + w + x + y + z = p + q + (v + w + x + y + z)
      BY <2>1, SumOfSeven
    <2>4. p + q + v + w + x + y + z = p + q + LaneTotal(f)
      BY <2>2, <2>3, Zenon
    <2> QED
      BY <2>4, Zenon DEF p, q, v, w, x, y, z
  <1> QED
    BY <1>2, Zenon DEF Size

\* What the queue holds, in a form that the steps below change part by part.
Parts(a, b, f, n) ==
    /\ a \in Seq(Envelopes) /\ b \in Seq(Envelopes) /\ f \in [Lanes -> Seq(Envelopes)]
    /\ n = Size(a) + Size(b) + LaneTotal(f)

Others ==
    /\ mode \in Modes
    /\ current_lane \in Lanes
    /\ consecutive_from_lane \in Nat
    /\ age \in [Envelopes -> 0..MaxAge]
    /\ lastSource \in {"none", "stream", "priority"}
    /\ streak \in Lanes \X Nat

LEMMA PartsType ==
    ASSUME NEW a, NEW b, NEW f, NEW n, Parts(a, b, f, n)
    PROVE  /\ a \in Seq(Envelopes) /\ b \in Seq(Envelopes) /\ f \in [Lanes -> Seq(Envelopes)]
           /\ Size(a) \in Nat /\ Size(b) \in Nat /\ LaneTotal(f) \in Nat /\ n \in Nat
           /\ n = Size(a) + Size(b) + LaneTotal(f)
  BY SizeType, LaneSizes DEF Parts

LEMMA ExactInParts ==
    TotalIsExact <=> /\ Parts(stream_fifo, sorted, lanes, total) /\ Others
                     /\ Capacity > 0 => total <= Capacity
  <1>1. TotalIsExact => /\ Parts(stream_fifo, sorted, lanes, total) /\ Others
                        /\ Capacity > 0 => total <= Capacity
    BY Sizes DEF TotalIsExact, TypeOK, Parts, Others
  <1>2. ASSUME Parts(stream_fifo, sorted, lanes, total), Others,
               Capacity > 0 => total <= Capacity
        PROVE  TotalIsExact
    BY <1>2, Sizes, PartsType DEF TotalIsExact, TypeOK, Parts, Others
  <1> QED
    BY <1>1, <1>2

LEMMA ExactInPartsNext ==
    ASSUME Parts(stream_fifo', sorted', lanes', total'), Others',
           Capacity > 0 => total' <= Capacity
    PROVE  TotalIsExact'
  BY Sizes, PartsType DEF TotalIsExact, TypeOK, Parts, Others

LEMMA InitQueue == Init => QueueInv
  <1> SUFFICES ASSUME Init PROVE QueueInv
    OBVIOUS
  <1>1. TypeOK
    BY QueueAssumption DEF Init, TypeOK, Lanes
  <1> QED
    BY <1>1, QueueAssumption DEF Init, QueueInv, TotalIsExact, TurnInv, Lanes

LEMMA PushKeeps ==
    ASSUME QueueInv, NEW e \in Envelopes, Push(e)
    PROVE  QueueInv'
  <1>1. /\ Parts(stream_fifo, sorted, lanes, total) /\ Others
        /\ Capacity = 0 \/ total < Capacity
        /\ Capacity > 0 => total <= Capacity
    BY ExactInParts DEF QueueInv, Push
  <1>2. /\ total' = total + 1 /\ age' = [age EXCEPT ![e] = 0] /\ lastSource' = "none"
        /\ UNCHANGED <<mode, current_lane, consecutive_from_lane, streak>>
    BY DEF Push
  <1>3. Parts(stream_fifo', sorted', lanes', total')
    <2> DEFINE l == LaneIndexFromPriority(ExtractPriority(e))
    <2>1. /\ stream_fifo \in Seq(Envelopes) /\ sorted \in Seq(Envelopes)
          /\ lanes \in [Lanes -> Seq(Envelopes)]
          /\ Size(stream_fifo) \in Nat /\ Size(sorted) \in Nat /\ LaneTotal(lanes) \in Nat
          /\ total = Size(stream_fifo) + Size(sorted) + LaneTotal(lanes)
      BY <1>1, PartsType
    <2>2. CASE stream_fifo' = Append(stream_fifo, e) /\ UNCHANGED <<lanes, sorted>>
      <3>1. stream_fifo' \in Seq(Envelopes) /\ Size(stream_fifo') = Size(stream_fifo) + 1
        BY <2>1, <2>2, AppendProperties DEF Size
      <3> QED
        BY <1>2, <2>1, <2>2, <3>1 DEF Parts
    <2>3. CASE sorted' = Append(sorted, e) /\ UNCHANGED <<lanes, stream_fifo>>
      <3>1. sorted' \in Seq(Envelopes) /\ Size(sorted') = Size(sorted) + 1
        BY <2>1, <2>3, AppendProperties DEF Size
      <3> QED
        BY <1>2, <2>1, <2>3, <3>1 DEF Parts
    <2>4. CASE lanes' = [lanes EXCEPT ![l] = Append(@, e)] /\ UNCHANGED <<sorted, stream_fifo>>
      <3>1. l \in Lanes
        BY PriorityType
      <3> HIDE DEF l
      <3>2. /\ Append(lanes[l], e) \in Seq(Envelopes)
            /\ Size(Append(lanes[l], e)) = Size(lanes[l]) + 1
            /\ Size(lanes[l]) \in Nat
        BY <2>1, <3>1, AppendProperties, LenProperties DEF Size
      <3>3. /\ lanes' \in [Lanes -> Seq(Envelopes)]
            /\ LaneTotal(lanes') = LaneTotal(lanes) - Size(lanes[l]) + Size(Append(lanes[l], e))
        BY <2>1, <2>4, <3>1, <3>2, LaneReplace
      <3> QED
        BY <1>2, <2>1, <2>4, <3>2, <3>3 DEF Parts
    <2> QED
      BY <2>2, <2>3, <2>4 DEF Push
  <1>4. Others'
    BY <1>1, <1>2, QueueAssumption DEF Others
  <1>5. Capacity > 0 => total' <= Capacity
    BY <1>1, <1>2, PartsType, QueueAssumption
  <1>6. TurnInv'
    BY <1>2 DEF QueueInv, TurnInv
  <1> QED
    BY <1>3, <1>4, <1>5, <1>6, ExactInPartsNext DEF QueueInv

LEMMA PopStreamKeeps ==
    ASSUME Parts(stream_fifo, sorted, lanes, total), PopStream
    PROVE  Parts(stream_fifo', sorted', lanes', total')
  <1>1. /\ stream_fifo \in Seq(Envelopes) /\ sorted \in Seq(Envelopes)
        /\ lanes \in [Lanes -> Seq(Envelopes)]
        /\ Size(stream_fifo) \in Nat /\ Size(sorted) \in Nat /\ LaneTotal(lanes) \in Nat
        /\ total = Size(stream_fifo) + Size(sorted) + LaneTotal(lanes)
    BY PartsType
  <1>2. stream_fifo' \in Seq(Envelopes) /\ Size(stream_fifo') = Size(stream_fifo) - 1
    BY <1>1, HeadTailProperties DEF PopStream, HasStream, Size
  <1> QED
    BY <1>1, <1>2 DEF PopStream, Parts

LEMMA PopComparerKeeps ==
    ASSUME TypeOK, Parts(stream_fifo, sorted, lanes, total), PopComparer
    PROVE  Parts(stream_fifo', sorted', lanes', total')
  <1>1. /\ stream_fifo \in Seq(Envelopes) /\ sorted \in Seq(Envelopes)
        /\ lanes \in [Lanes -> Seq(Envelopes)]
        /\ Size(stream_fifo) \in Nat /\ Size(sorted) \in Nat /\ LaneTotal(lanes) \in Nat
        /\ total = Size(stream_fifo) + Size(sorted) + LaneTotal(lanes)
    BY PartsType
  <1>2. Best \in DOMAIN sorted
    BY BestIsFirst DEF PopComparer
  <1>3. sorted' = SubSeq(sorted, 1, Best - 1) \o SubSeq(sorted, Best + 1, Len(sorted))
    BY DEF PopComparer
  <1>4. sorted' \in Seq(Envelopes) /\ Len(sorted') = Len(sorted) - 1
    BY <1>1, <1>2, <1>3, RemoveAt
  <1>5. Size(sorted') = Size(sorted) - 1
    BY <1>4 DEF Size
  <1> QED
    BY <1>1, <1>4, <1>5 DEF PopComparer, Parts

LEMMA TakeKeeps ==
    ASSUME Parts(stream_fifo, sorted, lanes, total),
           NEW l \in Lanes, lanes[l] # <<>>, TakeFrom(l)
    PROVE  Parts(stream_fifo', sorted', lanes', total')
  <1>1. /\ stream_fifo \in Seq(Envelopes) /\ sorted \in Seq(Envelopes)
        /\ lanes \in [Lanes -> Seq(Envelopes)]
        /\ Size(stream_fifo) \in Nat /\ Size(sorted) \in Nat /\ LaneTotal(lanes) \in Nat
        /\ total = Size(stream_fifo) + Size(sorted) + LaneTotal(lanes)
    BY PartsType
  <1>2. lanes[l] \in Seq(Envelopes)
    BY <1>1
  <1>3. Tail(lanes[l]) \in Seq(Envelopes) /\ Size(Tail(lanes[l])) = Size(lanes[l]) - 1
    BY <1>2, HeadTailProperties DEF Size
  <1>4. Size(lanes[l]) \in Nat
    BY <1>2, SizeType
  <1>5. /\ lanes' \in [Lanes -> Seq(Envelopes)]
        /\ LaneTotal(lanes') = LaneTotal(lanes) - Size(lanes[l]) + Size(Tail(lanes[l]))
    BY <1>1, <1>3, LaneReplace DEF TakeFrom
  <1> QED
    BY <1>1, <1>3, <1>4, <1>5 DEF TakeFrom, Parts

\* pop_fair keeps to its lane or goes to another: a lane whose share is used up,
\* or that is empty, is not taken again while another one waits.
LEMMA FairTurn ==
    ASSUME TypeOK, \E l \in Lanes : lanes[l] # <<>>
    PROVE  /\ FairLane \in Lanes /\ lanes[FairLane] # <<>>
           /\ KeepsLane => FairLane = current_lane
           /\ (~KeepsLane /\ OtherLaneWaits(FairLane)) => FairLane # current_lane
  <1>1. current_lane \in Lanes /\ consecutive_from_lane \in Nat /\ MaxConsecutive \in Nat
    BY QueueAssumption DEF TypeOK
  <1>2. current_lane + 1 \in 0..5 /\ 0 \in 0..5
    BY <1>1 DEF Lanes
  <1>3. CASE consecutive_from_lane >= MaxConsecutive
    <2>1. FairLane = NextNonEmptyLane(current_lane + 1) /\ ~KeepsLane
      BY <1>1, <1>3 DEF FairLane, KeepsLane
    <2>2. /\ FairLane \in Lanes /\ lanes[FairLane] # <<>>
          /\ OtherLaneWaits(current_lane) => FairLane # current_lane
      BY <1>1, <1>2, <2>1, NextLane
    <2> QED
      BY <2>1, <2>2
  <1>4. CASE ~(consecutive_from_lane >= MaxConsecutive) /\ lanes[current_lane] = <<>>
    <2>1. FairLane = NextNonEmptyLane(0) /\ ~KeepsLane
      BY <1>1, <1>4 DEF FairLane, KeepsLane
    <2>2. FairLane \in Lanes /\ lanes[FairLane] # <<>>
      BY <1>2, <2>1, NextLane
    <2> QED
      BY <1>4, <2>1, <2>2
  <1>5. CASE ~(consecutive_from_lane >= MaxConsecutive) /\ lanes[current_lane] # <<>>
    <2>1. FairLane = current_lane /\ KeepsLane
      BY <1>1, <1>5 DEF FairLane, KeepsLane
    <2> QED
      BY <1>1, <1>5, <2>1
  <1> QED
    BY <1>3, <1>4, <1>5

LEMMA FairKeepsTurns ==
    ASSUME TypeOK, TurnInv, PopFair
    PROVE  /\ TurnInv' /\ current_lane' \in Lanes /\ consecutive_from_lane' \in Nat
           /\ streak' \in Lanes \X Nat
  <1>1. /\ FairLane \in Lanes
        /\ KeepsLane => FairLane = current_lane
        /\ (~KeepsLane /\ OtherLaneWaits(FairLane)) => FairLane # current_lane
    BY FairTurn DEF PopFair
  <1>2. /\ streak \in Lanes \X Nat /\ streak[1] \in Lanes /\ streak[2] \in Nat
        /\ consecutive_from_lane \in Nat /\ MaxConsecutive \in Nat \ {0}
    BY QueueAssumption DEF TypeOK
  <1>3. /\ current_lane' = FairLane
        /\ consecutive_from_lane' = IF KeepsLane THEN consecutive_from_lane + 1 ELSE 1
        /\ streak' = IF ~OtherLaneWaits(FairLane) THEN <<FairLane, 0>>
                     ELSE IF streak[1] = FairLane THEN <<FairLane, streak[2] + 1>>
                     ELSE <<FairLane, 1>>
    BY DEF PopFair
  <1>4. /\ consecutive_from_lane' \in Nat /\ consecutive_from_lane' <= MaxConsecutive
        /\ consecutive_from_lane' >= 1
        /\ KeepsLane => consecutive_from_lane' = consecutive_from_lane + 1
    BY <1>2, <1>3 DEF KeepsLane
  <1>5. CASE ~OtherLaneWaits(FairLane)
    BY <1>1, <1>2, <1>3, <1>4, <1>5 DEF TurnInv
  <1>6. CASE OtherLaneWaits(FairLane) /\ streak[1] # FairLane
    BY <1>1, <1>2, <1>3, <1>4, <1>6 DEF TurnInv
  <1>7. CASE OtherLaneWaits(FairLane) /\ streak[1] = FairLane
    BY <1>1, <1>2, <1>3, <1>4, <1>7 DEF TurnInv
  <1> QED
    BY <1>5, <1>6, <1>7

LEMMA PopKeeps ==
    ASSUME QueueInv, Pop
    PROVE  QueueInv'
  <1>1. /\ TypeOK /\ TurnInv /\ Parts(stream_fifo, sorted, lanes, total) /\ Others
        /\ Capacity > 0 => total <= Capacity
    BY ExactInParts DEF QueueInv, TotalIsExact
  <1>2. /\ UNCHANGED <<mode, age>> /\ lastSource' \in {"none", "stream", "priority"}
    BY DEF Pop
  <1>3. /\ Parts(stream_fifo', sorted', lanes', total') /\ TurnInv'
        /\ current_lane' \in Lanes /\ consecutive_from_lane' \in Nat /\ streak' \in Lanes \X Nat
        /\ total' = total - 1
    <2>1. ASSUME UNCHANGED <<current_lane, consecutive_from_lane, streak>>
          PROVE  /\ TurnInv' /\ current_lane' \in Lanes /\ consecutive_from_lane' \in Nat
                 /\ streak' \in Lanes \X Nat
      BY <1>1, <2>1 DEF TurnInv, Others
    <2>2. CASE PopStream
      BY <1>1, <2>1, <2>2, PopStreamKeeps DEF PopStream
    <2>3. CASE PopComparer
      BY <1>1, <2>1, <2>3, PopComparerKeeps DEF PopComparer
    <2>4. CASE PopStrict
      <3>1. NextNonEmptyLane(0) \in Lanes /\ lanes[NextNonEmptyLane(0)] # <<>>
        BY <1>1, <2>4, NextLane DEF PopStrict
      <3> QED
        BY <1>1, <2>1, <2>4, <3>1, TakeKeeps DEF PopStrict, TakeFrom
    <2>5. CASE PopFair
      <3>1. FairLane \in Lanes /\ lanes[FairLane] # <<>> /\ TakeFrom(FairLane)
        BY <1>1, <2>5, FairTurn DEF PopFair
      <3>2. Parts(stream_fifo', sorted', lanes', total') /\ total' = total - 1
        BY <1>1, <3>1, TakeKeeps DEF TakeFrom
      <3> QED
        BY <1>1, <2>5, <3>2, FairKeepsTurns
    <2> QED
      BY <2>2, <2>3, <2>4, <2>5 DEF Pop, PopPriority
  <1>4. Others'
    BY <1>1, <1>2, <1>3 DEF Others
  <1>5. total \in Nat /\ Capacity \in Nat
    BY <1>1, PartsType, QueueAssumption
  <1>6. Capacity > 0 => total' <= Capacity
    BY <1>1, <1>3, <1>5
  <1> QED
    BY <1>3, <1>4, <1>6, ExactInPartsNext DEF QueueInv

LEMMA DrainKeeps ==
    ASSUME QueueInv, DrainOrdered
    PROVE  QueueInv'
  <1>1. Others
    BY ExactInParts DEF QueueInv
  <1>2. Parts(stream_fifo', sorted', lanes', total')
    <2>1. /\ stream_fifo' = <<>> /\ sorted' = <<>> /\ lanes' = [l \in Lanes |-> <<>>]
          /\ total' = 0
      BY DEF DrainOrdered
    <2>2. Size(<<>>) = 0 /\ <<>> \in Seq(Envelopes)
      BY DEF Size
    <2>3. /\ lanes'[0] = <<>> /\ lanes'[1] = <<>> /\ lanes'[2] = <<>>
          /\ lanes'[3] = <<>> /\ lanes'[4] = <<>>
      BY <2>1 DEF Lanes
    <2> QED
      BY <2>1, <2>2, <2>3 DEF Parts, LaneTotal
  <1>3. Others' /\ TurnInv'
    BY <1>1, QueueAssumption DEF Others, DrainOrdered, TurnInv, Lanes
  <1>4. Capacity > 0 => total' <= Capacity
    BY QueueAssumption DEF DrainOrdered
  <1> QED
    BY <1>2, <1>3, <1>4, ExactInPartsNext DEF QueueInv

LEMMA TickKeeps ==
    ASSUME QueueInv, Tick
    PROVE  QueueInv'
  <1>1. /\ Parts(stream_fifo, sorted, lanes, total) /\ Others /\ TurnInv
        /\ Capacity > 0 => total <= Capacity
    BY ExactInParts DEF QueueInv
  <1>2. age' \in [Envelopes -> 0..MaxAge]
    BY <1>1, QueueAssumption DEF Tick, Others
  <1>3. Others' /\ TurnInv' /\ Parts(stream_fifo', sorted', lanes', total')
    BY <1>1, <1>2 DEF Others, Tick, TurnInv
  <1> QED
    BY <1>1, <1>3, ExactInPartsNext DEF QueueInv, Tick

LEMMA NextKeeps == QueueInv /\ [Next]_vars => QueueInv'
  <1> SUFFICES ASSUME QueueInv, [Next]_vars PROVE QueueInv'
    OBVIOUS
  <1>1. CASE UNCHANGED vars
    BY <1>1 DEF vars, QueueInv, TotalIsExact, TypeOK, TurnInv
  <1> QED
    BY <1>1, PushKeeps, PopKeeps, DrainKeeps, TickKeeps DEF Next

LEMMA QueueInvariant == Spec => []QueueInv
  BY InitQueue, NextKeeps, PTL DEF Spec

\* After any mix of pushes, pops, drains and ticks, in every configuration, total is the
\* number of queued envelopes and within the capacity, and while another lane waits
\* pop_fair serves no lane more than max_consecutive times in a row.
THEOREM CountersStayExact == Spec => []CountersAreExact
  <1>1. ASSUME QueueInv PROVE CountersAreExact
    <2>1. streak[2] \in Nat /\ consecutive_from_lane \in Nat /\ MaxConsecutive \in Nat
      BY <1>1, ExactInParts, QueueAssumption DEF QueueInv, Others
    <2>2. streak[2] <= MaxConsecutive
      BY <1>1, <2>1 DEF QueueInv, TurnInv
    <2> QED
      BY <1>1, <2>2 DEF QueueInv, CountersAreExact, LaneTurns
  <1> QED
    BY <1>1, QueueInvariant, PTL

-----------------------------------------------------------------------------
(***************************************************************************)
(* The order of pops.  That the sources alternate rests on the parity of   *)
(* total: it says, while both sources wait, which one the last pop took    *)
(* from.                                                                   *)
(***************************************************************************)

ParityInv ==
    (HasStream /\ HasPriority) =>
        /\ lastSource = "stream" => total % 2 = 1
        /\ lastSource = "priority" => total % 2 = 0

\* A pop with both sources waiting takes from the other one; afterwards the parity
\* names the source again.
LEMMA PopAlternates ==
    ASSUME total \in Nat, ParityInv, Pop, total' = total - 1
    PROVE  /\ ParityInv'
           /\ (HasStream /\ HasPriority /\ lastSource # "none") => lastSource' # lastSource
  <1>1. /\ total \in Nat \ {0} /\ total % 2 \in {0, 1}
        /\ total % 2 = 0 => (total - 1) % 2 = 1
        /\ total % 2 = 1 => (total - 1) % 2 = 0
    BY DEF Pop
  <1>2. CASE StreamsTurn /\ PopStream /\ lastSource' = "stream"
    <2>1. HasPriority' => HasPriority
      BY <1>2 DEF Pop, PopStream, HasPriority, IsComparerMode
    <2>2. HasPriority => total % 2 = 0
      BY <1>2 DEF StreamsTurn
    <2>3. ParityInv'
      BY <1>1, <1>2, <2>1, <2>2 DEF ParityInv
    <2>4. (HasStream /\ HasPriority) => lastSource # "stream"
      BY <1>1, <2>2 DEF ParityInv
    <2> QED
      BY <1>2, <2>3, <2>4
  <1>3. CASE ~StreamsTurn /\ PopPriority /\ lastSource' = "priority"
    <2>1. HasStream' => HasStream
      BY <1>3 DEF PopPriority, PopComparer, PopStrict, PopFair, TakeFrom, HasStream
    <2>2. HasStream => HasPriority /\ total % 2 = 1
      BY <1>1, <1>3 DEF StreamsTurn
    <2>3. ParityInv'
      BY <1>1, <1>3, <2>1, <2>2 DEF ParityInv
    <2>4. (HasStream /\ HasPriority) => lastSource # "priority"
      BY <1>1, <2>2 DEF ParityInv
    <2> QED
      BY <1>3, <2>3, <2>4
  <1> QED
    BY <1>2, <1>3 DEF Pop

LEMMA NextParity == QueueInv /\ ParityInv /\ [Next]_vars => ParityInv'
  <1> SUFFICES ASSUME QueueInv, ParityInv, [Next]_vars PROVE ParityInv'
    OBVIOUS
  <1>1. total \in Nat
    BY DEF QueueInv, TotalIsExact, TypeOK
  <1>2. ASSUME NEW e \in Envelopes, Push(e) PROVE ParityInv'
    BY <1>2 DEF Push, ParityInv
  <1>3. CASE Pop
    BY <1>1, <1>3, PopAlternates DEF Pop, PopStream, PopPriority, PopComparer, PopStrict, PopFair, TakeFrom
  <1>4. CASE DrainOrdered
    BY <1>4 DEF DrainOrdered, ParityInv
  <1>5. CASE Tick
    BY <1>5 DEF Tick, ParityInv, HasStream, HasPriority, IsComparerMode
  <1>6. CASE UNCHANGED vars
    BY <1>6 DEF vars, ParityInv, HasStream, HasPriority, IsComparerMode
  <1> QED
    BY <1>2, <1>3, <1>4, <1>5, <1>6 DEF Next

\* While nothing is pushed and both sources wait, streams and priority traffic take
\* turns, whatever the mode and however the lanes or the comparer choose.
THEOREM SourcesAlternate == Spec => AlternatesBetweenPushes
  <1>1. Init => ParityInv
    BY DEF Init, ParityInv
  <1>2. ASSUME QueueInv, ParityInv, [Next]_vars
        PROVE  [(HasStream /\ HasPriority /\ lastSource # "none" /\ lastSource' # "none")
                   => lastSource' # lastSource]_<<total>>
    <2>1. total \in Nat
      BY <1>2 DEF QueueInv, TotalIsExact, TypeOK
    <2>2. CASE Pop
      BY <1>2, <2>1, <2>2, PopAlternates
         DEF Pop, PopStream, PopPriority, PopComparer, PopStrict, PopFair, TakeFrom
    <2>3. CASE ~Pop
      BY <1>2, <2>3 DEF Next, Push, DrainOrdered, Tick, vars
    <2> QED
      BY <2>2, <2>3
  <1> QED
    BY <1>1, <1>2, NextParity, QueueInvariant, PTL DEF Spec, AlternatesBetweenPushes

\* When a pop of the ageing comparer takes an envelope, none that waits before it is aged.
LEMMA PopKeepsAged ==
    ASSUME TypeOK, mode = "aging", PopComparer,
           NEW i \in DOMAIN sorted, NEW j \in DOMAIN sorted,
           i < j, IsAged(i), sorted[j] \notin Elems(sorted')
    PROVE  FALSE
  <1>1. Best \in DOMAIN sorted /\ ~CompareLess(i, Best)
    BY BestIsFirst DEF PopComparer
  <1>2. sorted \in Seq(Envelopes)
    BY DEF TypeOK
  <1>3. sorted' = SubSeq(sorted, 1, Best - 1) \o SubSeq(sorted, Best + 1, Len(sorted))
    BY DEF PopComparer
  <1>4. j = Best
    BY <1>1, <1>2, <1>3, RemoveAt
  <1>5. CompareLess(i, j)
    BY DEF CompareLess
  <1> QED
    BY <1>1, <1>4, <1>5

\* Once an envelope is older than max_age, no pop of the ageing comparer sends one that
\* arrived after it before it.
THEOREM AgedGoFirst == Spec => AgedIsNotOvertaken
  <1>1. ASSUME QueueInv, [Next]_vars
        PROVE  [\A i, j \in DOMAIN sorted :
                   (i < j /\ mode = "aging" /\ IsAged(i) /\ total' = total - 1
                      /\ sorted[j] \notin Elems(sorted')) => sorted[i] \notin Elems(sorted')]_<<total>>
    <2> SUFFICES ASSUME total' # total, NEW i \in DOMAIN sorted, NEW j \in DOMAIN sorted,
                        i < j, mode = "aging", IsAged(i), total' = total - 1,
                        sorted[j] \notin Elems(sorted')
                 PROVE  sorted[i] \notin Elems(sorted')
      OBVIOUS
    <2>1. TypeOK /\ total \in Nat
      BY <1>1 DEF QueueInv, TotalIsExact, TypeOK
    <2>2. CASE Pop
      <3>1. sorted' # sorted
        BY DEF Elems
      <3>2. PopComparer
        BY <2>2, <3>1 DEF Pop, PopPriority, PopStream, IsComparerMode
      <3> QED
        BY <2>1, <3>2, PopKeepsAged
    <2>3. CASE DrainOrdered
      BY <2>3 DEF DrainOrdered, Elems
    <2>4. ASSUME NEW e \in Envelopes, Push(e) PROVE FALSE
      BY <2>1, <2>4 DEF Push
    <2>5. CASE Tick
      BY <2>5 DEF Tick
    <2> QED
      BY <1>1, <2>2, <2>3, <2>4, <2>5 DEF Next, vars
  <1> QED
    BY <1>1, QueueInvariant, PTL DEF Spec, AgedIsNotOvertaken

=============================================================================
