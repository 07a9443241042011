---------------------------- MODULE OutboundQueue ----------------------------
(***************************************************************************)
(* OutboundPriorityQueue (dactor/src/outbound_queue.rs): the queue of wire *)
(* envelopes a node keeps for one destination.  Stream items (Expand and   *)
(* Reduce) wait in a FIFO; all other envelopes are scheduled by priority,  *)
(* in five lanes or by a comparer.  The owner of the queue pushes and pops *)
(* in any order; an envelope that left the queue may be pushed again, so   *)
(* that traffic never ends.  Time passes in ticks and matters only to the  *)
(* ageing comparer.                                                        *)
(***************************************************************************)
EXTENDS Integers, Sequences

CONSTANTS
    Envelopes,      \* identities of wire envelopes
    SendModeOf,     \* the send mode of each
    PriorityOf,     \* its dactor.Priority header, NoHeader when it has none
    Modes,          \* the configurations of the queue to consider
    MaxConsecutive, \* max_consecutive of the fair lane mode
    Capacity,       \* capacity, 0 for none
    MaxAge,         \* max_age of AgingWireComparer, in ticks
    NoHeader

SendModes  == {"Tell", "Ask", "Expand", "Reduce", "Transform"}
QueueModes == {"strict", "fair", "comparer", "aging"}

\* LANE_COUNT is 5.
Lanes == 0..4

ASSUME QueueAssumption ==
    /\ SendModeOf \in [Envelopes -> SendModes]
    /\ PriorityOf \in [Envelopes -> (0..255) \cup {NoHeader}]
    /\ NoHeader \notin Envelopes
    /\ Modes \subseteq QueueModes
    /\ MaxConsecutive \in Nat \ {0}
    /\ Capacity \in Nat
    /\ MaxAge \in Nat

VARIABLES
    mode,                   \* with_config or with_comparer; never changes
    lanes,                  \* lane mode: a queue per lane
    current_lane,
    consecutive_from_lane,
    sorted,                 \* comparer mode: in order of arrival, despite its name
    stream_fifo,
    total,                  \* the count that push, pop, drain and clear maintain
    age,                    \* ticks since each envelope was enqueued, at most MaxAge
    lastSource,             \* history: where the last pop took from; "none" after a push
    streak                  \* history, fair mode: <<lane, n>>: n pops in a row took from lane
                            \* while another lane had to wait
vars == <<mode, lanes, current_lane, consecutive_from_lane, sorted, stream_fifo, total,
          age, lastSource, streak>>

Elems(q) == {q[i] : i \in DOMAIN q}

Queued == Elems(stream_fifo) \cup Elems(sorted) \cup UNION {Elems(lanes[l]) : l \in Lanes}

TypeOK ==
    /\ mode \in Modes
    /\ lanes \in [Lanes -> Seq(Envelopes)]
    /\ current_lane \in Lanes
    /\ consecutive_from_lane \in Nat
    /\ sorted \in Seq(Envelopes)
    /\ stream_fifo \in Seq(Envelopes)
    /\ total \in Nat
    /\ age \in [Envelopes -> 0..MaxAge]
    /\ lastSource \in {"none", "stream", "priority"}
    /\ streak \in Lanes \X Nat

Init ==
    /\ mode \in Modes
    /\ lanes = [l \in Lanes |-> <<>>]
    /\ current_lane = 0
    /\ consecutive_from_lane = 0
    /\ sorted = <<>>
    /\ stream_fifo = <<>>
    /\ total = 0
    /\ age = [e \in Envelopes |-> 0]
    /\ lastSource = "none"
    /\ streak = <<0, 0>>

-----------------------------------------------------------------------------

\* extract_priority: an envelope without the header has Priority::NORMAL.
ExtractPriority(e) == IF PriorityOf[e] = NoHeader THEN 128 ELSE PriorityOf[e]

LaneIndexFromPriority(p) ==
    IF p <= 63 THEN 0 ELSE IF p <= 127 THEN 1 ELSE IF p <= 191 THEN 2
    ELSE IF p <= 254 THEN 3 ELSE 4

IsComparerMode == mode \in {"comparer", "aging"}

IsStream(e) == SendModeOf[e] \in {"Expand", "Reduce"}

\* push: at capacity the caller gets the envelope back and nothing changes.
Push(e) ==
    /\ e \notin Queued
    /\ Capacity = 0 \/ total < Capacity
    /\ \/ /\ IsStream(e)
          /\ stream_fifo' = Append(stream_fifo, e)
          /\ UNCHANGED <<lanes, sorted>>
       \/ /\ ~IsStream(e) /\ IsComparerMode
          /\ sorted' = Append(sorted, e)
          /\ UNCHANGED <<lanes, stream_fifo>>
       \/ /\ ~IsStream(e) /\ ~IsComparerMode
          /\ lanes' = [lanes EXCEPT ![LaneIndexFromPriority(ExtractPriority(e))] = Append(@, e)]
          /\ UNCHANGED <<sorted, stream_fifo>>
    /\ total' = total + 1
    /\ age' = [age EXCEPT ![e] = 0]
    /\ lastSource' = "none"
    /\ UNCHANGED <<mode, current_lane, consecutive_from_lane, streak>>

-----------------------------------------------------------------------------
(***************************************************************************)
(* Pop.                                                                    *)
(***************************************************************************)

HasStream   == stream_fifo # <<>>
HasPriority == IF IsComparerMode THEN sorted # <<>> ELSE \E l \in Lanes : lanes[l] # <<>>

PopStream ==
    /\ HasStream
    /\ stream_fifo' = Tail(stream_fifo)
    /\ total' = total - 1
    /\ UNCHANGED <<lanes, current_lane, consecutive_from_lane, sorted, streak>>

IsAged(i) == age[sorted[i]] >= MaxAge

\* AgingWireComparer without the promotion of aged envelopes.
CompareLess_NoAging(i, j) == ExtractPriority(sorted[i]) < ExtractPriority(sorted[j])

\* Does the comparer put position i of `sorted' before position j?  Positions
\* are in order of enqueued_at, so among aged ones the earlier position wins.
CompareLess(i, j) ==
    IF mode = "aging" /\ (IsAged(i) \/ IsAged(j))
    THEN IsAged(i) /\ (IsAged(j) => i < j)
    ELSE ExtractPriority(sorted[i]) < ExtractPriority(sorted[j])

\* The linear scan keeps the first position that no other one precedes.
Best == CHOOSE i \in DOMAIN sorted : \A j \in DOMAIN sorted :
            ~CompareLess(j, i) /\ (j < i => CompareLess(i, j))

PopComparer ==
    /\ sorted # <<>>
    /\ sorted' = SubSeq(sorted, 1, Best - 1) \o SubSeq(sorted, Best + 1, Len(sorted))
    /\ total' = total - 1
    /\ UNCHANGED <<lanes, current_lane, consecutive_from_lane, stream_fifo, streak>>

\* The first non-empty lane from start on, going round.
NextNonEmptyLane(start) ==
    CHOOSE l \in Lanes : \E i \in Lanes :
        /\ l = (start + i) % 5 /\ lanes[l] # <<>>
        /\ \A j \in Lanes : j < i => lanes[(start + j) % 5] = <<>>

OtherLaneWaits(l) == \E k \in Lanes \ {l} : lanes[k] # <<>>

\* Take the front of lane l.
TakeFrom(l) ==
    /\ lanes' = [lanes EXCEPT ![l] = Tail(@)]
    /\ total' = total - 1
    /\ UNCHANGED <<sorted, stream_fifo>>

PopStrict ==
    /\ \E l \in Lanes : lanes[l] # <<>>
    /\ TakeFrom(NextNonEmptyLane(0))
    /\ UNCHANGED <<current_lane, consecutive_from_lane, streak>>

\* A lane gets one pop more than max_consecutive.
FairLane_OffByOne ==
    IF consecutive_from_lane > MaxConsecutive THEN NextNonEmptyLane(current_lane + 1)
    ELSE IF lanes[current_lane] = <<>> THEN NextNonEmptyLane(0)
    ELSE current_lane

\* The lane pop_fair takes from.
FairLane ==
    IF consecutive_from_lane >= MaxConsecutive THEN NextNonEmptyLane(current_lane + 1)
    ELSE IF lanes[current_lane] = <<>> THEN NextNonEmptyLane(0)
    ELSE current_lane

KeepsLane == consecutive_from_lane < MaxConsecutive /\ lanes[current_lane] # <<>>

PopFair ==
    /\ \E l \in Lanes : lanes[l] # <<>>
    /\ TakeFrom(FairLane)
    /\ current_lane' = FairLane
    /\ consecutive_from_lane' = IF KeepsLane THEN consecutive_from_lane + 1 ELSE 1
    /\ streak' = IF ~OtherLaneWaits(FairLane) THEN <<FairLane, 0>>
                 ELSE IF streak[1] = FairLane THEN <<FairLane, streak[2] + 1>>
                 ELSE <<FairLane, 1>>

PopPriority ==
    \/ IsComparerMode /\ PopComparer
    \/ mode = "strict" /\ PopStrict
    \/ mode = "fair" /\ PopFair

\* Streams always go first.
StreamsTurn_Always == HasStream

\* When both sources wait, the parity of total decides.
StreamsTurn == HasStream /\ (HasPriority => total % 2 = 0)

Pop ==
    /\ total # 0
    /\ \/ StreamsTurn /\ PopStream /\ lastSource' = "stream"
       \/ ~StreamsTurn /\ PopPriority /\ lastSource' = "priority"
    /\ UNCHANGED <<mode, age>>

-----------------------------------------------------------------------------

\* drain_ordered and clear empty the queue (drain_ordered returns what it
\* held); current_lane stays.
DrainOrdered ==
    /\ lanes' = [l \in Lanes |-> <<>>]
    /\ sorted' = <<>>
    /\ stream_fifo' = <<>>
    /\ total' = 0
    /\ consecutive_from_lane' = 0
    /\ lastSource' = "none"
    /\ streak' = <<0, 0>>
    /\ UNCHANGED <<mode, current_lane, age>>

\* A tick of the clock; an age is not followed past MaxAge.
Tick ==
    /\ mode = "aging"
    /\ \E e \in Queued : age[e] < MaxAge
    /\ age' = [e \in Envelopes |-> IF e \in Queued /\ age[e] < MaxAge THEN age[e] + 1 ELSE age[e]]
    /\ UNCHANGED <<mode, lanes, current_lane, consecutive_from_lane, sorted, stream_fifo,
                   total, lastSource, streak>>

Next ==
    \/ \E e \in Envelopes : Push(e)
    \/ Pop
    \/ DrainOrdered
    \/ Tick

\* The owner of the queue keeps sending: while something is queued, it pops.
Spec == Init /\ [][Next]_vars /\ WF_vars(Pop)

-----------------------------------------------------------------------------
(***************************************************************************)
(* Properties.                                                             *)
(***************************************************************************)

\* The count that decides emptiness, capacity and the turn is exact in every
\* mode and after every sequence of operations, and the capacity is kept
\* (in a well-typed state).
TotalIsExact ==
    /\ TypeOK
    /\ total = Len(stream_fifo) + Len(sorted) + Len(lanes[0]) + Len(lanes[1]) + Len(lanes[2])
               + Len(lanes[3]) + Len(lanes[4])
    /\ Capacity > 0 => total <= Capacity

\* max_consecutive "limit[s] pops from one lane before round-robining": while
\* another lane waits, no lane is served more than MaxConsecutive times in a row,
\* however pushes, stream pops, emptied lanes and drains come in between.
LaneTurns == mode = "fair" => streak[2] <= MaxConsecutive

\* The two numbers that the queue keeps by hand, its total and the share of a lane, say
\* what they should after any mix of operations.
CountersAreExact == TotalIsExact /\ LaneTurns

\* Streams and priority traffic alternate as long as nothing is pushed: with
\* both waiting, two pops in a row never take from the same source.
AlternatesBetweenPushes ==
    [][(HasStream /\ HasPriority /\ lastSource # "none" /\ lastSource' # "none")
          => lastSource' # lastSource]_<<total>>

\* Once an envelope is older than max_age, none that arrived after it is sent
\* before it.
AgedIsNotOvertaken ==
    [][\A i, j \in DOMAIN sorted :
          (i < j /\ mode = "aging" /\ IsAged(i) /\ total' = total - 1
             /\ sorted[j] \notin Elems(sorted')) => sorted[i] \notin Elems(sorted')]_<<total>>

\* The doc of pop: it "prevents stream traffic from starving tell/ask messages".
\* While something is always sent, a waiting tell or ask gets its turn.
PriorityIsNotStarved == HasPriority ~> (~HasPriority \/ lastSource = "priority")
=============================================================================
