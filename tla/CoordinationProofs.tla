------------------------- MODULE CoordinationProofs -------------------------
(***************************************************************************)
(* Theorems about the components of Coordination: timers, broadcasts,      *)
(* supervision, remote references over their transport, worker pools, both *)
(* sides of the test harness and metrics, for all values of the constants. *)
(* Each component has an inductive invariant of its own, and a step of     *)
(* Coordination is a step of one component or none.                        *)
(***************************************************************************)
EXTENDS Coordination, RetainProofs, FunctionTheorems

\* A step of Coordination is, for every component, one of its own or leaves it alone.
LEMMA Frame ==
    ASSUME [Next]_cvars
    PROVE  /\ [TimersNext]_tvars
           /\ [BroadcastNext]_bvars
           /\ [SupervisionNext]_svars
           /\ [RemoteNext]_rvars
           /\ [PoolNext]_pvars
           /\ [MetricsNext]_mvars
           /\ [HarnessNext]_hvars
           /\ [TestNodeNext]_nodevars
  <1>1. CASE UNCHANGED cvars
    BY <1>1 DEF cvars
  <1>2. CASE PoolUnit(PoolNext)
    BY <1>2 DEF PoolUnit, Only
  <1>3. CASE BroadcastUnit(BroadcastNext)
    BY <1>3 DEF BroadcastUnit, Only
  <1>4. CASE SupervisionUnit(SupervisionNext)
    BY <1>4 DEF SupervisionUnit, Only
  <1>5. CASE TimerUnit(TimersNext)
    BY <1>5 DEF TimerUnit, Only
  <1>6. CASE RemoteUnit(RemoteNext)
    BY <1>6 DEF RemoteUnit, Only
  <1>7. CASE MetricsUnit(MetricsNext)
    BY <1>7 DEF MetricsUnit, Only
  <1>8. CASE HarnessUnit(HarnessNext)
    BY <1>8 DEF HarnessUnit, Only
  <1>9. CASE NodeUnit(TestNodeNext)
    BY <1>9 DEF NodeUnit, Only
  <1> QED
    BY <1>1, <1>2, <1>3, <1>4, <1>5, <1>6, <1>7, <1>8, <1>9 DEF Next

-----------------------------------------------------------------------------
(***************************************************************************)
(* Timers.  A task that has gone on to tell is past its look at the token; *)
(* it comes back to the select, which ends it, before it can tell again.   *)
(***************************************************************************)

TimersInv ==
    /\ timer \in [kind : {"after", "interval"}, remote : BOOLEAN, at : {"select", "tell", "done"},
                  due : Nat, cancelled : BOOLEAN]
    /\ late \in {0, 1}
    /\ late = 1 => timer.cancelled /\ timer.at # "tell"

LEMMA TimersStep ==
    ASSUME TimersInv, [TimersNext]_tvars
    PROVE  TimersInv'
  <1> USE DEF TimersInv
  <1>1. CASE TimerTick
    BY <1>1 DEF TimerTick
  <1>2. CASE TimerSelect
    <2>1. CASE timer.cancelled /\ timer' = [timer EXCEPT !.at = "done"]
      BY <1>2, <2>1 DEF TimerSelect
    <2>2. CASE ~timer.cancelled /\ timer.due > 0 /\ timer' = [timer EXCEPT !.at = "tell", !.due = @ - 1]
      <3>1. late = 0 /\ late' = late
        BY <1>2, <2>2 DEF TimerSelect
      <3>2. timer.due - 1 \in Nat
        BY <2>2
      <3> QED
        BY <2>2, <3>1, <3>2
    <2> QED
      BY <1>2, <2>1, <2>2 DEF TimerSelect
  <1>3. CASE TimerTell
    <2>1. PICK accepted \in BOOLEAN :
              /\ late' = IF accepted /\ timer.cancelled THEN late + 1 ELSE late
              /\ timer' = [timer EXCEPT !.at = IF timer.kind = "after" \/ ~accepted THEN "done" ELSE "select"]
      BY <1>3, Zenon DEF TimerTell
    <2>2. timer.at = "tell" /\ late = 0
      BY <1>3 DEF TimerTell
    <2>3. late' \in {0, 1} /\ (late' = 1 => timer.cancelled)
      BY <2>1, <2>2
    <2> QED
      BY <2>1, <2>3
  <1>4. CASE TimerCancel
    BY <1>4 DEF TimerCancel
  <1>5. CASE TargetEnds
    BY <1>5 DEF TargetEnds
  <1>6. CASE UNCHANGED tvars
    BY <1>6 DEF tvars
  <1> QED
    BY <1>1, <1>2, <1>3, <1>4, <1>5, <1>6 DEF TimersNext, TimerStep

\* TimerHandle::cancel: whatever ticks are due, at most the message that the task was
\* already telling goes out after the token is cancelled.
THEOREM CancelStaysHeeded == Spec => []CancelIsHeeded
  <1>1. Init => TimersInv
    <2>1. TimersInit => TimersInv
      <3> SUFFICES ASSUME TimersInit PROVE TimersInv
        OBVIOUS
      <3>1. {FALSE} \subseteq BOOLEAN
        OBVIOUS
      <3>2. timer \in [kind : {"after", "interval"}, remote : BOOLEAN, at : {"select"}, due : {0},
                         cancelled : BOOLEAN]
        BY <3>1, Zenon DEF TimersInit
      <3> QED
        BY <3>2 DEF TimersInit, TimersInv
    <2> QED
      BY <2>1 DEF Init
  <1>2. TimersInv /\ [Next]_cvars => TimersInv'
    BY Frame, TimersStep
  <1>3. TimersInv => CancelIsHeeded
    BY DEF TimersInv, CancelIsHeeded
  <1> QED
    BY <1>1, <1>2, <1>3, PTL DEF Spec

-----------------------------------------------------------------------------
(***************************************************************************)
(* Broadcasts.                                                             *)
(***************************************************************************)

EntryStates == {"unsent", "sent", "handled", "failed", "dropped", "refused"}
Receipts == {"none", "ok", "send error", "reply error", "timeout"}
Entries(to) == [to : to, state : EntryStates, receipt : Receipts, dead : BOOLEAN, cancelled : BOOLEAN]

\* What is true of one entry of a call of the given kind: while it is unsent nothing
\* is known, an ask that is only in a mailbox has no receipt but a timeout, and a tell
\* has its receipt from the start.
EntryOK(kind, e) ==
    /\ e.state = "unsent" => e.receipt = "none"
    /\ (kind = "ask" /\ e.state = "sent") => e.receipt \in {"none", "timeout"}
    /\ (kind = "ask" /\ e.receipt = "ok") => e.state = "handled"
    /\ e.state = "sent" => ~e.dead /\ e.receipt # "reply error"
    /\ e.receipt = "timeout" => e.cancelled
    /\ e.dead <=> e.receipt = "send error"
    /\ e.receipt = "reply error" => e.state \in {"failed", "dropped"}
    /\ e.dead => e.state = "refused" \/ (e.to \in Relayed /\ e.state \in {"handled", "failed"})

CallType(c) == \E places, to : c \in [kind : {"none", "tell", "ask"}, entries : [places -> Entries(to)]]
EntriesOK(c) == \A i \in DOMAIN c.entries : EntryOK(c.kind, c.entries[i])

BroadcastInv == CallType(call) /\ EntriesOK(call)

\* A new entry in one place keeps the others.
LEMMA EntrySet ==
    ASSUME NEW c, CallType(c), EntriesOK(c), NEW i \in DOMAIN c.entries, NEW e,
           e.to = c.entries[i].to,
           e \in Entries({e.to}), EntryOK(c.kind, e)
    PROVE  CallType([c EXCEPT !.entries[i] = e]) /\ EntriesOK([c EXCEPT !.entries[i] = e])
  <1>1. PICK places, to : c \in [kind : {"none", "tell", "ask"}, entries : [places -> Entries(to)]]
    BY DEF CallType
  <1>2. i \in places /\ c.entries[i] \in Entries(to)
    BY <1>1
  <1>3. e \in Entries(to)
    BY <1>2 DEF Entries
  <1> DEFINE d == [c EXCEPT !.entries[i] = e]
  <1>4. d \in [kind : {"none", "tell", "ask"}, entries : [places -> Entries(to)]]
    BY <1>1, <1>3
  <1>5. d.kind = c.kind /\ DOMAIN d.entries = DOMAIN c.entries
        /\ \A j \in DOMAIN c.entries : d.entries[j] = IF j = i THEN e ELSE c.entries[j]
    BY <1>1
  <1>6. CallType(d)
    BY <1>4 DEF CallType
  <1> HIDE DEF d
  <1>7. EntriesOK(d)
    BY <1>5 DEF EntriesOK
  <1> QED
    BY <1>6, <1>7 DEF d

LEMMA SetEntryKeeps ==
    ASSUME BroadcastInv, NEW i \in DOMAIN call.entries, NEW e, e.to = call.entries[i].to,
           e \in Entries({e.to}), EntryOK(call.kind, e), SetEntry(i, e)
    PROVE  BroadcastInv'
  <1>1. CallType([call EXCEPT !.entries[i] = e]) /\ EntriesOK([call EXCEPT !.entries[i] = e])
    BY EntrySet DEF BroadcastInv
  <1>2. call' = [call EXCEPT !.entries[i] = e]
    BY DEF SetEntry
  <1> QED
    BY <1>1, <1>2 DEF BroadcastInv

LEMMA BroadcastStepKeeps ==
    ASSUME BroadcastInv, [BroadcastNext]_bvars
    PROVE  BroadcastInv'
  <1>1. PICK places, to : call \in [kind : {"none", "tell", "ask"}, entries : [places -> Entries(to)]]
    BY DEF BroadcastInv, CallType
  <1>2. ASSUME call' = call PROVE BroadcastInv'
    BY <1>2 DEF BroadcastInv
  <1>3. ASSUME NEW m \in Members,
               BroadcastAdd(m) \/ BroadcastRemove(m) \/ GroupJoin(m) \/ GroupLeave(m)
        PROVE  BroadcastInv'
    BY <1>2, <1>3 DEF BroadcastAdd, BroadcastRemove, GroupJoin, GroupLeave
  <1>4. CASE GroupClear \/ PruneDead \/ ToBroadcast
    BY <1>2, <1>4 DEF GroupClear, PruneDead, ToBroadcast
  <1>5. ASSUME NEW kind \in {"tell", "ask"}, Begin(kind) PROVE BroadcastInv'
    <2> DEFINE es == [i \in DOMAIN refs |-> Entry(refs[i])]
    <2>1. call' = [kind |-> kind, entries |-> es]
      BY <1>5 DEF Begin
    <2>2. es \in [DOMAIN refs -> Entries({refs[i] : i \in DOMAIN refs})]
      BY DEF Entries, Entry, EntryStates, Receipts
    <2>3. \A i \in DOMAIN refs : EntryOK(kind, es[i])
      BY DEF EntryOK, Entry
    <2> HIDE DEF es
    <2>4. CallType(call')
      BY <2>1, <2>2 DEF CallType
    <2>5. EntriesOK(call')
      BY <2>1, <2>2, <2>3 DEF EntriesOK
    <2> QED
      BY <2>4, <2>5 DEF BroadcastInv
  <1>6. ASSUME NEW m \in Members, MemberEnds(m) PROVE BroadcastInv'
    <2> DEFINE Ended(e) == IF e.to = m /\ e.state = "sent" THEN [e EXCEPT !.state = "dropped"] ELSE e
    <2>1. call' = [call EXCEPT !.entries = [i \in DOMAIN call.entries |-> Ended(call.entries[i])]]
      BY <1>6 DEF MemberEnds
    <2>2. \A e \in Entries(to) : Ended(e) \in Entries(to)
      BY DEF Entries, EntryStates
    <2>3. \A e \in Entries(to) : EntryOK(call.kind, e) => EntryOK(call.kind, Ended(e))
      <3> SUFFICES ASSUME NEW e \in Entries(to), EntryOK(call.kind, e), e.to = m, e.state = "sent"
                   PROVE  EntryOK(call.kind, [e EXCEPT !.state = "dropped"])
        OBVIOUS
      <3> DEFINE f == [e EXCEPT !.state = "dropped"]
      <3>1. /\ f.to = e.to /\ f.state = "dropped" /\ f.receipt = e.receipt
            /\ f.dead = e.dead /\ f.cancelled = e.cancelled
        BY DEF Entries
      <3> HIDE DEF f
      <3>2. EntryOK(call.kind, f)
        BY <3>1 DEF EntryOK
      <3> QED
        BY <3>2 DEF f
    <2> HIDE DEF Ended
    <2>4. DOMAIN call.entries = places /\ \A i \in places : call.entries[i] \in Entries(to)
      BY <1>1
    <2>5. call' \in [kind : {"none", "tell", "ask"}, entries : [places -> Entries(to)]]
      BY <1>1, <2>1, <2>2, <2>4
    <2>6. call'.kind = call.kind /\ DOMAIN call'.entries = places
          /\ \A i \in places : call'.entries[i] = Ended(call.entries[i])
      BY <1>1, <2>1, <2>4
    <2>7. EntriesOK(call')
      BY <2>3, <2>4, <2>6 DEF EntriesOK, BroadcastInv
    <2>8. CallType(call')
      BY <2>5 DEF CallType
    <2> QED
      BY <2>7, <2>8 DEF BroadcastInv
  <1>7. ASSUME NEW i \in DOMAIN call.entries,
               BroadcastSend(i) \/ MemberHandles(i) \/ AskAnswer(i) \/ AskTimeout(i)
        PROVE  BroadcastInv'
    <2> DEFINE e == call.entries[i]
               kind == call.kind
    <2>1. e \in Entries(to) /\ kind \in {"none", "tell", "ask"}
      BY <1>1
    <2>2. EntryOK(kind, e)
      BY DEF BroadcastInv, EntriesOK
    <2> HIDE DEF e, kind
    <2>3. ASSUME NEW f, f \in Entries({e.to}), EntryOK(kind, f), SetEntry(i, f) PROVE BroadcastInv'
      <3>1. f.to = call.entries[i].to
        BY <2>3 DEF Entries, e
      <3> QED
        BY <2>3, <3>1, SetEntryKeeps DEF e, kind, Entries
    <2>4. CASE BroadcastSend(i)
      <3>1. e.state = "unsent"
        BY <2>4 DEF BroadcastSend, NextUnsent, e
      <3> DEFINE f == [e EXCEPT !.state = "sent", !.receipt = IF kind = "tell" THEN "ok" ELSE @]
      <3>2. f \in Entries({e.to}) /\ EntryOK(kind, f)
        BY <2>1, <2>2, <3>1 DEF Entries, EntryOK, EntryStates, Receipts
      <3>3. EmitDeadLetter(e) \in Entries({e.to}) /\ EntryOK(kind, EmitDeadLetter(e))
        BY <2>1, <2>2, <3>1 DEF Entries, EntryOK, EntryStates, Receipts, EmitDeadLetter
      <3>4. SetEntry(i, f) \/ SetEntry(i, EmitDeadLetter(e))
        BY <2>4 DEF BroadcastSend, e, kind
      <3> QED
        BY <2>3, <3>2, <3>3, <3>4
    <2>5. CASE MemberHandles(i)
      <3>1. e.state = "sent"
        BY <2>5 DEF MemberHandles, e
      <3> DEFINE f(s) == [e EXCEPT !.state = s]
      <3>2. ASSUME NEW s \in {"handled", "failed"} PROVE f(s) \in Entries({e.to}) /\ EntryOK(kind, f(s))
        BY <2>1, <2>2, <3>1 DEF Entries, EntryOK, EntryStates, Receipts
      <3>3. SetEntry(i, f("handled")) \/ SetEntry(i, f("failed"))
        BY <2>5 DEF MemberHandles, e
      <3> QED
        BY <2>3, <3>2, <3>3
    <2>6. CASE AskAnswer(i)
      <3>1. e.receipt = "none"
        BY <2>6 DEF AskAnswer, Waiting, e
      <3> DEFINE f(r) == [e EXCEPT !.receipt = r]
      <3>2. CASE e.state = "handled" /\ SetEntry(i, f("ok"))
        <4>1. f("ok") \in Entries({e.to}) /\ EntryOK(kind, f("ok"))
          BY <2>1, <2>2, <3>1, <3>2 DEF Entries, EntryOK, EntryStates, Receipts
        <4> QED
          BY <2>3, <3>2, <4>1
      <3>3. CASE e.state \in {"failed", "dropped"} /\ SetEntry(i, f("reply error"))
        <4>1. f("reply error") \in Entries({e.to}) /\ EntryOK(kind, f("reply error"))
          BY <2>1, <2>2, <3>1, <3>3 DEF Entries, EntryOK, EntryStates, Receipts
        <4> QED
          BY <2>3, <3>3, <4>1
      <3>4. CASE SetEntry(i, EmitDeadLetter(e))
        <4>1. EmitDeadLetter(e) \in Entries({e.to}) /\ EntryOK(kind, EmitDeadLetter(e))
          BY <2>1, <2>2 DEF Entries, EntryOK, EntryStates, Receipts, EmitDeadLetter
        <4> QED
          BY <2>3, <3>4, <4>1
      <3>5. CASE e.to \in Relayed /\ e.state \in {"handled", "failed"} /\ SetEntry(i, UnreadableReply(e))
        <4>1. UnreadableReply(e) \in Entries({e.to}) /\ EntryOK(kind, UnreadableReply(e))
          BY <2>1, <2>2, <3>1, <3>5 DEF Entries, EntryOK, EntryStates, Receipts, UnreadableReply
        <4> QED
          BY <2>3, <3>5, <4>1
      <3> QED
        BY <2>6, <3>2, <3>3, <3>4, <3>5 DEF AskAnswer, e
    <2>7. CASE AskTimeout(i)
      <3> DEFINE f == [e EXCEPT !.receipt = "timeout", !.cancelled = TRUE]
      <3>1. e.receipt = "none" /\ e.state # "unsent" /\ SetEntry(i, f)
        BY <2>7 DEF AskTimeout, Waiting, AllSent, e
      <3>2. f \in Entries({e.to}) /\ EntryOK(kind, f)
        BY <2>1, <2>2, <3>1 DEF Entries, EntryOK, EntryStates, Receipts
      <3> QED
        BY <2>3, <3>1, <3>2
    <2> QED
      BY <1>7, <2>4, <2>5, <2>6, <2>7
  <1>8. CASE UNCHANGED bvars
    BY <1>2, <1>8 DEF bvars
  <1> QED
    BY <1>3, <1>4, <1>5, <1>6, <1>7, <1>8 DEF BroadcastNext

\* BroadcastRef::tell and ask: the receipt of every member says what became of its
\* message, in whatever order members answer, time out and end.  Dead letters go with
\* "send error"; those of references that deliver by themselves are exactly the sends
\* that failed, those of references that relay may also have been worked on.
THEOREM ReceiptsStayTruthful == Spec => []ReceiptsAreTruthful
  <1>1. Init => BroadcastInv
    <2> SUFFICES ASSUME BroadcastInit PROVE BroadcastInv
      BY DEF Init
    <2>1. call = NoCall
      BY DEF BroadcastInit
    <2>2. NoCall \in [kind : {"none", "tell", "ask"}, entries : [{} -> Entries({})]]
      BY DEF NoCall
    <2>3. CallType(NoCall)
      BY <2>2 DEF CallType
    <2>4. EntriesOK(NoCall)
      BY DEF EntriesOK, NoCall
    <2> QED
      BY <2>1, <2>3, <2>4 DEF BroadcastInv
  <1>2. BroadcastInv /\ [Next]_cvars => BroadcastInv'
    BY Frame, BroadcastStepKeeps
  <1>3. BroadcastInv => ReceiptsAreTruthful
    <2> SUFFICES ASSUME BroadcastInv, NEW i \in DOMAIN call.entries
                 PROVE  LET e == call.entries[i]
                        IN  /\ call.kind = "ask" /\ e.receipt = "ok" => e.state = "handled"
                            /\ e.receipt = "timeout" => e.cancelled
                            /\ e.dead <=> e.receipt = "send error"
                            /\ e.receipt = "reply error" => e.state \in {"failed", "dropped"}
                            /\ e.dead => e.state \in IF e.to \in Relayed THEN {"refused", "handled", "failed"}
                                                    ELSE {"refused"}
      BY DEF ReceiptsAreTruthful
    <2>1. EntryOK(call.kind, call.entries[i])
      BY DEF BroadcastInv, EntriesOK
    <2> QED
      BY <2>1 DEF EntryOK
  <1> QED
    BY <1>1, <1>2, <1>3, PTL DEF Spec

-----------------------------------------------------------------------------
(***************************************************************************)
(* Supervision.  The timestamps of a budget stand for decisions to restart *)
(* that it paid for, each for one, and none of the window is missing.      *)
(***************************************************************************)

Decision == [key : Children \cup {Group}, at : Nat, action : {"Restart", "Stop"}, children : SUBSET Children]

IsRestart(d, k) == d.key = k /\ d.action = "Restart"

\* f says which of the decisions ds each of the timestamps ts of budget k stands for.
StandsFor(ts, ds, k, f) ==
    /\ f \in [1..Len(ts) -> 1..Len(ds)]
    /\ \A i, j \in 1..Len(ts) : f[i] = f[j] => i = j
    /\ \A i \in 1..Len(ts) : ts[i] = ds[f[i]].at /\ IsRestart(ds[f[i]], k)

\* The restarts that budget k paid for in the window that ends at time t.
Recent(ds, k, t) == {j \in 1..Len(ds) : IsRestart(ds[j], k) /\ t - ds[j].at <= Within}

Remembered(ts, ds, k, t) ==
    \E f : /\ StandsFor(ts, ds, k, f)
           /\ \A j \in Recent(ds, k, t) : \E i \in 1..Len(ts) : f[i] = j

\* The restarts of its budget in the window that ends with decision i of ds.
Before(ds, i) == {j \in 1..i - 1 : /\ ds[j].key = ds[i].key
                                   /\ ds[j].action = "Restart"
                                   /\ ds[i].at - ds[j].at <= Within}

Exact(ds) == \A i \in 1..Len(ds) : ds[i].action = "Restart" <=> Cardinality(Before(ds, i)) < MaxRestarts

SupervisionType ==
    /\ now \in Nat
    /\ timestamps \in [Children \cup {Group} -> Seq(Nat)]
    /\ decisions \in Seq(Decision)
    /\ children \in Seq(Children)
    /\ \A j \in 1..Len(decisions) : decisions[j].at <= now

SupervisionInv ==
    /\ SupervisionType
    /\ \A k \in Children \cup {Group} : Remembered(timestamps[k], decisions, k, now)
    /\ Exact(decisions)

LEMMA DecisionAt ==
    ASSUME NEW ds \in Seq(Decision)
    PROVE  \A j \in 1..Len(ds) : ds[j].at \in Nat
  <1>1. \A j \in 1..Len(ds) : ds[j] \in Decision
    OBVIOUS
  <1>2. \A d \in Decision : d.at \in Nat
    BY DEF Decision
  <1> QED
    BY <1>1, <1>2

\* As time passes fewer restarts are in the window.
LEMMA RememberedLater ==
    ASSUME NEW ts, NEW ds \in Seq(Decision), NEW k, NEW t \in Nat, Remembered(ts, ds, k, t)
    PROVE  Remembered(ts, ds, k, t + 1)
  <1>1. \A j \in 1..Len(ds) : ds[j].at \in Nat
    BY DecisionAt
  <1>2. Recent(ds, k, t + 1) \subseteq Recent(ds, k, t)
    BY <1>1, SupervisionAssumption DEF Recent
  <1> QED
    BY <1>2 DEF Remembered

\* RestartTracker::record keeps the timestamps in the window, as many as there were
\* restarts in it.
LEMMA RetainedAreRecent ==
    ASSUME NEW ts \in Seq(Nat), NEW ds \in Seq(Decision), NEW k, NEW t \in Nat,
           Remembered(ts, ds, k, t),
           NEW r, r = Retain(ts, {i \in DOMAIN ts : t - ts[i] <= Within})
    PROVE  /\ r \in Seq(Nat)
           /\ Remembered(r, ds, k, t)
           /\ Len(r) = Cardinality(Recent(ds, k, t))
  <1> DEFINE keep == {i \in DOMAIN ts : t - ts[i] <= Within}
             D == Recent(ds, k, t)
  <1>1. PICK f : /\ StandsFor(ts, ds, k, f)
                 /\ \A j \in D : \E i \in 1..Len(ts) : f[i] = j
    BY DEF Remembered
  <1>2. \A i \in 1..Len(ts) : i \in keep <=> f[i] \in D
    <2>1. \A i \in 1..Len(ts) : f[i] \in 1..Len(ds) /\ ts[i] = ds[f[i]].at /\ IsRestart(ds[f[i]], k)
      BY <1>1 DEF StandsFor
    <2>2. \A j : j \in D <=> j \in 1..Len(ds) /\ IsRestart(ds[j], k) /\ t - ds[j].at <= Within
      BY DEF Recent
    <2>3. \A i \in 1..Len(ts) : i \in keep <=> t - ts[i] <= Within
      OBVIOUS
    <2> QED
      BY <2>1, <2>2, <2>3, Zenon
  <1>3. keep \subseteq 1..Len(ts) /\ keep \subseteq DOMAIN ts
    OBVIOUS
  <1>4. r = Retain(ts, keep)
    OBVIOUS
  <1> HIDE DEF keep
  <1>5. r \in Seq(Nat) /\ \E h : IsPick(ts, keep, Len(ts), r, h)
    BY <1>4, RetainPicks
  <1>6. PICK h : IsPick(ts, keep, Len(ts), r, h)
    BY <1>5
  <1>7. IsFiniteSet(keep) /\ Len(r) = Cardinality(keep)
    BY <1>3, <1>4, RetainLen
  <1> DEFINE g == [i \in keep |-> f[i]]
  <1>8. g \in Bijection(keep, D)
    <2> HIDE DEF D
    <2>1. \A i \in keep : g[i] \in D
      BY <1>2, <1>3
    <2>2. \A i, j \in keep : g[i] = g[j] => i = j
      BY <1>1, <1>3 DEF StandsFor
    <2>3. \A j \in D : \E i \in keep : g[i] = j
      BY <1>1, <1>2, <1>3
    <2> QED
      BY <2>1, <2>2, <2>3, Fun_IsBij
  <1>9. Cardinality(D) = Cardinality(keep)
    BY <1>7, <1>8, FS_Bijection DEF ExistsBijection
  <1>10. Remembered(r, ds, k, t)
    <2> DEFINE e == [i \in 1..Len(r) |-> f[h[i]]]
    <2>1. \A i \in 1..Len(r) : h[i] \in keep /\ h[i] \in 1..Len(ts) /\ r[i] = ts[h[i]]
      BY <1>3, <1>6 DEF IsPick
    <2>2. \A i, j \in 1..Len(r) : i < j => h[i] < h[j]
      BY <1>6 DEF IsPick
    <2>3. \A i, j \in 1..Len(r) : h[i] = h[j] => i = j
      <3> SUFFICES ASSUME NEW i \in 1..Len(r), NEW j \in 1..Len(r), h[i] = h[j], i # j PROVE FALSE
        OBVIOUS
      <3>1. i < j \/ j < i
        OBVIOUS
      <3>2. h[i] \in Nat /\ h[j] \in Nat
        BY <2>1
      <3> QED
        BY <2>2, <3>1, <3>2
    <2>4. \A j \in keep : \E i \in 1..Len(r) : h[i] = j
      BY <1>3, <1>6 DEF IsPick
    <2>5. StandsFor(r, ds, k, e)
      BY <1>1, <2>1, <2>3 DEF StandsFor
    <2>6. \A j \in D : \E i \in 1..Len(r) : e[i] = j
      <3> HIDE DEF D
      <3> SUFFICES ASSUME NEW j \in D PROVE \E i \in 1..Len(r) : e[i] = j
        OBVIOUS
      <3>1. PICK i \in 1..Len(ts) : f[i] = j
        BY <1>1
      <3>2. i \in keep
        BY <1>2, <3>1
      <3>3. PICK l \in 1..Len(r) : h[l] = i
        BY <2>4, <3>2
      <3> QED
        BY <3>1, <3>3
    <2> QED
      BY <2>5, <2>6 DEF Remembered
  <1> QED
    BY <1>5, <1>7, <1>9, <1>10

\* A decision that budget k does not pay for changes nothing for it.
LEMMA RememberedUnpaid ==
    ASSUME NEW ts \in Seq(Nat), NEW ds \in Seq(Decision), NEW k, NEW t \in Nat, Remembered(ts, ds, k, t),
           NEW d \in Decision, ~IsRestart(d, k)
    PROVE  Remembered(ts, Append(ds, d), k, t)
  <1> DEFINE es == Append(ds, d)
  <1>1. PICK f : StandsFor(ts, ds, k, f) /\ \A j \in Recent(ds, k, t) : \E i \in 1..Len(ts) : f[i] = j
    BY DEF Remembered
  <1>2. Len(es) = Len(ds) + 1 /\ Len(ds) \in Nat /\ es[Len(ds) + 1] = d
    OBVIOUS
  <1>3. \A j \in 1..Len(ds) : es[j] = ds[j]
    OBVIOUS
  <1> HIDE DEF es
  <1>4. StandsFor(ts, es, k, f)
    <2>1. \A i \in 1..Len(ts) : f[i] \in 1..Len(ds) /\ ts[i] = ds[f[i]].at /\ IsRestart(ds[f[i]], k)
      BY <1>1 DEF StandsFor
    <2>2. f \in [1..Len(ts) -> 1..Len(es)]
      BY <1>1, <1>2 DEF StandsFor
    <2>3. \A i \in 1..Len(ts) : ts[i] = es[f[i]].at /\ IsRestart(es[f[i]], k)
      BY <1>3, <2>1, Zenon
    <2> QED
      BY <1>1, <2>2, <2>3 DEF StandsFor
  <1>5. \A j \in Recent(es, k, t) : j \in Recent(ds, k, t)
    <2> SUFFICES ASSUME NEW j \in Recent(es, k, t) PROVE j \in Recent(ds, k, t)
      OBVIOUS
    <2>1. j \in 1..Len(es) /\ IsRestart(es[j], k) /\ t - es[j].at <= Within
      BY DEF Recent
    <2>2. j # Len(ds) + 1
      BY <1>2, <2>1
    <2>3. j \in 1..Len(ds)
      BY <1>2, <2>1, <2>2
    <2> QED
      BY <1>3, <2>1, <2>3 DEF Recent
  <1>6. Remembered(ts, es, k, t)
    BY <1>1, <1>4, <1>5 DEF Remembered
  <1> QED
    BY <1>6 DEF es

\* A restart is remembered by its timestamp.
LEMMA RememberedPaid ==
    ASSUME NEW ts \in Seq(Nat), NEW ds \in Seq(Decision), NEW k, NEW t \in Nat, Remembered(ts, ds, k, t),
           NEW d \in Decision, IsRestart(d, k), d.at = t
    PROVE  Remembered(Append(ts, t), Append(ds, d), k, t)
  <1> DEFINE es == Append(ds, d)
             us == Append(ts, t)
  <1>1. PICK f : StandsFor(ts, ds, k, f) /\ \A j \in Recent(ds, k, t) : \E i \in 1..Len(ts) : f[i] = j
    BY DEF Remembered
  <1>2. Len(es) = Len(ds) + 1 /\ Len(ds) \in Nat /\ es[Len(ds) + 1] = d
        /\ Len(us) = Len(ts) + 1 /\ Len(ts) \in Nat /\ us[Len(ts) + 1] = t
    OBVIOUS
  <1>3. (\A j \in 1..Len(ds) : es[j] = ds[j]) /\ (\A i \in 1..Len(ts) : us[i] = ts[i])
    OBVIOUS
  <1> HIDE DEF es, us
  <1> DEFINE g == [i \in 1..Len(us) |-> IF i = Len(ts) + 1 THEN Len(ds) + 1 ELSE f[i]]
  <1>4. \A i \in 1..Len(us) : i # Len(ts) + 1 => i \in 1..Len(ts)
    BY <1>2
  <1>5. \A i \in 1..Len(ts) : i \in 1..Len(us) /\ i # Len(ts) + 1 /\ f[i] \in 1..Len(ds) /\ f[i] # Len(ds) + 1
                              /\ f[i] \in 1..Len(es)
    BY <1>1, <1>2 DEF StandsFor
  <1>6. StandsFor(us, es, k, g)
    <2>1. g \in [1..Len(us) -> 1..Len(es)]
      BY <1>2, <1>4, <1>5
    <2>2. \A i, j \in 1..Len(us) : g[i] = g[j] => i = j
      BY <1>1, <1>4, <1>5 DEF StandsFor
    <2>3. \A i \in 1..Len(us) : us[i] = es[g[i]].at /\ IsRestart(es[g[i]], k)
      BY <1>1, <1>2, <1>3, <1>4, <1>5 DEF StandsFor
    <2> QED
      BY <2>1, <2>2, <2>3 DEF StandsFor
  <1>7. \A j \in Recent(es, k, t) : \E i \in 1..Len(us) : g[i] = j
    <2> SUFFICES ASSUME NEW j \in Recent(es, k, t) PROVE \E i \in 1..Len(us) : g[i] = j
      OBVIOUS
    <2>1. CASE j = Len(ds) + 1
      BY <1>2, <2>1
    <2>2. CASE j # Len(ds) + 1
      <3>1. j \in 1..Len(ds) /\ IsRestart(es[j], k) /\ t - es[j].at <= Within
        BY <1>2, <2>2 DEF Recent
      <3>2. j \in Recent(ds, k, t)
        BY <1>3, <3>1 DEF Recent
      <3>3. PICK i \in 1..Len(ts) : f[i] = j
        BY <1>1, <3>2
      <3> QED
        BY <1>5, <3>3
    <2> QED
      BY <2>1, <2>2
  <1>8. Remembered(us, es, k, t)
    BY <1>6, <1>7 DEF Remembered
  <1> QED
    BY <1>8 DEF es, us

\* A decision that follows the restarts of its window keeps the record exact.
LEMMA ExactAppend ==
    ASSUME NEW ds \in Seq(Decision), Exact(ds), NEW d \in Decision,
           d.action = "Restart" <=> Cardinality(Recent(ds, d.key, d.at)) < MaxRestarts
    PROVE  Exact(Append(ds, d))
  <1> DEFINE es == Append(ds, d)
             n == Len(ds) + 1
  <1>1. Len(es) = n /\ Len(ds) \in Nat /\ es[n] = d
    OBVIOUS
  <1>2. \A j \in 1..Len(ds) : es[j] = ds[j]
    OBVIOUS
  <1> HIDE DEF es
  <1>3. \A i \in 1..Len(ds) : Before(es, i) = Before(ds, i)
    BY <1>1, <1>2 DEF Before
  <1>4. Before(es, n) = Recent(ds, d.key, d.at)
    <2>1. \A j : j \in 1..n - 1 <=> j \in 1..Len(ds)
      BY <1>1
    <2> HIDE DEF n
    <2> QED
      BY <1>1, <1>2, <2>1 DEF Before, Recent, IsRestart
  <1>5. \A i \in 1..Len(es) : i # n => i \in 1..Len(ds)
    BY <1>1
  <1> HIDE DEF n
  <1>6. Exact(es)
    BY <1>1, <1>2, <1>3, <1>4, <1>5 DEF Exact
  <1> QED
    BY <1>6 DEF es

LEMMA BudgetKnown ==
    ASSUME NEW c \in Children
    PROVE  BudgetOf(c) \in Children \cup {Group}
  BY DEF BudgetOf

\* The first position of a sequence that holds c.
LEMMA FirstPosition ==
    ASSUME NEW S, NEW s \in Seq(S), NEW c \in ToSet(s)
    PROVE  SelectInSeq(s, LAMBDA d : d = c) \in 1..Len(s)
  <1> DEFINE I == {i \in 1..Len(s) : s[i] = c}
  <1>1. I # {} /\ I \subseteq Nat /\ I \subseteq 1..Len(s)
    BY DEF ToSet
  <1>2. SelectInSeq(s, LAMBDA d : d = c) = Min(I)
    BY <1>1 DEF SelectInSeq
  <1> HIDE DEF I
  <1>3. PICK x \in I : \A y \in I : x <= y
    BY <1>1, LeastNat
  <1>4. Min(I) \in I
    BY <1>3 DEF Min
  <1> QED
    BY <1>1, <1>2, <1>4

LEMMA AffectedAreChildren ==
    ASSUME children \in Seq(Children), NEW c \in Children
    PROVE  Affected(c) \subseteq Children
  <1>1. CASE c \in ToSet(children)
    <2> DEFINE m == SelectInSeq(children, LAMBDA d : d = c)
               r == SubSeq(children, m, Len(children))
    <2>1. m \in 1..Len(children)
      BY <1>1, FirstPosition
    <2> HIDE DEF m
    <2>2. r \in Seq(Children)
      BY <2>1, SubSeqProperties
    <2>3. ChildrenToRestart(c) = ToSet(r)
      BY <1>1 DEF ChildrenToRestart, m
    <2> HIDE DEF r
    <2>4. ToSet(r) \subseteq Children
      BY <2>2 DEF ToSet
    <2> QED
      BY <2>3, <2>4 DEF Affected
  <1>2. CASE c \notin ToSet(children)
    BY <1>2 DEF Affected, ChildrenToRestart
  <1> QED
    BY <1>1, <1>2

LEMMA FailureKeeps ==
    ASSUME SupervisionInv, NEW c \in Children, OnChildFailed(c)
    PROVE  SupervisionInv'
  <1> DEFINE k == BudgetOf(c)
             e == InWindow(k)
             restart == Len(e) < MaxRestarts
             d == [key |-> k, at |-> now, action |-> IF restart THEN "Restart" ELSE "Stop",
                   children |-> IF restart THEN Affected(c) ELSE {c}]
             ts == timestamps[k]
  <1>1. /\ now' = now /\ children' = children
        /\ timestamps' = [timestamps EXCEPT ![k] = IF restart THEN Append(e, now) ELSE e]
        /\ decisions' = Append(decisions, d)
    BY DEF OnChildFailed
  <1>2. /\ now \in Nat /\ timestamps \in [Children \cup {Group} -> Seq(Nat)]
        /\ decisions \in Seq(Decision) /\ children \in Seq(Children)
        /\ \A j \in 1..Len(decisions) : decisions[j].at <= now
        /\ \A l \in Children \cup {Group} : Remembered(timestamps[l], decisions, l, now)
        /\ Exact(decisions)
    BY DEF SupervisionInv, SupervisionType
  <1>3. k \in Children \cup {Group} /\ Affected(c) \subseteq Children
    BY <1>2, BudgetKnown, AffectedAreChildren
  <1>4. d \in Decision
    BY <1>2, <1>3 DEF Decision
  <1>5. e = Retain(ts, {i \in DOMAIN ts : now - ts[i] <= Within})
    BY DEF InWindow
  <1> HIDE DEF k, e
  <1>6. ts \in Seq(Nat) /\ Remembered(ts, decisions, k, now)
    BY <1>2, <1>3
  <1> HIDE DEF ts
  <1>7. /\ e \in Seq(Nat)
        /\ Remembered(e, decisions, k, now)
        /\ Len(e) = Cardinality(Recent(decisions, k, now))
    BY <1>2, <1>5, <1>6, RetainedAreRecent
  <1>8. d.key = k /\ d.at = now /\ (d.action = "Restart" <=> restart)
    OBVIOUS
  <1>9. d.action = "Restart" <=> Cardinality(Recent(decisions, d.key, d.at)) < MaxRestarts
    BY <1>7, <1>8
  <1> HIDE DEF d
  <1>10. Exact(decisions')
    BY <1>1, <1>2, <1>4, <1>9, ExactAppend
  <1>11. CASE restart
    <2>1. IsRestart(d, k)
      BY <1>8, <1>11 DEF IsRestart
    <2>2. Append(e, now) \in Seq(Nat) /\ timestamps' = [timestamps EXCEPT ![k] = Append(e, now)]
      BY <1>1, <1>2, <1>7, <1>11
    <2>3. Remembered(Append(e, now), decisions', k, now)
      BY <1>1, <1>2, <1>4, <1>7, <1>8, <2>1, RememberedPaid
    <2>4. \A l \in Children \cup {Group} : l # k => ~IsRestart(d, l)
      BY <1>8 DEF IsRestart
    <2>5. ASSUME NEW l \in Children \cup {Group}, l # k PROVE Remembered(timestamps[l], decisions', l, now)
      <3>1. timestamps[l] \in Seq(Nat) /\ Remembered(timestamps[l], decisions, l, now) /\ ~IsRestart(d, l)
        BY <1>2, <2>4, <2>5
      <3> QED
        BY <1>1, <1>2, <1>4, <3>1, RememberedUnpaid
    <2>6. \A l \in Children \cup {Group} : Remembered(timestamps'[l], decisions', l, now)
      BY <1>2, <1>3, <2>2, <2>3, <2>5
    <2>7. timestamps' \in [Children \cup {Group} -> Seq(Nat)]
      BY <1>2, <1>3, <2>2
    <2>8. decisions' \in Seq(Decision) /\ \A j \in 1..Len(decisions') : decisions'[j].at <= now
      BY <1>1, <1>2, <1>4, <1>8
    <2> QED
      BY <1>1, <1>2, <1>10, <2>6, <2>7, <2>8 DEF SupervisionInv, SupervisionType
  <1>12. CASE ~restart
    <2>1. ~IsRestart(d, k)
      BY <1>8, <1>12 DEF IsRestart
    <2>2. timestamps' = [timestamps EXCEPT ![k] = e]
      BY <1>1, <1>12
    <2>3. Remembered(e, decisions', k, now)
      BY <1>1, <1>2, <1>4, <1>7, <2>1, RememberedUnpaid
    <2>4. \A l \in Children \cup {Group} : l # k => ~IsRestart(d, l)
      BY <1>8 DEF IsRestart
    <2>5. ASSUME NEW l \in Children \cup {Group}, l # k PROVE Remembered(timestamps[l], decisions', l, now)
      <3>1. timestamps[l] \in Seq(Nat) /\ Remembered(timestamps[l], decisions, l, now) /\ ~IsRestart(d, l)
        BY <1>2, <2>4, <2>5
      <3> QED
        BY <1>1, <1>2, <1>4, <3>1, RememberedUnpaid
    <2>6. \A l \in Children \cup {Group} : Remembered(timestamps'[l], decisions', l, now)
      BY <1>2, <1>3, <2>2, <2>3, <2>5
    <2>7. timestamps' \in [Children \cup {Group} -> Seq(Nat)]
      BY <1>2, <1>3, <1>7, <2>2
    <2>8. decisions' \in Seq(Decision) /\ \A j \in 1..Len(decisions') : decisions'[j].at <= now
      BY <1>1, <1>2, <1>4, <1>8
    <2> QED
      BY <1>1, <1>2, <1>10, <2>6, <2>7, <2>8 DEF SupervisionInv, SupervisionType
  <1> QED
    BY <1>11, <1>12

LEMMA SupervisionStep ==
    ASSUME SupervisionInv, [SupervisionNext]_svars
    PROVE  SupervisionInv'
  <1>1. ASSUME NEW c \in Children, OnChildFailed(c) PROVE SupervisionInv'
    BY <1>1, FailureKeeps
  <1>2. ASSUME NEW c \in Children, RegisterChild(c) PROVE SupervisionInv'
    BY <1>2 DEF RegisterChild, SupervisionInv, SupervisionType
  <1>3. CASE Advances
    <2>1. now' = now + 1 /\ UNCHANGED <<timestamps, children, decisions>>
      BY <1>3 DEF Advances
    <2>2. \A k \in Children \cup {Group} : Remembered(timestamps[k], decisions, k, now + 1)
      BY RememberedLater DEF SupervisionInv, SupervisionType
    <2>3. \A j \in 1..Len(decisions) : decisions[j].at <= now + 1
      <3>1. \A j \in 1..Len(decisions) : decisions[j].at \in Nat
        BY DecisionAt DEF SupervisionInv, SupervisionType
      <3> QED
        BY <3>1 DEF SupervisionInv, SupervisionType
    <2> QED
      BY <2>1, <2>2, <2>3 DEF SupervisionInv, SupervisionType
  <1>4. CASE UNCHANGED svars
    BY <1>4 DEF svars, SupervisionInv, SupervisionType
  <1> QED
    BY <1>1, <1>2, <1>3, <1>4 DEF SupervisionNext

\* RestartTracker::record under all three strategies: a child is restarted exactly
\* while its budget has fewer than max_restarts restarts in the window that ends then.
THEOREM RestartBudgetStaysExact == Spec => []RestartBudgetIsExact
  <1>1. Init => SupervisionInv
    <2> SUFFICES ASSUME SupervisionInit PROVE SupervisionInv
      BY DEF Init
    <2>1. now = 0 /\ timestamps = [k \in Children \cup {Group} |-> <<>>] /\ children = <<>> /\ decisions = <<>>
      BY DEF SupervisionInit
    <2>2. SupervisionType
      BY <2>1 DEF SupervisionType
    <2>3. \A k : StandsFor(<<>>, <<>>, k, <<>>)
      BY DEF StandsFor
    <2>4. \A k : Recent(<<>>, k, 0) = {}
      BY DEF Recent
    <2>5. \A k : Remembered(<<>>, <<>>, k, 0)
      BY <2>3, <2>4 DEF Remembered
    <2>6. Exact(<<>>)
      BY DEF Exact
    <2> QED
      BY <2>1, <2>2, <2>5, <2>6 DEF SupervisionInv
  <1>2. SupervisionInv /\ [Next]_cvars => SupervisionInv'
    BY Frame, SupervisionStep
  <1>3. SupervisionInv => RestartBudgetIsExact
    <2> SUFFICES ASSUME SupervisionInv PROVE RestartBudgetIsExact
      OBVIOUS
    <2>1. DOMAIN decisions = 1..Len(decisions)
      BY DEF SupervisionInv, SupervisionType
    <2>2. \A i \in 1..Len(decisions) : RestartsBefore(i) = Before(decisions, i)
      BY DEF RestartsBefore, Before
    <2> QED
      BY <2>1, <2>2 DEF SupervisionInv, Exact, RestartBudgetIsExact
  <1> QED
    BY <1>1, <1>2, <1>3, PTL DEF Spec

-----------------------------------------------------------------------------
(***************************************************************************)
(* The test harness.  A process that runs and was not leaked has somebody  *)
(* who will kill it: a handle, the build that launched it, or the closing  *)
(* of the cluster; and the process of a handle has the port of an entry of *)
(* the plan for its node.                                                  *)
(***************************************************************************)

Phases == {"launch", "connect", "ready", "closing", "ended"}
ProcStates == {"starting", "serving", "draining", "killed", "exited", "gone"}
PlanEntries == [id : NodeNames, port : Nat]
Process == [id : NodeNames, port : Nat, state : ProcStates, leaked : BOOLEAN]
ClusterType == [phase : Phases, plan : Seq(PlanEntries), at : Nat, tries : Nat, todo : SUBSET Nat,
                reaping : Nat, then : {"ready", "ended"}, built : Nat]

HarnessType ==
    /\ cluster \in ClusterType
    /\ procs \in Seq(Process)
    /\ handles \in [NodeNames -> 0..Len(procs)]
    /\ reply \in [own : Nat, from : Nat]

\* Where the builder and the closing of a cluster are.
ProgressOK ==
    /\ cluster.phase \in {"launch", "connect"} => cluster.at \in 1..Len(cluster.plan)
    /\ cluster.phase = "connect" => procs # <<>> /\ procs[Len(procs)].port = cluster.plan[cluster.at].port
    /\ cluster.phase = "closing" => cluster.todo \subseteq 1..Len(procs)
    /\ cluster.reaping # 0 => cluster.phase = "closing" /\ cluster.reaping \in cluster.todo

Running(ps) == {p \in 1..Len(ps) : ~ps[p].leaked /\ ps[p].state # "gone"}

OwnedBy ==
    CASE cluster.phase = "ended" -> {}
      [] cluster.phase = "connect" -> Owned \cup {Len(procs)}
      [] cluster.phase = "closing" /\ cluster.then = "ended" -> cluster.todo
      [] OTHER -> Owned

\* The handle of a node is that of a process launched for an entry of the plan.
PlannedPort(plan, n, port) == \E i \in 1..Len(plan) : plan[i].id = n /\ plan[i].port = port
HandlesOK == cluster.phase # "ended" =>
    \A n \in NodeNames : handles[n] # 0 => PlannedPort(cluster.plan, n, procs[handles[n]].port)

ReplyOK == (reply.from # 0 /\ ~SharesPort /\ Leaked = {}) => reply.from = reply.own

HarnessInv == HarnessType /\ ProgressOK /\ Running(procs) \subseteq OwnedBy /\ HandlesOK /\ ReplyOK

\* The processes qs are those of ps, later: none is launched, leaked or comes back.
Later(ps, qs) ==
    /\ Len(qs) = Len(ps)
    /\ \A p \in 1..Len(ps) : /\ qs[p].port = ps[p].port /\ qs[p].leaked = ps[p].leaked
                             /\ ps[p].state = "gone" => qs[p].state = "gone"

LEMMA StateChange ==
    ASSUME NEW ps \in Seq(Process), NEW p \in 1..Len(ps), NEW s \in ProcStates,
           ps[p].state = "gone" => s = "gone"
    PROVE  [ps EXCEPT ![p].state = s] \in Seq(Process) /\ Later(ps, [ps EXCEPT ![p].state = s])
  <1>1. \A q \in 1..Len(ps) : ps[q] \in Process
    OBVIOUS
  <1>2. [ps[p] EXCEPT !.state = s] \in Process /\ [ps[p] EXCEPT !.state = s].port = ps[p].port
        /\ [ps[p] EXCEPT !.state = s].leaked = ps[p].leaked /\ [ps[p] EXCEPT !.state = s].state = s
    BY <1>1 DEF Process
  <1> DEFINE r == [ps[p] EXCEPT !.state = s]
             qs == [ps EXCEPT ![p] = r]
  <1>3. qs = [ps EXCEPT ![p].state = s]
    OBVIOUS
  <1> HIDE DEF r
  <1>4. qs \in Seq(Process) /\ Len(qs) = Len(ps) /\ \A q \in 1..Len(ps) : qs[q] = IF q = p THEN r ELSE ps[q]
    BY <1>1, <1>2 DEF r
  <1> HIDE DEF qs
  <1>5. Later(ps, qs)
    BY <1>2, <1>4 DEF Later, r
  <1> QED
    BY <1>3, <1>4, <1>5

LEMMA LaterRuns ==
    ASSUME NEW ps, NEW qs, Later(ps, qs)
    PROVE  Running(qs) \subseteq Running(ps)
  BY DEF Later, Running

LEMMA StillLeaked ==
    ASSUME procs' \in Seq(Process), procs \in Seq(Process), Len(procs) <= Len(procs'),
           \A p \in 1..Len(procs) : procs[p].leaked => procs'[p].leaked
    PROVE  Leaked \subseteq Leaked'
  <1>1. DOMAIN procs = 1..Len(procs) /\ DOMAIN procs' = 1..Len(procs') /\ Len(procs) \in Nat /\ Len(procs') \in Nat
    OBVIOUS
  <1>2. \A p \in 1..Len(procs) : p \in 1..Len(procs')
    BY <1>1
  <1> QED
    BY <1>1, <1>2 DEF Leaked

\* What a step needs not show again: the reply and the plan are as before, or there
\* is no reply.
LEMMA ReplyKept ==
    ASSUME HarnessInv, procs' \in Seq(Process), Len(procs) <= Len(procs'),
           \A p \in 1..Len(procs) : procs[p].leaked => procs'[p].leaked,
           reply' = NoReply \/ (reply' = reply /\ cluster'.plan = cluster.plan)
    PROVE  ReplyOK' /\ reply' \in [own : Nat, from : Nat]
  <1>1. CASE reply' = NoReply
    BY <1>1 DEF ReplyOK, NoReply
  <1>2. CASE reply' = reply /\ cluster'.plan = cluster.plan
    <2>1. SharesPort' <=> SharesPort
      BY <1>2 DEF SharesPort, PlanEntry
    <2>2. Leaked \subseteq Leaked'
      BY StillLeaked DEF HarnessInv, HarnessType
    <2> QED
      BY <1>2, <2>1, <2>2 DEF ReplyOK, HarnessInv, HarnessType
  <1> QED
    BY <1>1, <1>2

\* A step that only takes processes further.
LEMMA ProcessesGoOn ==
    ASSUME HarnessInv, procs' \in Seq(Process), Later(procs, procs'), UNCHANGED <<cluster, handles, reply>>
    PROVE  HarnessInv'
  <1>1. Len(procs') = Len(procs) /\ Len(procs) \in Nat
        /\ \A p \in 1..Len(procs) : procs'[p].port = procs[p].port /\ procs'[p].leaked = procs[p].leaked
    BY DEF Later, HarnessInv, HarnessType
  <1>2. HarnessType'
    BY <1>1 DEF HarnessInv, HarnessType
  <1>3. ProgressOK'
    <2>1. procs # <<>> => procs' # <<>> /\ Len(procs) \in 1..Len(procs)
      BY <1>1 DEF HarnessInv, HarnessType
    <2> QED
      BY <1>1, <2>1 DEF HarnessInv, ProgressOK
  <1>4. Running(procs') \subseteq OwnedBy'
    <2>1. OwnedBy' = OwnedBy
      BY <1>1 DEF OwnedBy, Owned
    <2> QED
      BY <2>1, LaterRuns DEF HarnessInv
  <1>5. HandlesOK'
    <2>1. \A n \in NodeNames : handles[n] # 0 => handles[n] \in 1..Len(procs)
      BY DEF HarnessInv, HarnessType
    <2> QED
      BY <1>1, <2>1 DEF HarnessInv, HandlesOK
  <1>6. ReplyOK'
    BY <1>1, ReplyKept
  <1> QED
    BY <1>2, <1>3, <1>4, <1>5, <1>6 DEF HarnessInv

\* The cluster that kills and awaits ps and is then in phase next.
Closing(ps, next) ==
    /\ cluster' \in ClusterType
    /\ cluster'.plan = cluster.plan /\ cluster'.reaping = 0
    /\ cluster'.phase = (IF ps = {} THEN next ELSE "closing") /\ cluster'.todo = ps /\ cluster'.then = next

LEMMA Closes ==
    ASSUME HarnessInv, cluster.phase # "ended", procs' \in Seq(Process), Later(procs, procs'),
           handles' = handles, NEW ps, ps \subseteq 1..Len(procs), NEW next \in {"ready", "ended"},
           Closing(ps, next), Running(procs') \subseteq (IF next = "ended" THEN ps ELSE Owned),
           reply' = NoReply \/ reply' = reply
    PROVE  HarnessInv'
  <1>1. Len(procs') = Len(procs) /\ Len(procs) \in Nat
        /\ \A p \in 1..Len(procs) : procs'[p].port = procs[p].port /\ procs'[p].leaked = procs[p].leaked
    BY DEF Later, HarnessInv, HarnessType
  <1>2. ReplyOK' /\ reply' \in [own : Nat, from : Nat]
    BY <1>1, ReplyKept DEF Closing
  <1>3. HarnessType'
    BY <1>1, <1>2 DEF HarnessInv, HarnessType, Closing
  <1>4. ProgressOK'
    BY <1>1 DEF ProgressOK, Closing
  <1>5. Running(procs') \subseteq OwnedBy'
    <2>1. Owned' = Owned
      BY DEF Owned
    <2>2. CASE ps = {}
      BY <2>1, <2>2 DEF OwnedBy, Closing
    <2>3. CASE ps # {}
      BY <2>1, <2>3 DEF OwnedBy, Closing
    <2> QED
      BY <2>2, <2>3
  <1>6. HandlesOK'
    <2>1. \A n \in NodeNames : handles[n] # 0 => handles[n] \in 1..Len(procs)
      BY DEF HarnessInv, HarnessType
    <2>2. \A n \in NodeNames : handles[n] # 0 => PlannedPort(cluster.plan, n, procs[handles[n]].port)
      BY DEF HarnessInv, HandlesOK
    <2> QED
      BY <1>1, <2>1, <2>2 DEF HandlesOK, Closing
  <1> QED
    BY <1>2, <1>3, <1>4, <1>5, <1>6 DEF HarnessInv

LEMMA SameProcesses ==
    ASSUME HarnessInv
    PROVE  procs \in Seq(Process) /\ Later(procs, procs) /\ Owned \subseteq 1..Len(procs)
  BY DEF HarnessInv, HarnessType, Later, Owned

LEMMA CloseIsClosing ==
    ASSUME cluster \in ClusterType, cluster.reaping = 0, NEW ps, ps \subseteq Nat, NEW next \in {"ready", "ended"},
           cluster' = Close(ps, next)
    PROVE  Closing(ps, next)
  BY DEF Close, Closing, ClusterType, Phases

\* Not being reaped, unless the cluster is closing.
LEMMA NotReaping ==
    ASSUME HarnessInv, cluster.phase # "closing"
    PROVE  cluster.reaping = 0
  BY DEF HarnessInv, ProgressOK

LEMMA BuildKeeps ==
    ASSUME HarnessInv, NEW plan \in Plans, Build(plan)
    PROVE  HarnessInv'
  <1>1. /\ cluster.phase = "ended" /\ procs' = procs /\ handles' = NoHandles /\ reply' = NoReply
        /\ cluster' = [cluster EXCEPT !.phase = "launch", !.plan = plan, !.at = 1, !.built = @ + 1]
    BY DEF Build, InPhase
  <1>2. plan \in Seq(PlanEntries) /\ plan # <<>> /\ 1 \in 1..Len(plan)
    <2>1. plan \in Seq(PlanEntries) /\ plan # <<>>
      BY TestHarnessAssumption, Zenon DEF PlanEntries
    <2> QED
      BY <2>1
  <1>3. cluster \in ClusterType /\ procs \in Seq(Process) /\ Len(procs) \in Nat /\ cluster.reaping = 0
    BY <1>1, NotReaping DEF HarnessInv, HarnessType
  <1>4. cluster' \in ClusterType /\ cluster'.phase = "launch" /\ cluster'.plan = plan /\ cluster'.at = 1
        /\ cluster'.reaping = 0
    <2>1. cluster.built + 1 \in Nat
      BY <1>3 DEF ClusterType
    <2> DEFINE b == cluster.built + 1
    <2>2. cluster' = [cluster EXCEPT !.phase = "launch", !.plan = plan, !.at = 1, !.built = b]
      BY <1>1
    <2> HIDE DEF b
    <2> QED
      BY <1>2, <1>3, <2>1, <2>2 DEF ClusterType, Phases, b
  <1>5. HarnessType'
    BY <1>1, <1>3, <1>4 DEF HarnessType, NoHandles, NoReply
  <1>6. ProgressOK'
    BY <1>2, <1>4 DEF ProgressOK
  <1>7. Running(procs') \subseteq OwnedBy'
    BY <1>1 DEF HarnessInv, OwnedBy
  <1>8. HandlesOK' /\ ReplyOK'
    BY <1>1 DEF HandlesOK, NoHandles, ReplyOK, NoReply
  <1> QED
    BY <1>5, <1>6, <1>7, <1>8 DEF HarnessInv

LEMMA LaunchKeeps ==
    ASSUME HarnessInv, Launch
    PROVE  HarnessInv'
  <1> DEFINE e == cluster.plan[cluster.at]
             new == [id |-> e.id, port |-> e.port, state |-> "starting", leaked |-> FALSE]
  <1>1. /\ cluster.phase = "launch" /\ UNCHANGED <<handles, reply>>
        /\ procs' = Append(procs, new)
        /\ cluster' = [cluster EXCEPT !.phase = "connect", !.tries = 0]
    BY DEF Launch, InPhase, PlanEntry
  <1>2. /\ cluster \in ClusterType /\ procs \in Seq(Process) /\ Len(procs) \in Nat /\ cluster.reaping = 0
        /\ handles \in [NodeNames -> 0..Len(procs)]
    BY <1>1, NotReaping DEF HarnessInv, HarnessType
  <1>3. cluster.at \in 1..Len(cluster.plan) /\ cluster.plan \in Seq(PlanEntries)
    BY <1>1, <1>2 DEF HarnessInv, ProgressOK, ClusterType
  <1>4. e \in PlanEntries
    BY <1>3
  <1>5. new \in Process
    BY <1>4 DEF PlanEntries, Process, ProcStates
  <1>6. new.port = e.port /\ ~new.leaked
    OBVIOUS
  <1> HIDE DEF e, new
  <1>7. /\ procs' \in Seq(Process) /\ Len(procs') = Len(procs) + 1 /\ procs' # <<>>
        /\ procs'[Len(procs) + 1] = new
        /\ \A p \in 1..Len(procs) : procs'[p] = procs[p] /\ p \in 1..Len(procs')
        /\ \A p \in 1..Len(procs') : p # Len(procs) + 1 => p \in 1..Len(procs)
    BY <1>1, <1>2, <1>5
  <1>8. cluster' \in ClusterType /\ cluster'.phase = "connect" /\ cluster'.plan = cluster.plan
        /\ cluster'.at = cluster.at /\ cluster'.reaping = 0
    BY <1>1, <1>2 DEF ClusterType, Phases
  <1>9. ReplyOK' /\ reply' \in [own : Nat, from : Nat]
    BY <1>1, <1>2, <1>7, <1>8, ReplyKept
  <1>10. HarnessType'
    BY <1>1, <1>2, <1>7, <1>8, <1>9 DEF HarnessType
  <1>11. ProgressOK'
    BY <1>3, <1>6, <1>7, <1>8 DEF ProgressOK, e
  <1>12. Running(procs') \subseteq OwnedBy'
    <2>1. Running(procs) \subseteq Owned
      BY <1>1 DEF HarnessInv, OwnedBy
    <2>2. OwnedBy' = Owned \cup {Len(procs')}
      BY <1>1, <1>8 DEF OwnedBy, Owned
    <2>3. Running(procs') \subseteq Running(procs) \cup {Len(procs')}
      BY <1>7 DEF Running
    <2> QED
      BY <2>1, <2>2, <2>3
  <1>13. HandlesOK'
    <2>1. \A n \in NodeNames : handles[n] # 0 => handles[n] \in 1..Len(procs)
      BY <1>2
    <2>2. \A n \in NodeNames : handles[n] # 0 => PlannedPort(cluster.plan, n, procs[handles[n]].port)
      BY <1>1 DEF HarnessInv, HandlesOK
    <2> QED
      BY <1>1, <1>7, <1>8, <2>1, <2>2 DEF HandlesOK
  <1> QED
    BY <1>9, <1>10, <1>11, <1>12, <1>13 DEF HarnessInv

\* What Leak does.
LEMMA Leaks ==
    ASSUME procs \in Seq(Process), NEW ps, Leak(ps)
    PROVE  /\ procs' \in Seq(Process) /\ Len(procs') = Len(procs)
           /\ \A p \in 1..Len(procs) : /\ procs'[p].port = procs[p].port
                                       /\ procs[p].leaked => procs'[p].leaked
           /\ Running(procs') \subseteq Running(procs) \ ps
  <1> DEFINE L(p) == IF p \in ps THEN [procs[p] EXCEPT !.leaked = TRUE] ELSE procs[p]
  <1>1. procs' = [p \in 1..Len(procs) |-> L(p)] /\ Len(procs) \in Nat
    BY DEF Leak
  <1>2. \A p \in 1..Len(procs) : procs[p] \in Process
    OBVIOUS
  <1>3. \A p \in 1..Len(procs) : /\ L(p) \in Process /\ L(p).port = procs[p].port /\ L(p).state = procs[p].state
                                 /\ p \in ps => L(p).leaked
                                 /\ p \notin ps => L(p) = procs[p]
    BY <1>2 DEF Process
  <1> HIDE DEF L
  <1>4. procs' \in Seq(Process) /\ Len(procs') = Len(procs) /\ \A p \in 1..Len(procs) : procs'[p] = L(p)
    BY <1>1, <1>3
  <1>5. \A p \in 1..Len(procs) : procs[p].leaked => L(p).leaked
    BY <1>3
  <1> QED
    BY <1>3, <1>4, <1>5 DEF Running

LEMMA ConnectKeeps ==
    ASSUME HarnessInv, Connect
    PROVE  HarnessInv'
  <1> DEFINE e == cluster.plan[cluster.at]
             old == handles[e.id]
             new == Len(procs)
             last == cluster.at = Len(cluster.plan)
  <1>1. /\ cluster.phase = "connect" /\ reply' = reply
        /\ Leak({old})
        /\ handles' = [handles EXCEPT ![e.id] = new]
        /\ cluster' = [cluster EXCEPT !.at = @ + 1, !.phase = IF last THEN "ready" ELSE "launch"]
    BY DEF Connect, InPhase, PlanEntry, Newest
  <1>2. /\ cluster \in ClusterType /\ procs \in Seq(Process) /\ Len(procs) \in Nat /\ cluster.reaping = 0
        /\ handles \in [NodeNames -> 0..Len(procs)] /\ cluster.plan \in Seq(PlanEntries)
    BY <1>1, NotReaping DEF HarnessInv, HarnessType, ClusterType
  <1>3. cluster.at \in 1..Len(cluster.plan) /\ procs # <<>> /\ procs[new].port = e.port
    BY <1>1 DEF HarnessInv, ProgressOK
  <1>4. e \in PlanEntries /\ e.id \in NodeNames
    <2>1. e \in PlanEntries
      BY <1>2, <1>3
    <2> QED
      BY <2>1 DEF PlanEntries
  <1>5. /\ procs' \in Seq(Process) /\ Len(procs') = Len(procs)
        /\ \A p \in 1..Len(procs) : /\ procs'[p].port = procs[p].port
                                    /\ procs[p].leaked => procs'[p].leaked
        /\ Running(procs') \subseteq Running(procs) \ {old}
    BY <1>1, <1>2, Leaks
  <1>6. new \in 1..Len(procs)
    BY <1>2, <1>3
  <1>7. /\ cluster' \in ClusterType /\ cluster'.phase = (IF last THEN "ready" ELSE "launch")
        /\ cluster'.plan = cluster.plan /\ cluster'.at = cluster.at + 1 /\ cluster'.reaping = 0
    <2> DEFINE b == cluster.at + 1
               f == IF last THEN "ready" ELSE "launch"
    <2>1. b \in Nat /\ f \in Phases
      BY <1>3 DEF Phases
    <2>2. cluster' = [cluster EXCEPT !.at = b, !.phase = f]
      BY <1>1
    <2> HIDE DEF b, f
    <2>3. cluster' \in ClusterType /\ cluster'.phase = f /\ cluster'.plan = cluster.plan /\ cluster'.at = b
          /\ cluster'.reaping = 0
      BY <1>2, <2>1, <2>2 DEF ClusterType
    <2> QED
      BY <2>3 DEF b, f
  <1>8. handles' \in [NodeNames -> 0..Len(procs)]
        /\ \A n \in NodeNames : handles'[n] = IF n = e.id THEN new ELSE handles[n]
    BY <1>1, <1>2, <1>4, <1>6
  <1>9. ReplyOK' /\ reply' \in [own : Nat, from : Nat]
    BY <1>1, <1>2, <1>5, <1>7, ReplyKept
  <1>10. HarnessType'
    BY <1>5, <1>7, <1>8, <1>9 DEF HarnessType
  <1>11. ProgressOK'
    BY <1>2, <1>3, <1>7 DEF ProgressOK
  <1>12. Running(procs') \subseteq OwnedBy'
    <2>1. Running(procs) \subseteq Owned \cup {new} /\ 0 \notin Running(procs)
      BY <1>1 DEF HarnessInv, OwnedBy, Running
    <2>2. OwnedBy' = Owned'
      BY <1>7 DEF OwnedBy
    <2>3. Owned \ {old} \subseteq Owned' /\ new \in Owned'
      BY <1>4, <1>6, <1>8 DEF Owned
    <2> QED
      BY <1>5, <2>1, <2>2, <2>3
  <1>13. HandlesOK'
    <2>1. \A n \in NodeNames : handles[n] # 0 => handles[n] \in 1..Len(procs)
      BY <1>2
    <2>2. \A n \in NodeNames : handles[n] # 0 => PlannedPort(cluster.plan, n, procs[handles[n]].port)
      BY <1>1 DEF HarnessInv, HandlesOK
    <2>4. PlannedPort(cluster.plan, e.id, procs[new].port)
      BY <1>3 DEF PlannedPort
    <2>5. ASSUME NEW n \in NodeNames, handles'[n] # 0 
               PROVE PlannedPort(cluster.plan, n, procs'[handles'[n]].port)
      <3>1. CASE n = e.id
        <4>1. handles'[n] = new /\ procs'[new].port = procs[new].port
          BY <1>5, <1>6, <1>8, <3>1
        <4> QED
          BY <2>4, <3>1, <4>1
      <3>2. CASE n # e.id
        <4>1. handles'[n] = handles[n] /\ handles[n] # 0
          BY <1>8, <2>5, <3>2
        <4>2. procs'[handles[n]].port = procs[handles[n]].port
          BY <1>5, <2>1, <4>1
        <4> QED
          BY <2>2, <4>1, <4>2
      <3> QED
        BY <3>1, <3>2
    <2> QED
      BY <1>7, <2>5 DEF HandlesOK
  <1> QED
    BY <1>9, <1>10, <1>11, <1>12, <1>13 DEF HarnessInv

LEMMA LaunchFailsKeeps ==
    ASSUME HarnessInv, LaunchFails
    PROVE  HarnessInv'
  <1>1. cluster.phase = "launch" /\ cluster' = Close(Owned, "ended") /\ UNCHANGED <<handles, procs, reply>>
    BY DEF LaunchFails, InPhase
  <1>2. procs \in Seq(Process) /\ Later(procs, procs) /\ Owned \subseteq 1..Len(procs)
    BY SameProcesses
  <1>3. cluster.reaping = 0 /\ cluster \in ClusterType /\ Owned \subseteq Nat
    BY <1>1, <1>2, NotReaping DEF HarnessInv, HarnessType
  <1>4. Closing(Owned, "ended")
    BY <1>1, <1>3, CloseIsClosing
  <1>5. Running(procs') \subseteq Owned
    BY <1>1 DEF HarnessInv, OwnedBy
  <1> QED
    BY <1>1, <1>2, <1>4, <1>5, Closes

LEMMA ConnectFailsKeeps ==
    ASSUME HarnessInv, ConnectFails
    PROVE  HarnessInv'
  <1>1. cluster.phase = "connect" /\ UNCHANGED <<handles, procs, reply>>
    BY DEF ConnectFails, InPhase
  <1>2. procs \in Seq(Process) /\ Later(procs, procs) /\ Owned \subseteq 1..Len(procs) /\ Len(procs) \in 1..Len(procs)
    BY <1>1, SameProcesses DEF HarnessInv, ProgressOK
  <1>3. cluster.reaping = 0 /\ cluster \in ClusterType
    BY <1>1, NotReaping DEF HarnessInv, HarnessType
  <1> DEFINE ps == Owned \cup {Len(procs)}
  <1>4. CASE cluster' = Close(ps, "ended")
    <2>1. ps \subseteq 1..Len(procs) /\ ps \subseteq Nat
      <3>1. 1..Len(procs) \subseteq Nat
        OBVIOUS
      <3>2. ps \subseteq 1..Len(procs)
        BY <1>2, Zenon
      <3> QED
        BY <3>1, <3>2, Zenon
    <2>2. Running(procs') \subseteq ps
      BY <1>1 DEF HarnessInv, OwnedBy
    <2> HIDE DEF ps
    <2>3. Closing(ps, "ended")
      BY <1>3, <1>4, <2>1, CloseIsClosing
    <2> QED
      BY <1>1, <1>2, <2>1, <2>2, <2>3, Closes
  <1>5. CASE cluster' = [cluster EXCEPT !.tries = @ + 1]
    <2>1. cluster.tries + 1 \in Nat
      BY <1>3 DEF ClusterType
    <2> DEFINE b == cluster.tries + 1
    <2>2. cluster' = [cluster EXCEPT !.tries = b]
      BY <1>5
    <2> HIDE DEF b
    <2>3. cluster' \in ClusterType /\ cluster'.phase = cluster.phase /\ cluster'.plan = cluster.plan
          /\ cluster'.at = cluster.at /\ cluster'.todo = cluster.todo /\ cluster'.reaping = cluster.reaping
          /\ cluster'.then = cluster.then
      BY <1>3, <2>1, <2>2 DEF ClusterType, b
    <2>4. HarnessType' /\ ProgressOK' /\ HandlesOK'
      BY <1>1, <2>3 DEF HarnessInv, HarnessType, ProgressOK, HandlesOK
    <2>5. Running(procs') \subseteq OwnedBy'
      BY <1>1, <2>3 DEF HarnessInv, OwnedBy, Owned
    <2>6. ReplyOK'
      BY <1>1, <1>2, <2>3, ReplyKept
    <2> QED
      BY <2>4, <2>5, <2>6 DEF HarnessInv
  <1> QED
    BY <1>4, <1>5 DEF ConnectFails, Newest

LEMMA BuildDroppedKeeps ==
    ASSUME HarnessInv, BuildDropped
    PROVE  HarnessInv'
  <1> DEFINE ps == Owned \cup {Len(procs)}
  <1>1. /\ cluster.phase = "connect" /\ reply' = reply /\ handles' = NoHandles
        /\ Leak(ps) /\ cluster' = [cluster EXCEPT !.phase = "ended"]
    BY DEF BuildDropped, InPhase, Newest
  <1>2. procs \in Seq(Process) /\ cluster \in ClusterType /\ cluster.reaping = 0 /\ Len(procs) \in Nat
    BY <1>1, NotReaping DEF HarnessInv, HarnessType
  <1>3. Running(procs) \subseteq ps
    BY <1>1 DEF HarnessInv, OwnedBy
  <1> HIDE DEF ps
  <1>4. /\ procs' \in Seq(Process) /\ Len(procs') = Len(procs)
        /\ \A p \in 1..Len(procs) : procs[p].leaked => procs'[p].leaked
        /\ Running(procs') \subseteq Running(procs) \ ps
    BY <1>1, <1>2, Leaks
  <1>5. cluster' \in ClusterType /\ cluster'.phase = "ended" /\ cluster'.plan = cluster.plan /\ cluster'.reaping = 0
    BY <1>1, <1>2 DEF ClusterType, Phases
  <1>6. ReplyOK' /\ reply' \in [own : Nat, from : Nat]
    BY <1>1, <1>2, <1>4, <1>5, ReplyKept
  <1>7. HarnessType'
    BY <1>1, <1>2, <1>4, <1>5, <1>6 DEF HarnessType, NoHandles
  <1>8. ProgressOK' /\ HandlesOK'
    BY <1>5 DEF ProgressOK, HandlesOK
  <1>9. Running(procs') \subseteq OwnedBy'
    BY <1>3, <1>4 DEF OwnedBy
  <1> QED
    BY <1>6, <1>7, <1>8, <1>9 DEF HarnessInv

LEMMA KillKeeps ==
    ASSUME HarnessInv, NEW p \in DOMAIN procs, Kill(p)
    PROVE  HarnessInv'
  <1> DEFINE s == IF procs[p].state \in {"exited", "gone"} THEN procs[p].state ELSE "killed"
  <1>1. /\ cluster.phase = "closing" /\ p \in cluster.todo /\ UNCHANGED <<handles, reply>>
        /\ cluster' = [cluster EXCEPT !.reaping = p]
        /\ procs' = [procs EXCEPT ![p].state = s]
    BY DEF Kill, InPhase
  <1>2. procs \in Seq(Process) /\ cluster \in ClusterType /\ p \in 1..Len(procs) /\ Len(procs) \in Nat
    BY DEF HarnessInv, HarnessType
  <1>3. s \in ProcStates /\ (procs[p].state = "gone" => s = "gone")
    BY DEF ProcStates
  <1> HIDE DEF s
  <1>4. procs' \in Seq(Process) /\ Later(procs, procs')
    BY <1>1, <1>2, <1>3, StateChange
  <1>5. /\ cluster' \in ClusterType /\ cluster'.reaping = p /\ cluster'.phase = "closing"
        /\ cluster'.plan = cluster.plan /\ cluster'.todo = cluster.todo /\ cluster'.then = cluster.then
    BY <1>1, <1>2 DEF ClusterType
  <1>6. Len(procs') = Len(procs)
        /\ \A q \in 1..Len(procs) : procs'[q].port = procs[q].port /\ procs'[q].leaked = procs[q].leaked
    BY <1>4 DEF Later
  <1>7. ReplyOK' /\ reply' \in [own : Nat, from : Nat]
    BY <1>1, <1>2, <1>4, <1>5, <1>6, ReplyKept
  <1>8. HarnessType' /\ ProgressOK'
    BY <1>1, <1>4, <1>5, <1>6, <1>7 DEF HarnessInv, HarnessType, ProgressOK
  <1>9. Running(procs') \subseteq OwnedBy'
    <2>1. OwnedBy' = OwnedBy
      BY <1>1, <1>5, <1>6 DEF OwnedBy, Owned
    <2> QED
      BY <1>4, <2>1, LaterRuns DEF HarnessInv
  <1>10. HandlesOK'
    <2>1. \A n \in NodeNames : handles[n] # 0 => handles[n] \in 1..Len(procs)
      BY DEF HarnessInv, HarnessType
    <2> QED
      BY <1>1, <1>5, <1>6, <2>1 DEF HarnessInv, HandlesOK
  <1> QED
    BY <1>7, <1>8, <1>9, <1>10 DEF HarnessInv

LEMMA WaitKeeps ==
    ASSUME HarnessInv, Wait
    PROVE  HarnessInv'
  <1> DEFINE p == cluster.reaping
             ps == cluster.todo \ {p}
             next == cluster.then
  <1>1. /\ cluster.phase = "closing" /\ p # 0 /\ UNCHANGED <<handles, reply>>
        /\ procs' = [procs EXCEPT ![p].state = "gone"]
        /\ cluster' = [Close(ps, next) EXCEPT !.reaping = 0]
    BY DEF Wait, InPhase, Reaped
  <1>2. procs \in Seq(Process) /\ cluster \in ClusterType /\ Len(procs) \in Nat
        /\ p \in 1..Len(procs) /\ ps \subseteq 1..Len(procs) /\ next \in {"ready", "ended"} /\ ps \subseteq Nat
    BY <1>1 DEF HarnessInv, HarnessType, ProgressOK, ClusterType
  <1>3. Closing(ps, next)
    <2> HIDE DEF ps, next
    <2> QED
      BY <1>1, <1>2 DEF Closing, Close, ClusterType, Phases
  <1>4. procs' \in Seq(Process) /\ Later(procs, procs')
    BY <1>1, <1>2, StateChange DEF ProcStates
  <1>5. Running(procs') \subseteq Running(procs) \ {p}
    <2>1. Running(procs') \subseteq Running(procs)
      BY <1>4, LaterRuns
    <2>2. procs'[p].state = "gone"
      <3>1. procs[p] \in Process
        BY <1>2
      <3> QED
        BY <1>1, <1>2, <3>1 DEF Process
    <2> QED
      BY <2>1, <2>2 DEF Running
  <1>6. Running(procs') \subseteq (IF next = "ended" THEN ps ELSE Owned)
    <2>1. Running(procs) \subseteq OwnedBy
      BY DEF HarnessInv
    <2>2. OwnedBy = IF next = "ended" THEN cluster.todo ELSE Owned
      BY <1>1 DEF OwnedBy
    <2> HIDE DEF next
    <2> QED
      BY <1>5, <2>1, <2>2
  <1> HIDE DEF ps, next
  <1> QED
    BY <1>1, <1>2, <1>3, <1>4, <1>6, Closes

LEMMA CallKeeps ==
    ASSUME HarnessInv, NEW id \in NodeNames, Call(id)
    PROVE  HarnessInv'
  <1> DEFINE own == handles[id]
             there == Listening(procs[own].port)
  <1>1. cluster.phase = "ready" /\ own # 0 /\ UNCHANGED <<cluster, handles, procs>>
    BY DEF Call, InPhase
  <1>2. procs \in Seq(Process) /\ own \in 1..Len(procs) /\ Len(procs) \in Nat
    BY <1>1 DEF HarnessInv, HarnessType
  <1>3. ASSUME NEW p \in there, ~SharesPort, Leaked = {} PROVE p = own
    <2>1. p \in 1..Len(procs) /\ procs[p].port = procs[own].port /\ procs[p].state # "gone"
      BY <1>2 DEF Listening
    <2>2. ~procs[p].leaked
      BY <1>2, <1>3, <2>1 DEF Leaked
    <2>3. p \in Owned
      BY <1>1, <2>1, <2>2 DEF HarnessInv, OwnedBy, Running
    <2>4. PICK m \in NodeNames : handles[m] = p
      BY <2>3 DEF Owned
    <2>5. PlannedPort(cluster.plan, m, procs[own].port) /\ PlannedPort(cluster.plan, id, procs[own].port)
      BY <1>1, <2>1, <2>4 DEF HarnessInv, HandlesOK
    <2>6. PICK i \in 1..Len(cluster.plan) : cluster.plan[i].id = m /\ cluster.plan[i].port = procs[own].port
      BY <2>5 DEF PlannedPort
    <2>7. PICK j \in 1..Len(cluster.plan) : cluster.plan[j].id = id /\ cluster.plan[j].port = procs[own].port
      BY <2>5 DEF PlannedPort
    <2>8. DOMAIN cluster.plan = 1..Len(cluster.plan)
      BY DEF HarnessInv, HarnessType, ClusterType
    <2>9. i = j
      BY <1>3, <2>6, <2>7, <2>8 DEF SharesPort, PlanEntry
    <2> QED
      BY <2>4, <2>6, <2>7, <2>9
  <1>4. \/ \E p \in there : reply' = [own |-> own, from |-> p]
        \/ reply' = [own |-> own, from |-> 0]
    BY DEF Call
  <1>5. there \subseteq Nat
    BY <1>2 DEF Listening
  <1> HIDE DEF there
  <1>6. reply' \in [own : Nat, from : Nat]
    <2>1. own \in Nat /\ 0 \in Nat
      BY <1>2
    <2> HIDE DEF own
    <2>2. CASE reply' = [own |-> own, from |-> 0]
      BY <2>1, <2>2
    <2>3. ASSUME NEW p \in there, reply' = [own |-> own, from |-> p] PROVE reply' \in [own : Nat, from : Nat]
      <3>1. p \in Nat
        BY <1>5
      <3> QED
        BY <2>1, <2>3, <3>1
    <2> QED
      BY <1>4, <2>2, <2>3
  <1>7. ReplyOK'
    <2>1. (SharesPort' <=> SharesPort) /\ Leaked' = Leaked
      BY <1>1 DEF SharesPort, PlanEntry, Leaked
    <2>2. CASE reply' = [own |-> own, from |-> 0]
      BY <2>2 DEF ReplyOK
    <2>3. ASSUME NEW p \in there, reply' = [own |-> own, from |-> p] PROVE ReplyOK'
      <3>1. reply'.own = own /\ reply'.from = p
        BY <2>3
      <3> QED
        BY <1>3, <2>1, <3>1 DEF ReplyOK
    <2> QED
      BY <1>4, <2>2, <2>3
  <1>8. HarnessType' /\ ProgressOK' /\ HandlesOK'
    BY <1>1, <1>6 DEF HarnessInv, HarnessType, ProgressOK, HandlesOK
  <1>9. Running(procs') \subseteq OwnedBy'
    BY <1>1 DEF HarnessInv, OwnedBy, Owned
  <1> QED
    BY <1>7, <1>8, <1>9 DEF HarnessInv

LEMMA ShutdownNodeKeeps ==
    ASSUME HarnessInv, NEW id \in NodeNames, ShutdownNode(id)
    PROVE  HarnessInv'
  <1> DEFINE own == handles[id]
             St(p) == IF procs[p].state = "serving" THEN "draining" ELSE procs[p].state
  <1>1. /\ cluster.phase = "ready" /\ own # 0 /\ cluster' = Close({own}, "ready") /\ reply' = NoReply
        /\ handles' = handles
        /\ \/ \E p \in Listening(procs[own].port) : procs' = [procs EXCEPT ![p].state = St(p)]
           \/ procs' = procs
    BY DEF ShutdownNode, InPhase
  <1>2. procs \in Seq(Process) /\ Later(procs, procs) /\ own \in 1..Len(procs)
        /\ cluster \in ClusterType /\ cluster.reaping = 0
    BY <1>1, SameProcesses, NotReaping DEF HarnessInv, HarnessType
  <1>3. procs' \in Seq(Process) /\ Later(procs, procs')
    <2>1. CASE procs' = procs
      BY <1>2, <2>1
    <2>2. ASSUME NEW p \in Listening(procs[own].port), procs' = [procs EXCEPT ![p].state = St(p)]
          PROVE  procs' \in Seq(Process) /\ Later(procs, procs')
      <3>1. p \in 1..Len(procs)
        BY <1>2 DEF Listening
      <3>2. procs[p] \in Process
        BY <1>2, <3>1
      <3>3. St(p) \in ProcStates /\ (procs[p].state = "gone" => St(p) = "gone")
        BY <3>2 DEF Process, ProcStates
      <3> HIDE DEF St
      <3> QED
        BY <1>2, <2>2, <3>1, <3>3, StateChange
    <2> QED
      BY <1>1, <2>1, <2>2
  <1>4. {own} \subseteq 1..Len(procs) /\ {own} \subseteq Nat
    BY <1>2
  <1>5. Closing({own}, "ready")
    BY <1>1, <1>2, <1>4, CloseIsClosing
  <1>6. Running(procs') \subseteq Owned
    <2>1. Running(procs) \subseteq Owned
      BY <1>1 DEF HarnessInv, OwnedBy
    <2> QED
      BY <1>3, <2>1, LaterRuns
  <1> QED
    BY <1>1, <1>3, <1>4, <1>5, <1>6, Closes

LEMMA DropClusterKeeps ==
    ASSUME HarnessInv, DropCluster
    PROVE  HarnessInv'
  <1>1. cluster.phase = "ready" /\ cluster' = Close(Owned, "ended") /\ reply' = NoReply /\ UNCHANGED <<handles, procs>>
    BY DEF DropCluster, InPhase
  <1>2. procs \in Seq(Process) /\ Later(procs, procs) /\ Owned \subseteq 1..Len(procs)
    BY SameProcesses
  <1>3. cluster.reaping = 0 /\ cluster \in ClusterType /\ Owned \subseteq Nat
    BY <1>1, <1>2, NotReaping DEF HarnessInv, HarnessType
  <1>4. Closing(Owned, "ended")
    BY <1>1, <1>3, CloseIsClosing
  <1>5. Running(procs') \subseteq Owned
    BY <1>1 DEF HarnessInv, OwnedBy
  <1> QED
    BY <1>1, <1>2, <1>4, <1>5, Closes

LEMMA ProcessKeeps ==
    ASSUME HarnessInv, NEW p \in DOMAIN procs, ProcessBinds(p) \/ ProcessExits(p) \/ ProcessDies(p)
    PROVE  HarnessInv'
  <1>1. procs \in Seq(Process) /\ p \in 1..Len(procs)
    BY DEF HarnessInv, HarnessType
  <1>2. PICK s \in ProcStates : procs' = [procs EXCEPT ![p].state = s] /\ procs[p].state # "gone"
    BY DEF ProcessBinds, ProcessExits, ProcessDies, ProcStates
  <1>3. procs' \in Seq(Process) /\ Later(procs, procs')
    BY <1>1, <1>2, StateChange
  <1>4. UNCHANGED <<cluster, handles, reply>>
    BY DEF ProcessBinds, ProcessExits, ProcessDies
  <1> QED
    BY <1>3, <1>4, ProcessesGoOn

LEMMA HarnessStepKeeps ==
    ASSUME HarnessInv, [HarnessNext]_hvars
    PROVE  HarnessInv'
  <1>1. CASE UNCHANGED hvars
    <2>1. UNCHANGED <<cluster, handles, procs, reply>>
      BY <1>1 DEF hvars
    <2> QED
      BY <2>1, SameProcesses, ProcessesGoOn
  <1> QED
    BY <1>1, LaunchKeeps, LaunchFailsKeeps, ConnectKeeps, ConnectFailsKeeps, WaitKeeps, KillKeeps,
       BuildKeeps, BuildDroppedKeeps, DropClusterKeeps, CallKeeps, ShutdownNodeKeeps, ProcessKeeps
       DEF HarnessNext, HarnessStep

\* TestCluster and its builder: no process outlives its cluster unless it was leaked,
\* and calls are answered by the node they are made to.
THEOREM ProcessesStayOwned == Spec => []ProcessesAreOwned
  <1>1. Init => HarnessInv
    <2> SUFFICES ASSUME HarnessInit PROVE HarnessInv
      BY DEF Init
    <2>1. /\ cluster = [phase |-> "ended", plan |-> <<>>, at |-> 0, tries |-> 0, todo |-> {}, reaping |-> 0,
                        then |-> "ended", built |-> 0]
          /\ handles = NoHandles /\ procs = <<>> /\ reply = NoReply
      BY DEF HarnessInit
    <2>2. cluster \in ClusterType /\ cluster.phase = "ended" /\ cluster.reaping = 0
      BY <2>1 DEF ClusterType, Phases
    <2>3. HarnessType
      BY <2>1, <2>2 DEF HarnessType, NoHandles, NoReply
    <2>4. ProgressOK /\ HandlesOK
      BY <2>2 DEF ProgressOK, HandlesOK
    <2>5. Running(procs) \subseteq OwnedBy /\ ReplyOK
      BY <2>1 DEF Running, ReplyOK, NoReply
    <2> QED
      BY <2>3, <2>4, <2>5 DEF HarnessInv
  <1>2. HarnessInv /\ [Next]_cvars => HarnessInv'
    BY Frame, HarnessStepKeeps
  <1>3. HarnessInv => ProcessesAreOwned
    <2> SUFFICES ASSUME HarnessInv PROVE ProcessesAreOwned
      OBVIOUS
    <2>1. DOMAIN procs = 1..Len(procs)
      BY DEF HarnessInv, HarnessType
    <2>2. cluster.phase = "ended" => Running(procs) = {}
      BY DEF HarnessInv, OwnedBy
    <2>3. InPhase("ended") => \A p \in DOMAIN procs \ Leaked : procs[p].state = "gone"
      BY <2>1, <2>2 DEF InPhase, Running, Leaked
    <2> QED
      BY <2>3 DEF ProcessesAreOwned, HarnessInv, ReplyOK
  <1> QED
    BY <1>1, <1>2, <1>3, PTL DEF Spec

-----------------------------------------------------------------------------
(***************************************************************************)
(* The test node.  An instance that was spawned and is not yet entered is  *)
(* known to its own call only; a stopped one is never entered again; and   *)
(* an instance that is due to be told, or was told, watches under the name *)
(* it has, if it still has one.                                            *)
(***************************************************************************)

RpcPcs == {"idle", "start", "spawned", "checked", "forwarding", "asked", "polling", "unpolled", "notify",
           "collect", "enter", "inserted", "done"}
RpcOuts == {"none", "ok", "error", "blocked", "timeout", "unimplemented", "dropped"}
KnownOps == {"none"} \cup UNION {{o.op : o \in RpcOps[r]} : r \in Rpcs}
KnownNames == ActorNames \cup {NoRpc}
Rpc == [op : KnownOps, name : KnownNames, to : KnownNames, pc : RpcPcs, inst : Nat, polls : Nat,
        out : RpcOuts, due : SUBSET Nat, told : SUBSET Nat]

Spawned(q) == q.op = "spawn" /\ q.pc = "spawned"
Entered(q) == q.op = "spawn" /\ q.pc = "inserted"
Stops(q) == q.op = "stop" /\ q.inst # 0
Uncounts(q) == Stops(q) /\ q.pc \in {"polling", "unpolled"}
Unstops(q) == Stops(q) /\ q.out # "ok"

Those(c, P(_)) == {r \in Rpcs : P(c[r])}

\* The instances that a call knows of: none of them is the new one of another call.
Knows(q) == q.due \cup q.told \cup (IF q.op = "stop" \/ Spawned(q) THEN {q.inst} ELSE {})

\* What one call has reached, with lives ls.
RpcOK(q, ls) ==
    /\ q.inst \in 0..Len(ls) /\ q.due \subseteq 1..Len(ls) /\ q.told \subseteq 1..Len(ls)
    /\ q.pc = "idle" => q.op = "none"
    /\ q.pc # "idle" => q.name \in ActorNames /\ q.to \in ActorNames
    /\ q.pc \in {"idle", "start"} => q.inst = 0
    /\ q.pc \notin {"done", "unpolled"} => q.out = "none"
    /\ q.pc = "unpolled" => q.out = "dropped"
    /\ q.pc \in {"spawned", "polling", "unpolled", "notify", "collect"} => q.inst # 0
    /\ (q.op = "stop" /\ (q.pc \in {"notify", "collect"} \/ q.out = "ok")) => q.inst # 0 /\ ls[q.inst] = "dead"

\* The instances of xs watch the actor that q names, those that have a name.
WatchUnderName(q, xs, a, ws) == \A n \in ActorNames : a[n] \in xs => <<n, q.name>> \in ws

\* The names a and the watches ws, as a call sees them.
NamesOK(q, a, ws) ==
    /\ WatchUnderName(q, q.due, a, ws) /\ WatchUnderName(q, q.told, a, ws)
    /\ (Spawned(q) \/ Stops(q)) => \A n \in ActorNames : a[n] # q.inst
    /\ (q.op = "stop" /\ q.out = "ok") => \A n \in ActorNames : a[n] \in q.due => a[n] \in q.told

\* The new instance of a call is nobody else's.
FreshOK(c) == \A r, s \in Rpcs : (r # s /\ Spawned(c[r])) => c[r].inst \notin Knows(c[s])
OwnFresh(c) == \A r \in Rpcs : Spawned(c[r]) => c[r].inst \notin c[r].due \cup c[r].told

Injective(a) == \A m, n \in ActorNames : (a[m] = a[n] /\ a[m] # 0) => m = n

NodeType ==
    /\ life \in Seq({"alive", "stopping", "dead"})
    /\ actorOf \in [ActorNames -> 0..Len(life)]
    /\ rpc \in [Rpcs -> Rpc]
    /\ watching = acked /\ acked \subseteq ActorNames \X ActorNames
    /\ liveCount \in Int
    /\ emitted \in [EventTypes -> Nat]

NodeStateOK ==
    /\ NodeType
    /\ \A r \in Rpcs : RpcOK(rpc[r], life) /\ NamesOK(rpc[r], actorOf, acked)
    /\ FreshOK(rpc) /\ OwnFresh(rpc)
    /\ Injective(actorOf)

Named(a) == {n \in ActorNames : a[n] # 0}

\* The live count and the events sent agree with the names N, the stops U that have
\* yet to count, and the stops V that have not announced the end of their actor.
Balanced(live, spawned, stopped, names, U, V) ==
    /\ IsFiniteSet(names) /\ IsFiniteSet(U) /\ IsFiniteSet(V)
    /\ live = Cardinality(names) + Cardinality(U)
    /\ spawned = stopped + Cardinality(names) + Cardinality(V)

\* The spawns announced and those of calls c that have yet to be.
Begun(c, e) == e["actor_spawned"] + Cardinality(Those(c, Entered))

AccountsOK ==
    /\ IsFiniteSet(Those(rpc, Entered))
    /\ Balanced(liveCount, Begun(rpc, emitted), emitted["actor_stopped"],
                Named(actorOf), Those(rpc, Uncounts), Those(rpc, Unstops))

NodeInv == NodeStateOK /\ AccountsOK

\* One call changes.
LEMMA OneRpc ==
    ASSUME NEW c \in [Rpcs -> Rpc], NEW r \in Rpcs, NEW q \in Rpc
    PROVE  /\ [c EXCEPT ![r] = q] \in [Rpcs -> Rpc]
           /\ \A s \in Rpcs : [c EXCEPT ![r] = q][s] = IF s = r THEN q ELSE c[s]
  OBVIOUS

\* A step that concerns call r alone, whose new record is q: the names, lives and
\* watches stay, and so does what q knows.
QuietTo(p, q) ==
    /\ q.op = p.op /\ q.name = p.name /\ q.to = p.to /\ q.due = p.due /\ q.told = p.told
    /\ q.op # "ask" => q.inst = p.inst
    /\ Spawned(q) => Spawned(p)
    /\ Uncounts(q) <=> Uncounts(p)
    /\ Unstops(q) <=> Unstops(p)
    /\ (q.op = "stop" /\ q.out = "ok") => p.out = "ok"

LEMMA QuietState ==
    ASSUME NodeInv, NEW r \in Rpcs, NEW q \in Rpc, rpc' = [rpc EXCEPT ![r] = q],
           QuietTo(rpc[r], q), RpcOK(q, life),
           UNCHANGED <<actorOf, watching, liveCount, life, acked>>,
           emitted' \in [EventTypes -> Nat]
    PROVE  /\ NodeStateOK'
           /\ Those(rpc', Uncounts) = Those(rpc, Uncounts)
           /\ Those(rpc', Unstops) = Those(rpc, Unstops)
  <1>1. rpc \in [Rpcs -> Rpc]
    BY DEF NodeInv, NodeStateOK, NodeType
  <1>2. rpc' \in [Rpcs -> Rpc] /\ \A s \in Rpcs : rpc'[s] = IF s = r THEN q ELSE rpc[s]
    BY <1>1, OneRpc
  <1>3. NodeType'
    BY <1>2 DEF NodeInv, NodeStateOK, NodeType
  <1>4. \A s \in Rpcs : RpcOK(rpc'[s], life)
    BY <1>2 DEF NodeInv, NodeStateOK
  <1>5. \A s \in Rpcs : NamesOK(rpc[s], actorOf, acked)
    BY DEF NodeInv, NodeStateOK
  <1>6. NamesOK(q, actorOf, acked)
    <2>1. NamesOK(rpc[r], actorOf, acked)
      BY <1>5
    <2> QED
      BY <2>1 DEF NamesOK, QuietTo, WatchUnderName, Stops, Spawned
  <1>7. Knows(q) \subseteq Knows(rpc[r])
    BY DEF Knows, QuietTo, Spawned
  <1>8. FreshOK(rpc') /\ OwnFresh(rpc')
    <2>1. FreshOK(rpc) /\ OwnFresh(rpc)
      BY DEF NodeInv, NodeStateOK
    <2>2. OwnFresh(rpc')
      BY <1>2, <2>1 DEF OwnFresh, QuietTo, Spawned
    <2>3. FreshOK(rpc')
      <3> SUFFICES ASSUME NEW s \in Rpcs, NEW t \in Rpcs, Spawned(rpc'[s]), s # t
                   PROVE  rpc'[s].inst \notin Knows(rpc'[t])
        BY DEF FreshOK
      <3>2. Spawned(rpc[s]) /\ rpc'[s].inst = rpc[s].inst
        BY <1>2 DEF QuietTo, Spawned
      <3>3. Knows(rpc'[t]) \subseteq Knows(rpc[t])
        BY <1>2, <1>7
      <3>4. rpc[s].inst \notin Knows(rpc[t])
        BY <2>1, <3>2 DEF FreshOK
      <3> QED
        BY <3>2, <3>3, <3>4
    <2> QED
      BY <2>2, <2>3
  <1>9. Those(rpc', Uncounts) = Those(rpc, Uncounts) /\ Those(rpc', Unstops) = Those(rpc, Unstops)
    BY <1>2 DEF Those, QuietTo
  <1>10. NodeStateOK'
    BY <1>2, <1>3, <1>4, <1>5, <1>6, <1>8 DEF NodeInv, NodeStateOK
  <1> QED
    BY <1>9, <1>10

LEMMA QuietKeeps ==
    ASSUME NodeInv, NEW r \in Rpcs, NEW q \in Rpc, rpc' = [rpc EXCEPT ![r] = q],
           QuietTo(rpc[r], q), RpcOK(q, life), Entered(q) <=> Entered(rpc[r]),
           UNCHANGED <<actorOf, watching, liveCount, life, acked>>,
           emitted' \in [EventTypes -> Nat],
           emitted'["actor_spawned"] = emitted["actor_spawned"],
           emitted'["actor_stopped"] = emitted["actor_stopped"]
    PROVE  NodeInv'
  <1>1. rpc \in [Rpcs -> Rpc]
    BY DEF NodeInv, NodeStateOK, NodeType
  <1>2. \A s \in Rpcs : rpc'[s] = IF s = r THEN q ELSE rpc[s]
    BY <1>1, OneRpc
  <1>3. Those(rpc', Entered) = Those(rpc, Entered)
    BY <1>2 DEF Those
  <1>4. /\ NodeStateOK' /\ Those(rpc', Uncounts) = Those(rpc, Uncounts)
        /\ Those(rpc', Unstops) = Those(rpc, Unstops)
    BY QuietState
  <1>5. Begun(rpc, emitted)' = Begun(rpc, emitted)
    BY <1>3 DEF Begun
  <1>6. AccountsOK'
    BY <1>3, <1>4, <1>5 DEF NodeInv, AccountsOK
  <1> QED
    BY <1>4, <1>6 DEF NodeInv

\* Answers, and the other ways in which a call goes on, are quiet.
LEMMA AnswerIsQuiet ==
    ASSUME NEW p \in Rpc, NEW ls, RpcOK(p, ls), p.pc \notin {"done", "unpolled", "polling", "idle"},
           NEW out \in RpcOuts, p.op = "stop" => out # "ok",
           NEW q, q = [p EXCEPT !.pc = "done", !.out = out]
    PROVE  q \in Rpc /\ QuietTo(p, q) /\ RpcOK(q, ls)
  <1>1. q \in Rpc
    BY DEF Rpc, RpcPcs
  <1>2. /\ q.op = p.op /\ q.name = p.name /\ q.to = p.to /\ q.due = p.due /\ q.told = p.told /\ q.inst = p.inst
        /\ q.pc = "done" /\ q.out = out
    BY DEF Rpc
  <1>3. p.out = "none"
    BY DEF RpcOK
  <1>4. QuietTo(p, q)
    BY <1>2, <1>3 DEF QuietTo, Spawned, Uncounts, Unstops, Stops
  <1>5. RpcOK(q, ls)
    BY <1>2, <1>3 DEF RpcOK
  <1> QED
    BY <1>1, <1>4, <1>5

LEMMA GotoIsQuiet ==
    ASSUME NEW p \in Rpc, NEW ls, RpcOK(p, ls),
           NEW pc \in RpcPcs,
           \/ p.op # "stop" /\ p.pc \in {"start", "checked"} /\ pc \in {"checked", "forwarding", "enter"}
           \/ p.op = "stop" /\ p.pc = "notify" /\ pc = "collect",
           NEW q, q = [p EXCEPT !.pc = pc]
    PROVE  q \in Rpc /\ QuietTo(p, q) /\ RpcOK(q, ls)
  <1>1. q \in Rpc
    BY DEF Rpc
  <1>2. /\ q.op = p.op /\ q.name = p.name /\ q.to = p.to /\ q.due = p.due /\ q.told = p.told /\ q.inst = p.inst
        /\ q.pc = pc /\ q.out = p.out
    BY DEF Rpc
  <1>3. QuietTo(p, q)
    BY <1>2 DEF QuietTo, Spawned, Uncounts, Unstops, Stops
  <1>4. RpcOK(q, ls)
    BY <1>2 DEF RpcOK
  <1> QED
    BY <1>1, <1>3, <1>4

LEMMA DropIsQuiet ==
    ASSUME NEW p \in Rpc, NEW ls, RpcOK(p, ls), p.pc # "idle", p.out = "none",
           NEW q, q = [p EXCEPT !.out = "dropped", !.pc = IF p.pc = "polling" THEN "unpolled" ELSE "done"]
    PROVE  q \in Rpc /\ QuietTo(p, q) /\ RpcOK(q, ls)
  <1> DEFINE pc == IF p.pc = "polling" THEN "unpolled" ELSE "done"
  <1>1. pc \in RpcPcs
    BY DEF RpcPcs
  <1>2. q = [p EXCEPT !.out = "dropped", !.pc = pc]
    OBVIOUS
  <1>3. q.op = p.op /\ q.name = p.name /\ q.to = p.to /\ q.due = p.due /\ q.told = p.told /\ q.inst = p.inst
        /\ q.pc = pc /\ q.out = "dropped" /\ q \in Rpc
    <2> HIDE DEF pc
    <2> QED
      BY <1>1, <1>2 DEF Rpc, RpcOuts
  <1>4. pc \notin {"spawned", "notify", "collect", "idle", "start", "polling"} /\ (pc = "unpolled" <=> p.pc = "polling")
    OBVIOUS
  <1> HIDE DEF pc
  <1>5. p.pc # "unpolled"
    BY DEF RpcOK
  <1>6. QuietTo(p, q)
    BY <1>3, <1>4, <1>5 DEF QuietTo, Spawned, Uncounts, Unstops, Stops
  <1>7. RpcOK(q, ls)
    BY <1>3, <1>4 DEF RpcOK
  <1> QED
    BY <1>3, <1>6, <1>7

\* The actions that answer or go on and leave names, lives and watches alone.
LEMMA AnswerKeeps ==
    ASSUME NodeInv, NEW r \in Rpcs, NEW out \in RpcOuts, Answer(r, out),
           rpc[r].pc \notin {"done", "unpolled", "polling", "idle", "inserted"}, rpc[r].op = "stop" => out # "ok",
           UNCHANGED <<actorOf, watching, liveCount, life, acked>>,
           emitted' \in [EventTypes -> Nat],
           emitted'["actor_spawned"] = emitted["actor_spawned"],
           emitted'["actor_stopped"] = emitted["actor_stopped"]
    PROVE  NodeInv'
  <1> DEFINE p == rpc[r]
             q == [p EXCEPT !.pc = "done", !.out = out]
  <1>1. rpc \in [Rpcs -> Rpc] /\ p \in Rpc /\ RpcOK(p, life)
    BY DEF NodeInv, NodeStateOK, NodeType
  <1>2. rpc' = [rpc EXCEPT ![r] = q]
    BY <1>1 DEF Answer
  <1>3. q \in Rpc /\ QuietTo(p, q) /\ RpcOK(q, life)
    BY <1>1, AnswerIsQuiet
  <1>4. ~Entered(p) /\ ~Entered(q)
    BY <1>1 DEF Entered, Rpc
  <1> HIDE DEF q
  <1> QED
    BY <1>2, <1>3, <1>4, QuietKeeps

LEMMA GotoKeeps ==
    ASSUME NodeInv, NEW r \in Rpcs, NEW pc \in RpcPcs, rpc' = [rpc EXCEPT ![r].pc = pc], Still,
           \/ rpc[r].op # "stop" /\ rpc[r].pc \in {"start", "checked"} /\ pc \in {"checked", "forwarding", "enter"}
           \/ rpc[r].op = "stop" /\ rpc[r].pc = "notify" /\ pc = "collect"
    PROVE  NodeInv'
  <1> DEFINE p == rpc[r]
             q == [p EXCEPT !.pc = pc]
  <1>1. rpc \in [Rpcs -> Rpc] /\ p \in Rpc /\ RpcOK(p, life) /\ emitted \in [EventTypes -> Nat]
    BY DEF NodeInv, NodeStateOK, NodeType
  <1>2. rpc' = [rpc EXCEPT ![r] = q]
    BY <1>1
  <1>3. q \in Rpc /\ QuietTo(p, q) /\ RpcOK(q, life)
    BY <1>1, GotoIsQuiet
  <1>4. ~Entered(p) /\ ~Entered(q)
    BY <1>1 DEF Entered, Rpc
  <1> HIDE DEF q
  <1> QED
    BY <1>1, <1>2, <1>3, <1>4, QuietKeeps DEF Still

\* What an event that is not about the life of an actor does to the counts.
LEMMA EmitOther ==
    ASSUME NodeInv, NEW t \in EventTypes, t \notin {"actor_spawned", "actor_stopped"}, Emit(t)
    PROVE  /\ emitted' \in [EventTypes -> Nat]
           /\ emitted'["actor_spawned"] = emitted["actor_spawned"]
           /\ emitted'["actor_stopped"] = emitted["actor_stopped"]
  <1>1. emitted \in [EventTypes -> Nat] /\ "actor_spawned" \in EventTypes /\ "actor_stopped" \in EventTypes
    BY DEF NodeInv, NodeStateOK, NodeType, EventTypes
  <1> QED
    BY <1>1 DEF Emit

LEMMA ServiceKeeps ==
    ASSUME NodeInv, NEW r \in Rpcs,
           \/ Unimplemented(r) \/ ServeQuery(r) \/ InjectFault(r) \/ ClearFaults(r) \/ Shutdown(r)
    PROVE  NodeInv'
  <1>1. rpc[r].pc = "start" /\ UNCHANGED <<actorOf, watching, liveCount, life, acked>>
    BY DEF Unimplemented, ServeQuery, InjectFault, ClearFaults, Shutdown, Serve, At, Still
  <1>2. \/ Answer(r, "unimplemented") /\ emitted' = emitted
        \/ /\ Answer(r, "ok") /\ rpc[r].op # "stop"
           /\ emitted' = emitted \/ \E t \in {"fault_injected", "faults_cleared", "node_shutdown"} : Emit(t)
    BY DEF Unimplemented, ServeQuery, InjectFault, ClearFaults, Shutdown, Serve, At, Still
  <1>3. emitted \in [EventTypes -> Nat]
    BY DEF NodeInv, NodeStateOK, NodeType
  <1>4. /\ emitted' \in [EventTypes -> Nat]
        /\ emitted'["actor_spawned"] = emitted["actor_spawned"]
        /\ emitted'["actor_stopped"] = emitted["actor_stopped"]
    BY <1>2, <1>3, EmitOther DEF EventTypes
  <1>5. PICK out \in {"ok", "unimplemented"} : Answer(r, out) /\ (rpc[r].op = "stop" => out # "ok")
    BY <1>2
  <1>6. out \in RpcOuts
    BY DEF RpcOuts
  <1> QED
    BY <1>1, <1>4, <1>5, <1>6, AnswerKeeps

LEMMA MessageKeeps ==
    ASSUME NodeInv, NEW r \in Rpcs, ServeTell(r) \/ ServeAsk(r) \/ TellActor(r) \/ AskEnds(r) \/ WatchChecks(r)
    PROVE  NodeInv'
  <1>1. Still /\ rpc[r].op # "stop" /\ rpc[r].pc \in {"start", "checked", "forwarding", "asked"}
    BY DEF ServeTell, ServeAsk, TellActor, AskEnds, WatchChecks, PassesFaults, Serve, At
  <1>2. \/ \E out \in {"blocked", "error", "ok", "timeout"} : Answer(r, out)
        \/ \E pc \in {"checked", "forwarding", "enter"} : Goto(r, pc) /\ rpc[r].pc \in {"start", "checked"}
    <2>1. CASE ServeTell(r) \/ ServeAsk(r)
      BY <2>1 DEF ServeTell, ServeAsk, PassesFaults, Serve, At
    <2>2. CASE TellActor(r)
      BY <2>2 DEF TellActor, At
    <2>3. CASE AskEnds(r)
      BY <2>3 DEF AskEnds
    <2>4. CASE WatchChecks(r)
      BY <2>4 DEF WatchChecks, Serve, At
    <2> QED
      BY <2>1, <2>2, <2>3, <2>4
  <1>3. emitted \in [EventTypes -> Nat] /\ UNCHANGED <<actorOf, watching, liveCount, life, emitted, acked>>
    BY <1>1 DEF NodeInv, NodeStateOK, NodeType, Still
  <1>4. ASSUME NEW out \in {"blocked", "error", "ok", "timeout"}, Answer(r, out) PROVE NodeInv'
    <2>1. out \in RpcOuts
      BY DEF RpcOuts
    <2> QED
      BY <1>1, <1>3, <1>4, <2>1, AnswerKeeps
  <1>5. ASSUME NEW pc \in {"checked", "forwarding", "enter"}, Goto(r, pc), rpc[r].pc \in {"start", "checked"}
        PROVE  NodeInv'
    <2>1. pc \in RpcPcs /\ rpc' = [rpc EXCEPT ![r].pc = pc]
      BY <1>5 DEF RpcPcs, Goto
    <2> QED
      BY <1>1, <1>5, <2>1, GotoKeeps
  <1> QED
    BY <1>2, <1>4, <1>5

LEMMA AskActorKeeps ==
    ASSUME NodeInv, NEW r \in Rpcs, AskActor(r)
    PROVE  NodeInv'
  <1> DEFINE p == rpc[r]
             i == Instance(r)
             q == [p EXCEPT !.pc = "asked", !.inst = i]
  <1>1. Still /\ p.op = "ask" /\ p.pc = "checked" /\ (Answer(r, "error") \/ rpc' = [rpc EXCEPT ![r].pc = "asked", ![r].inst = i])
    BY DEF AskActor, At
  <1>2. /\ emitted \in [EventTypes -> Nat] /\ UNCHANGED <<actorOf, watching, liveCount, life, emitted, acked>>
        /\ rpc \in [Rpcs -> Rpc] /\ p \in Rpc /\ RpcOK(p, life) /\ actorOf \in [ActorNames -> 0..Len(life)]
        /\ Len(life) \in Nat
    BY <1>1 DEF NodeInv, NodeStateOK, NodeType, Still
  <1>3. CASE Answer(r, "error")
    BY <1>1, <1>2, <1>3, AnswerKeeps DEF RpcOuts
  <1>4. CASE rpc' = [rpc EXCEPT ![r].pc = "asked", ![r].inst = i]
    <2>1. rpc' = [rpc EXCEPT ![r] = q]
      BY <1>2, <1>4
    <2>2. p.name \in ActorNames
      BY <1>1, <1>2 DEF RpcOK
    <2>3. i \in 0..Len(life) /\ i \in Nat
      BY <1>2, <2>2 DEF Instance
    <2> HIDE DEF i
    <2>4. q \in Rpc
      BY <1>2, <2>3 DEF Rpc, RpcPcs
    <2>5. /\ q.op = p.op /\ q.name = p.name /\ q.to = p.to /\ q.due = p.due /\ q.told = p.told /\ q.inst = i
          /\ q.pc = "asked" /\ q.out = p.out
      BY <1>2 DEF Rpc
    <2> HIDE DEF q
    <2>6. QuietTo(p, q) /\ (Entered(q) <=> Entered(p))
      BY <1>1, <2>5 DEF QuietTo, Spawned, Uncounts, Unstops, Stops, Entered
    <2>7. RpcOK(q, life)
      BY <1>1, <1>2, <2>3, <2>5 DEF RpcOK
    <2> QED
      BY <1>2, <2>1, <2>4, <2>6, <2>7, QuietKeeps
  <1> QED
    BY <1>1, <1>3, <1>4

LEMMA DroppedKeeps ==
    ASSUME NodeInv, NEW r \in Rpcs, RpcDropped(r)
    PROVE  NodeInv'
  <1> DEFINE p == rpc[r]
             q == [p EXCEPT !.out = "dropped", !.pc = IF p.pc = "polling" THEN "unpolled" ELSE "done"]
  <1>1. rpc \in [Rpcs -> Rpc] /\ p \in Rpc /\ RpcOK(p, life) /\ emitted \in [EventTypes -> Nat]
    BY DEF NodeInv, NodeStateOK, NodeType
  <1>2. rpc' = [rpc EXCEPT ![r] = q] /\ p.pc \notin {"idle", "inserted"} /\ p.out = "none" /\ Still
    BY <1>1 DEF RpcDropped
  <1>3. q \in Rpc /\ QuietTo(p, q) /\ RpcOK(q, life)
    BY <1>1, <1>2, DropIsQuiet
  <1>4. ~Entered(p) /\ ~Entered(q)
    BY <1>1, <1>2 DEF Entered, Rpc
  <1> HIDE DEF q
  <1> QED
    BY <1>1, <1>2, <1>3, <1>4, QuietKeeps DEF Still

\* Call r goes on to q, and names, lives and watches may change with it.
LEMMA StateKeeps ==
    ASSUME NodeInv, NEW r \in Rpcs, NEW q \in Rpc, rpc' = [rpc EXCEPT ![r] = q],
           life' \in Seq({"alive", "stopping", "dead"}), actorOf' \in [ActorNames -> 0..Len(life')],
           watching' = acked', acked' \subseteq ActorNames \X ActorNames, liveCount' \in Int,
           emitted' \in [EventTypes -> Nat],
           RpcOK(q, life'), NamesOK(q, actorOf', acked'), Injective(actorOf'),
           \A s \in Rpcs : s # r => RpcOK(rpc[s], life') /\ NamesOK(rpc[s], actorOf', acked'),
           Spawned(q) => \A s \in Rpcs : s # r => q.inst \notin Knows(rpc[s]),
           Spawned(q) => q.inst \notin q.due \cup q.told,
           \A s \in Rpcs : (s # r /\ Spawned(rpc[s])) => rpc[s].inst \notin Knows(q)
    PROVE  NodeStateOK'
  <1>1. rpc \in [Rpcs -> Rpc]
    BY DEF NodeInv, NodeStateOK, NodeType
  <1>2. rpc' \in [Rpcs -> Rpc] /\ \A s \in Rpcs : rpc'[s] = IF s = r THEN q ELSE rpc[s]
    BY <1>1, OneRpc
  <1>3. NodeType'
    BY <1>2 DEF NodeType
  <1>4. \A s \in Rpcs : RpcOK(rpc'[s], life') /\ NamesOK(rpc'[s], actorOf', acked')
    BY <1>2
  <1>5. OwnFresh(rpc')
    BY <1>2 DEF OwnFresh, NodeInv, NodeStateOK
  <1>6. FreshOK(rpc')
    BY <1>2 DEF FreshOK, NodeInv, NodeStateOK
  <1> QED
    BY <1>3, <1>4, <1>5, <1>6 DEF NodeStateOK

\* The set S of calls becomes T as r is before and after, or not.
Turns(S, T, r, before, after) ==
    /\ r \in S <=> before
    /\ after => T = S \cup {r}
    /\ ~after => T = S \ {r}

LEMMA ThoseChange ==
    ASSUME NEW c \in [Rpcs -> Rpc], NEW r \in Rpcs, NEW q \in Rpc, NEW d, d = [c EXCEPT ![r] = q]
    PROVE  /\ Turns(Those(c, Entered), Those(d, Entered), r, Entered(c[r]), Entered(q))
           /\ Turns(Those(c, Uncounts), Those(d, Uncounts), r, Uncounts(c[r]), Uncounts(q))
           /\ Turns(Those(c, Unstops), Those(d, Unstops), r, Unstops(c[r]), Unstops(q))
  <1>1. \A s \in Rpcs : d[s] = IF s = r THEN q ELSE c[s]
    BY OneRpc
  <1> QED
    BY <1>1 DEF Those, Turns

\* A call that does not enter an actor leaves the spawns as they are.
LEMMA BegunStays ==
    ASSUME NodeInv, NEW r \in Rpcs, NEW q \in Rpc, rpc' = [rpc EXCEPT ![r] = q],
           ~Entered(rpc[r]), ~Entered(q), emitted'["actor_spawned"] = emitted["actor_spawned"]
    PROVE  Those(rpc', Entered) = Those(rpc, Entered) /\ Begun(rpc, emitted)' = Begun(rpc, emitted)
  <1>1. rpc \in [Rpcs -> Rpc]
    BY DEF NodeInv, NodeStateOK, NodeType
  <1>2. Turns(Those(rpc, Entered), Those(rpc', Entered), r, Entered(rpc[r]), Entered(q))
    BY <1>1, ThoseChange
  <1>3. Those(rpc', Entered) = Those(rpc, Entered)
    BY <1>2 DEF Turns
  <1> QED
    BY <1>3 DEF Begun

\* Counting one more, one less.
LEMMA OneMore ==
    ASSUME NEW S, IsFiniteSet(S), NEW x, x \notin S, NEW T, T = S \cup {x}
    PROVE  IsFiniteSet(T) /\ Cardinality(T) = Cardinality(S) + 1 /\ Cardinality(S) \in Nat
  BY FS_AddElement, FS_CardinalityType

LEMMA OneLess ==
    ASSUME NEW S, IsFiniteSet(S), NEW x \in S, NEW T, T = S \ {x}
    PROVE  IsFiniteSet(T) /\ Cardinality(T) = Cardinality(S) - 1 /\ Cardinality(S) \in Nat
  BY FS_RemoveElement, FS_CardinalityType

\* An actor is entered, to be announced.
LEMMA BalancedSpawn ==
    ASSUME NEW live \in Int, NEW spawned \in Nat, NEW stopped \in Nat, NEW names, NEW U, NEW V,
           Balanced(live, spawned, stopped, names, U, V),
           NEW n, n \notin names
    PROVE  Balanced(live + 1, spawned + 1, stopped, names \cup {n}, U, V)
  <1> DEFINE x == Cardinality(names)
             y == Cardinality(U)
             z == Cardinality(V)
  <1>1. IsFiniteSet(names) /\ IsFiniteSet(U) /\ IsFiniteSet(V)
    BY DEF Balanced
  <1>2. x \in Nat /\ y \in Nat /\ z \in Nat
    BY <1>1, FS_CardinalityType
  <1>3. live = x + y /\ spawned = stopped + x + z
    BY DEF Balanced
  <1>4. IsFiniteSet(names \cup {n}) /\ Cardinality(names \cup {n}) = x + 1
    BY <1>1, OneMore
  <1> HIDE DEF x, y, z
  <1>9. live + 1 = (x + 1) + y /\ spawned + 1 = stopped + (x + 1) + z
    BY <1>2, <1>3
  <1> QED
    BY <1>1, <1>4, <1>9 DEF Balanced, x, y, z

\* A stop takes an actor out.
LEMMA BalancedTake ==
    ASSUME NEW live \in Int, NEW spawned \in Nat, NEW stopped \in Nat, NEW names, NEW U, NEW V,
           Balanced(live, spawned, stopped, names, U, V),
           NEW n \in names, NEW r, r \notin U, r \notin V
    PROVE  Balanced(live, spawned, stopped, names \ {n}, U \cup {r}, V \cup {r})
  <1> DEFINE x == Cardinality(names)
             y == Cardinality(U)
             z == Cardinality(V)
  <1>1. IsFiniteSet(names) /\ IsFiniteSet(U) /\ IsFiniteSet(V)
    BY DEF Balanced
  <1>2. x \in Nat /\ y \in Nat /\ z \in Nat
    BY <1>1, FS_CardinalityType
  <1>3. live = x + y /\ spawned = stopped + x + z
    BY DEF Balanced
  <1>4. IsFiniteSet(names \ {n}) /\ Cardinality(names \ {n}) = x - 1
    BY <1>1, OneLess
  <1>5. IsFiniteSet(U \cup {r}) /\ Cardinality(U \cup {r}) = y + 1
    BY <1>1, OneMore
  <1>6. IsFiniteSet(V \cup {r}) /\ Cardinality(V \cup {r}) = z + 1
    BY <1>1, OneMore
  <1> HIDE DEF x, y, z
  <1>9. live = (x - 1) + (y + 1) /\ spawned = stopped + (x - 1) + (z + 1)
    BY <1>2, <1>3
  <1> QED
    BY <1>1, <1>4, <1>5, <1>6, <1>9 DEF Balanced, x, y, z

\* A stop counts its actor out.
LEMMA BalancedCount ==
    ASSUME NEW live \in Int, NEW spawned \in Nat, NEW stopped \in Nat, NEW names, NEW U, NEW V,
           Balanced(live, spawned, stopped, names, U, V),
           NEW r \in U
    PROVE  Balanced(live - 1, spawned, stopped, names, U \ {r}, V)
  <1> DEFINE x == Cardinality(names)
             y == Cardinality(U)
             z == Cardinality(V)
  <1>1. IsFiniteSet(names) /\ IsFiniteSet(U) /\ IsFiniteSet(V)
    BY DEF Balanced
  <1>2. x \in Nat /\ y \in Nat /\ z \in Nat
    BY <1>1, FS_CardinalityType
  <1>3. live = x + y /\ spawned = stopped + x + z
    BY DEF Balanced
  <1>4. IsFiniteSet(U \ {r}) /\ Cardinality(U \ {r}) = y - 1
    BY <1>1, OneLess
  <1> HIDE DEF x, y, z
  <1>9. live - 1 = x + (y - 1) /\ spawned = stopped + x + z
    BY <1>2, <1>3
  <1> QED
    BY <1>1, <1>4, <1>9 DEF Balanced, x, y, z

\* A stop announces the end of its actor.
LEMMA BalancedStop ==
    ASSUME NEW live \in Int, NEW spawned \in Nat, NEW stopped \in Nat, NEW names, NEW U, NEW V,
           Balanced(live, spawned, stopped, names, U, V),
           NEW r \in V
    PROVE  Balanced(live, spawned, stopped + 1, names, U, V \ {r})
  <1> DEFINE x == Cardinality(names)
             y == Cardinality(U)
             z == Cardinality(V)
  <1>1. IsFiniteSet(names) /\ IsFiniteSet(U) /\ IsFiniteSet(V)
    BY DEF Balanced
  <1>2. x \in Nat /\ y \in Nat /\ z \in Nat
    BY <1>1, FS_CardinalityType
  <1>3. live = x + y /\ spawned = stopped + x + z
    BY DEF Balanced
  <1>4. IsFiniteSet(V \ {r}) /\ Cardinality(V \ {r}) = z - 1
    BY <1>1, OneLess
  <1> HIDE DEF x, y, z
  <1>9. live = x + y /\ spawned = (stopped + 1) + x + (z - 1)
    BY <1>2, <1>3
  <1> QED
    BY <1>1, <1>4, <1>9 DEF Balanced, x, y, z

LEMMA NodeParts ==
    ASSUME NodeInv, NEW r \in Rpcs
    PROVE  /\ life \in Seq({"alive", "stopping", "dead"}) /\ Len(life) \in Nat
           /\ actorOf \in [ActorNames -> 0..Len(life)]
           /\ rpc \in [Rpcs -> Rpc] /\ rpc[r] \in Rpc
           /\ watching = acked /\ acked \subseteq ActorNames \X ActorNames
           /\ liveCount \in Int /\ emitted \in [EventTypes -> Nat]
           /\ \A s \in Rpcs : RpcOK(rpc[s], life) /\ NamesOK(rpc[s], actorOf, acked)
           /\ RpcOK(rpc[r], life) /\ NamesOK(rpc[r], actorOf, acked)
           /\ Injective(actorOf)
           /\ AccountsOK
  BY DEF NodeInv, NodeStateOK, NodeType

\* The watchers of name n: the actors that are entered under a name that watches it.
LEMMA WatchersNamed ==
    ASSUME NEW ws, ws \subseteq ActorNames \X ActorNames, NEW n
    PROVE  \A x : x \in WatchersOf(ws, n) <=> x # 0 /\ \E m \in ActorNames : <<m, n>> \in ws /\ actorOf[m] = x
  <1> SUFFICES ASSUME NEW x PROVE x \in WatchersOf(ws, n) <=> x # 0 /\ \E m \in ActorNames : <<m, n>> \in ws /\ actorOf[m] = x
    OBVIOUS
  <1>1. ASSUME x \in WatchersOf(ws, n) PROVE x # 0 /\ \E m \in ActorNames : <<m, n>> \in ws /\ actorOf[m] = x
    <2>1. PICK p \in ws : p[2] = n /\ actorOf[p[1]] = x /\ x # 0
      BY <1>1 DEF WatchersOf
    <2>2. p = <<p[1], n>> /\ p[1] \in ActorNames
      BY <2>1
    <2> QED
      BY <2>1, <2>2
  <1>2. ASSUME NEW m \in ActorNames, <<m, n>> \in ws, actorOf[m] = x, x # 0 PROVE x \in WatchersOf(ws, n)
    BY <1>2 DEF WatchersOf
  <1> QED
    BY <1>1, <1>2

LEMMA BeginsKeeps ==
    ASSUME NodeInv, NEW r \in Rpcs, RpcBegins(r)
    PROVE  NodeInv'
  <1> DEFINE p == rpc[r]
             Due(o) == IF o.op = "stop" THEN WatchersOf(acked, o.name) ELSE {}
             Q(o) == [NewRpc EXCEPT !.op = o.op, !.name = o.name, !.to = o.to, !.pc = "start", !.due = Due(o)]
  <1>1. PICK o \in RpcOps[r] : rpc' = [rpc EXCEPT ![r] = Q(o)]
    BY DEF RpcBegins
  <1>2. p.pc = "idle" /\ UNCHANGED <<actorOf, watching, liveCount, life, emitted, acked>>
    BY DEF RpcBegins
  <1> DEFINE q == Q(o)
             due == Due(o)
  <1>3. o.name \in ActorNames /\ o.to \in ActorNames /\ o.op \in KnownOps
    BY TestNodeAssumption DEF KnownOps
  <1>4. due \subseteq 1..Len(life) /\ due \subseteq Nat
    <2>1. \A m \in ActorNames : actorOf[m] # 0 => actorOf[m] \in 1..Len(life)
      BY NodeParts
    <2>2. due \subseteq 1..Len(life)
      <3>1. \A x \in WatchersOf(acked, o.name) : x # 0 /\ \E m \in ActorNames : <<m, o.name>> \in acked /\ actorOf[m] = x
        BY NodeParts, WatchersNamed
      <3>2. WatchersOf(acked, o.name) \subseteq 1..Len(life)
        BY <2>1, <3>1
      <3> QED
        BY <3>2, Zenon
    <2>3. 1..Len(life) \subseteq Nat
      BY NodeParts
    <2> QED
      BY <2>2, <2>3
  <1>5. \A x \in due : x # 0 /\ \E m \in ActorNames : <<m, o.name>> \in acked /\ actorOf[m] = x
    BY NodeParts, WatchersNamed
  <1> HIDE DEF Due
  <1>6. q \in Rpc
    BY <1>3, <1>4 DEF NewRpc, Rpc, RpcPcs, RpcOuts, KnownNames
  <1>7. q.op = o.op /\ q.name = o.name /\ q.to = o.to /\ q.pc = "start" /\ q.inst = 0 /\ q.out = "none"
        /\ q.due = due /\ q.told = {}
    BY DEF NewRpc
  <1>8. rpc' = [rpc EXCEPT ![r] = q]
    BY <1>1
  <1> HIDE DEF q, due, Q
  <1>9. RpcOK(q, life)
    BY <1>3, <1>4, <1>7, NodeParts DEF RpcOK
  <1>10. NamesOK(q, actorOf, acked)
    <2>1. WatchUnderName(q, due, actorOf, acked)
      <3> SUFFICES ASSUME NEW n \in ActorNames, actorOf[n] \in due PROVE <<n, o.name>> \in acked
        BY <1>7 DEF WatchUnderName
      <3>1. PICK m \in ActorNames : <<m, o.name>> \in acked /\ actorOf[m] = actorOf[n] /\ actorOf[n] # 0
        BY <1>5
      <3>2. m = n
        BY <3>1, NodeParts DEF Injective
      <3> QED
        BY <3>1, <3>2
    <2> QED
      BY <1>7, <2>1 DEF NamesOK, WatchUnderName, Spawned, Stops
  <1>11. ASSUME NEW s \in Rpcs, s # r, Spawned(rpc[s]) PROVE rpc[s].inst \notin Knows(q)
    <2>1. rpc[s].inst # 0 /\ \A n \in ActorNames : actorOf[n] # rpc[s].inst
      BY <1>11, NodeParts DEF RpcOK, NamesOK, Spawned
    <2>2. rpc[s].inst \notin due
      BY <1>5, <2>1
    <2> QED
      BY <1>7, <2>1, <2>2 DEF Knows, Spawned
  <1>12. ~Spawned(q) /\ ~Uncounts(q) /\ ~Unstops(q)
    BY <1>7 DEF Spawned, Uncounts, Unstops, Stops
  <1>13. NodeStateOK'
    BY <1>2, <1>6, <1>8, <1>9, <1>10, <1>11, <1>12, NodeParts, StateKeeps
  <1>14. ~Uncounts(p) /\ ~Unstops(p)
    BY <1>2, NodeParts DEF RpcOK, Uncounts, Unstops, Stops
  <1>15. Those(rpc', Uncounts) = Those(rpc, Uncounts) /\ Those(rpc', Unstops) = Those(rpc, Unstops)
    <2>1. /\ Turns(Those(rpc, Uncounts), Those(rpc', Uncounts), r, Uncounts(p), Uncounts(q))
          /\ Turns(Those(rpc, Unstops), Those(rpc', Unstops), r, Unstops(p), Unstops(q))
      BY <1>6, <1>8, NodeParts, ThoseChange
    <2> QED
      BY <1>12, <1>14, <2>1 DEF Turns
  <1>16. AccountsOK'
    <2>1. ~Entered(p) /\ ~Entered(q)
      BY <1>2, <1>7 DEF Entered
    <2>2. Those(rpc', Entered) = Those(rpc, Entered) /\ Begun(rpc, emitted)' = Begun(rpc, emitted)
      BY <1>2, <1>6, <1>8, <2>1, BegunStays
    <2> QED
      BY <1>2, <1>15, <2>2, NodeParts DEF AccountsOK
  <1> QED
    BY <1>13, <1>16 DEF NodeInv

LEMMA SpawnsKeeps ==
    ASSUME NodeInv, NEW r \in Rpcs, HandlerSpawns(r)
    PROVE  NodeInv'
  <1> DEFINE p == rpc[r]
             i == Len(life) + 1
             q == [p EXCEPT !.pc = "spawned", !.inst = i]
  <1>1. p.op = "spawn" /\ p.pc = "start" /\ UNCHANGED <<actorOf, watching, liveCount, emitted, acked>>
    BY DEF HandlerSpawns, Serve, At
  <1>2. CASE Answer(r, "error") /\ UNCHANGED life
    BY <1>1, <1>2, NodeParts, AnswerKeeps DEF RpcOuts
  <1>3. CASE life' = Append(life, "alive") /\ rpc' = [rpc EXCEPT ![r].pc = "spawned", ![r].inst = Len(life) + 1]
    <2>1. rpc' = [rpc EXCEPT ![r] = q] /\ i \in Nat /\ i # 0 /\ i \notin 0..Len(life)
      <3>1. rpc \in [Rpcs -> Rpc] /\ Len(life) \in Nat
        BY NodeParts
      <3>2. rpc' = [rpc EXCEPT ![r] = q]
        BY <1>3, <3>1
      <3> QED
        BY <3>1, <3>2
    <2>2. life' \in Seq({"alive", "stopping", "dead"}) /\ Len(life') = i /\ \A j \in 1..Len(life) : life'[j] = life[j]
      BY <1>3, NodeParts
    <2>3. 0..Len(life) \subseteq 0..i /\ 1..Len(life) \subseteq 1..i /\ i \in 0..i
      BY NodeParts
    <2>4. p \in Rpc
      BY NodeParts
    <2> HIDE DEF i
    <2>5. q \in Rpc
      BY <2>1, <2>4 DEF Rpc, RpcPcs
    <2>6. /\ q.op = p.op /\ q.name = p.name /\ q.to = p.to /\ q.due = p.due /\ q.told = p.told
          /\ q.inst = i /\ q.pc = "spawned" /\ q.out = p.out
      BY <2>4 DEF Rpc
    <2> HIDE DEF q
    <2>7. \A s \in Rpcs : RpcOK(rpc[s], life')
      <3> SUFFICES ASSUME NEW s \in Rpcs PROVE RpcOK(rpc[s], life')
        OBVIOUS
      <3>1. RpcOK(rpc[s], life)
        BY NodeParts
      <3>2. rpc[s].inst # 0 => rpc[s].inst \in 1..Len(life)
        BY <3>1 DEF RpcOK
      <3> QED
        BY <2>2, <2>3, <3>1, <3>2 DEF RpcOK
    <2>8. RpcOK(q, life')
      <3>1. RpcOK(p, life)
        BY NodeParts
      <3> QED
        BY <1>1, <2>1, <2>2, <2>3, <2>6, <3>1 DEF RpcOK
    <2>9. NamesOK(q, actorOf, acked)
      <3>1. NamesOK(p, actorOf, acked) /\ \A n \in ActorNames : actorOf[n] # i
        BY <2>1, NodeParts
      <3> QED
        BY <1>1, <2>6, <3>1 DEF NamesOK, WatchUnderName, Stops
    <2>10. \A s \in Rpcs : i \notin Knows(rpc[s])
      <3> SUFFICES ASSUME NEW s \in Rpcs PROVE i \notin Knows(rpc[s])
        OBVIOUS
      <3>1. RpcOK(rpc[s], life) /\ 1..Len(life) \subseteq 0..Len(life)
        BY NodeParts
      <3>2. Knows(rpc[s]) \subseteq 0..Len(life)
        BY <3>1 DEF RpcOK, Knows
      <3> QED
        BY <2>1, <3>2
    <2>11. i \notin q.due \cup q.told
      BY <2>6, <2>10 DEF Knows
    <2>12. \A s \in Rpcs : (s # r /\ Spawned(rpc[s])) => rpc[s].inst \notin Knows(q)
      <3> SUFFICES ASSUME NEW s \in Rpcs, s # r, Spawned(rpc[s]) PROVE rpc[s].inst \notin Knows(q)
        OBVIOUS
      <3>1. rpc[s].inst \notin Knows(p) /\ rpc[s].inst \in 0..Len(life)
        BY NodeParts DEF NodeInv, NodeStateOK, FreshOK, RpcOK
      <3> QED
        BY <2>1, <2>6, <3>1 DEF Knows
    <2>13. actorOf' \in [ActorNames -> 0..Len(life')]
      BY <1>1, <2>2, <2>3, NodeParts
    <2>14. NodeStateOK'
      BY <1>1, <2>1, <2>2, <2>5, <2>6, <2>7, <2>8, <2>9, <2>10, <2>11, <2>12, <2>13, NodeParts, StateKeeps
    <2>15. Those(rpc', Uncounts) = Those(rpc, Uncounts) /\ Those(rpc', Unstops) = Those(rpc, Unstops)
      <3>1. /\ Turns(Those(rpc, Uncounts), Those(rpc', Uncounts), r, Uncounts(p), Uncounts(q))
            /\ Turns(Those(rpc, Unstops), Those(rpc', Unstops), r, Unstops(p), Unstops(q))
        BY <2>1, <2>5, NodeParts, ThoseChange
      <3>2. ~Uncounts(p) /\ ~Uncounts(q) /\ ~Unstops(p) /\ ~Unstops(q)
        BY <1>1, <2>6 DEF Uncounts, Unstops, Stops
      <3> QED
        BY <3>1, <3>2 DEF Turns
    <2>16. AccountsOK'
      <3>1. ~Entered(p) /\ ~Entered(q)
        BY <1>1, <2>6 DEF Entered
      <3>2. Those(rpc', Entered) = Those(rpc, Entered) /\ Begun(rpc, emitted)' = Begun(rpc, emitted)
        BY <1>1, <2>1, <2>5, <3>1, BegunStays
      <3> QED
        BY <1>1, <2>15, <3>2, NodeParts DEF AccountsOK
    <2> QED
      BY <2>14, <2>16 DEF NodeInv
  <1> QED
    BY <1>2, <1>3 DEF HandlerSpawns

\* Emitting one more event of type t.
LEMMA Emits ==
    ASSUME NodeInv, NEW t \in EventTypes, Emit(t)
    PROVE  /\ emitted' \in [EventTypes -> Nat]
           /\ \A u \in EventTypes : emitted'[u] = IF u = t THEN emitted[u] + 1 ELSE emitted[u]
  <1>1. emitted \in [EventTypes -> Nat]
    BY DEF NodeInv, NodeStateOK, NodeType
  <1> QED
    BY <1>1 DEF Emit

LEMMA BalancedNow ==
    ASSUME NodeInv, NEW r \in Rpcs
    PROVE  /\ Balanced(liveCount, Begun(rpc, emitted), emitted["actor_stopped"],
                       Named(actorOf), Those(rpc, Uncounts), Those(rpc, Unstops))
           /\ IsFiniteSet(Those(rpc, Entered)) /\ Begun(rpc, emitted) \in Nat
           /\ liveCount \in Int /\ emitted["actor_spawned"] \in Nat /\ emitted["actor_stopped"] \in Nat
           /\ "actor_spawned" \in EventTypes /\ "actor_stopped" \in EventTypes
  <1>1. "actor_spawned" \in EventTypes /\ "actor_stopped" \in EventTypes
    BY DEF EventTypes
  <1>2. liveCount \in Int /\ emitted["actor_spawned"] \in Nat /\ emitted["actor_stopped"] \in Nat
    BY <1>1, NodeParts
  <1>3. /\ IsFiniteSet(Those(rpc, Entered))
        /\ Balanced(liveCount, Begun(rpc, emitted), emitted["actor_stopped"],
                    Named(actorOf), Those(rpc, Uncounts), Those(rpc, Unstops))
    BY NodeParts DEF AccountsOK
  <1>4. Cardinality(Those(rpc, Entered)) \in Nat
    BY <1>3, FS_CardinalityType
  <1>5. Begun(rpc, emitted) \in Nat
    BY <1>2, <1>4 DEF Begun
  <1> QED
    BY <1>1, <1>2, <1>3, <1>5

LEMMA InsertsKeeps ==
    ASSUME NodeInv, NEW r \in Rpcs, HandlerInserts(r)
    PROVE  NodeInv'
  <1> DEFINE p == rpc[r]
             n == p.name
             i == p.inst
             q == [p EXCEPT !.pc = "inserted"]
  <1>1. p.op = "spawn" /\ p.pc = "spawned" /\ Spawned(p) /\ UNCHANGED <<watching, life, emitted, acked>>
    BY DEF HandlerInserts, At, Spawned
  <1>2. CASE actorOf[n] # 0
    <2>1. Answer(r, "error") /\ UNCHANGED <<actorOf, liveCount>>
      BY <1>2 DEF HandlerInserts, Instance
    <2> QED
      BY <1>1, <2>1, NodeParts, AnswerKeeps DEF RpcOuts
  <1>3. CASE actorOf[n] = 0
    <2>1. /\ actorOf' = [actorOf EXCEPT ![n] = i] /\ liveCount' = liveCount + 1
          /\ Goto(r, "inserted")
      BY <1>3 DEF HandlerInserts, Instance
    <2>2. rpc' = [rpc EXCEPT ![r] = q] /\ p \in Rpc /\ RpcOK(p, life)
      BY <2>1, NodeParts DEF Goto
    <2>4. /\ q \in Rpc /\ q.op = p.op /\ q.name = p.name /\ q.to = p.to /\ q.due = p.due /\ q.told = p.told
          /\ q.inst = i /\ q.pc = "inserted" /\ q.out = p.out
      BY <2>2 DEF Rpc, RpcPcs
    <2> HIDE DEF q
    <2>3. RpcOK(q, life)
      BY <1>1, <2>2, <2>4 DEF RpcOK
    <2>5. n \in ActorNames /\ i # 0 /\ i \in 0..Len(life) /\ \A m \in ActorNames : actorOf[m] # i
      BY <1>1, NodeParts DEF RpcOK, NamesOK
    <2>6. actorOf' \in [ActorNames -> 0..Len(life)] /\ \A m \in ActorNames : actorOf'[m] = IF m = n THEN i ELSE actorOf[m]
      BY <2>1, <2>5, NodeParts
    <2>7. Injective(actorOf')
      BY <2>5, <2>6, NodeParts DEF Injective
    <2>8. ASSUME NEW s \in Rpcs, s # r PROVE NamesOK(rpc[s], actorOf', acked)
      <3>1. NamesOK(rpc[s], actorOf, acked) /\ i \notin Knows(rpc[s])
        BY <1>1, <2>8, NodeParts DEF NodeInv, NodeStateOK, FreshOK
      <3>2. WatchUnderName(rpc[s], rpc[s].due, actorOf', acked) /\ WatchUnderName(rpc[s], rpc[s].told, actorOf', acked)
        BY <2>6, <3>1 DEF NamesOK, WatchUnderName, Knows
      <3>3. (Spawned(rpc[s]) \/ Stops(rpc[s])) => \A m \in ActorNames : actorOf'[m] # rpc[s].inst
        BY <2>6, <3>1 DEF NamesOK, Knows, Stops
      <3>4. (rpc[s].op = "stop" /\ rpc[s].out = "ok") =>
                \A m \in ActorNames : actorOf'[m] \in rpc[s].due => actorOf'[m] \in rpc[s].told
        BY <2>6, <3>1 DEF NamesOK, Knows
      <3> QED
        BY <3>2, <3>3, <3>4 DEF NamesOK
    <2>9. NamesOK(q, actorOf', acked)
      <3>1. NamesOK(p, actorOf, acked) /\ i \notin p.due \cup p.told
        BY <1>1, NodeParts DEF NodeInv, NodeStateOK, OwnFresh
      <3> QED
        BY <1>1, <2>4, <2>6, <3>1 DEF NamesOK, WatchUnderName, Spawned, Stops
    <2>10. ASSUME NEW s \in Rpcs, s # r, Spawned(rpc[s]) PROVE rpc[s].inst \notin Knows(q)
      <3>1. rpc[s].inst \notin Knows(p)
        BY <2>10 DEF NodeInv, NodeStateOK, FreshOK
      <3> QED
        BY <1>1, <2>4, <3>1 DEF Knows, Spawned
    <2>11. "actor_spawned" \in EventTypes /\ "actor_stopped" \in EventTypes
      BY DEF EventTypes
    <2>12. emitted' \in [EventTypes -> Nat]
      BY <1>1, NodeParts
    <2>13. ~Spawned(q) /\ liveCount' \in Int
      BY <2>1, <2>4, NodeParts DEF Spawned
    <2>14. NodeStateOK'
      BY <1>1, <2>2, <2>3, <2>4, <2>6, <2>7, <2>8, <2>9, <2>10, <2>12, <2>13, NodeParts, StateKeeps
    <2>15. Those(rpc', Uncounts) = Those(rpc, Uncounts) /\ Those(rpc', Unstops) = Those(rpc, Unstops)
      <3>1. /\ Turns(Those(rpc, Uncounts), Those(rpc', Uncounts), r, Uncounts(p), Uncounts(q))
            /\ Turns(Those(rpc, Unstops), Those(rpc', Unstops), r, Unstops(p), Unstops(q))
        BY <2>2, <2>4, NodeParts, ThoseChange
      <3>2. ~Uncounts(p) /\ ~Uncounts(q) /\ ~Unstops(p) /\ ~Unstops(q)
        BY <1>1, <2>4 DEF Uncounts, Unstops, Stops
      <3> QED
        BY <3>1, <3>2 DEF Turns
    <2>16. Named(actorOf') = Named(actorOf) \cup {n} /\ n \notin Named(actorOf)
      BY <1>3, <2>5, <2>6 DEF Named
    <2>17. Those(rpc', Entered) = Those(rpc, Entered) \cup {r} /\ r \notin Those(rpc, Entered)
      <3>1. Turns(Those(rpc, Entered), Those(rpc', Entered), r, Entered(p), Entered(q))
        BY <2>2, <2>4, NodeParts, ThoseChange
      <3>2. ~Entered(p) /\ Entered(q)
        BY <1>1, <2>4 DEF Entered
      <3> QED
        BY <3>1, <3>2 DEF Turns
    <2>18. IsFiniteSet(Those(rpc', Entered)) /\ Begun(rpc, emitted)' = Begun(rpc, emitted) + 1
      <3>1. /\ IsFiniteSet(Those(rpc', Entered)) /\ Cardinality(Those(rpc', Entered)) = Cardinality(Those(rpc, Entered)) + 1
            /\ Cardinality(Those(rpc, Entered)) \in Nat
        BY <2>17, BalancedNow, OneMore
      <3>2. emitted["actor_spawned"] \in Nat /\ emitted' = emitted
        BY <1>1, BalancedNow
      <3> QED
        BY <3>1, <3>2 DEF Begun
    <2>19. AccountsOK'
      <3>1. Balanced(liveCount + 1, Begun(rpc, emitted) + 1, emitted["actor_stopped"],
                     Named(actorOf) \cup {n}, Those(rpc, Uncounts), Those(rpc, Unstops))
        BY <2>16, BalancedNow, BalancedSpawn
      <3> QED
        BY <1>1, <2>1, <2>15, <2>16, <2>18, <3>1 DEF AccountsOK
    <2> QED
      BY <2>14, <2>19 DEF NodeInv
  <1> QED
    BY <1>2, <1>3

\* A spawn is announced.
LEMMA AnnouncesKeeps ==
    ASSUME NodeInv, NEW r \in Rpcs, ServeSpawn(r)
    PROVE  NodeInv'
  <1> DEFINE p == rpc[r]
             q == [p EXCEPT !.pc = "done", !.out = "ok"]
  <1>1. /\ p.op = "spawn" /\ p.pc = "inserted" /\ UNCHANGED <<actorOf, watching, liveCount, life, acked>>
        /\ Answer(r, "ok") /\ Emit("actor_spawned")
    BY DEF ServeSpawn, At
  <1>2. rpc' = [rpc EXCEPT ![r] = q] /\ p \in Rpc /\ RpcOK(p, life)
    BY <1>1, NodeParts DEF Answer
  <1>3. q \in Rpc /\ QuietTo(p, q) /\ RpcOK(q, life)
    BY <1>1, <1>2, AnswerIsQuiet DEF RpcOuts
  <1>4. Entered(p) /\ ~Entered(q)
    BY <1>1, <1>2 DEF Entered, Rpc
  <1> HIDE DEF q
  <1>5. /\ emitted' \in [EventTypes -> Nat] /\ emitted'["actor_spawned"] = emitted["actor_spawned"] + 1
        /\ emitted'["actor_stopped"] = emitted["actor_stopped"]
    BY <1>1, BalancedNow, Emits
  <1>6. /\ NodeStateOK' /\ Those(rpc', Uncounts) = Those(rpc, Uncounts)
        /\ Those(rpc', Unstops) = Those(rpc, Unstops)
    BY <1>1, <1>2, <1>3, <1>5, QuietState
  <1>7. r \in Those(rpc, Entered) /\ Those(rpc', Entered) = Those(rpc, Entered) \ {r}
    <2>1. Turns(Those(rpc, Entered), Those(rpc', Entered), r, Entered(p), Entered(q))
      BY <1>2, <1>3, NodeParts, ThoseChange
    <2> QED
      BY <1>4, <2>1 DEF Turns
  <1>8. IsFiniteSet(Those(rpc', Entered)) /\ Begun(rpc, emitted)' = Begun(rpc, emitted)
    <2>1. /\ IsFiniteSet(Those(rpc', Entered)) /\ Cardinality(Those(rpc', Entered)) = Cardinality(Those(rpc, Entered)) - 1
          /\ Cardinality(Those(rpc, Entered)) \in Nat
      BY <1>7, BalancedNow, OneLess
    <2>2. emitted["actor_spawned"] \in Nat
      BY BalancedNow
    <2> QED
      BY <1>5, <2>1, <2>2 DEF Begun
  <1>9. AccountsOK'
    BY <1>1, <1>5, <1>6, <1>8, BalancedNow DEF AccountsOK
  <1> QED
    BY <1>6, <1>9 DEF NodeInv

LEMMA RemovesKeeps ==
    ASSUME NodeInv, NEW r \in Rpcs, StopRemoves(r)
    PROVE  NodeInv'
  <1> DEFINE p == rpc[r]
             n == p.name
             i == actorOf[n]
             q == [p EXCEPT !.pc = "polling", !.inst = i]
  <1>1. p.op = "stop" /\ p.pc = "start" /\ UNCHANGED <<watching, liveCount, emitted, acked>>
    BY DEF StopRemoves, Serve, At
  <1>2. CASE i = 0
    <2>1. Answer(r, "error") /\ UNCHANGED <<actorOf, life>>
      BY <1>2 DEF StopRemoves, Instance
    <2> QED
      BY <1>1, <2>1, NodeParts, AnswerKeeps DEF RpcOuts
  <1>3. CASE i # 0
    <2>1. /\ actorOf' = [actorOf EXCEPT ![n] = 0] /\ life' = [life EXCEPT ![i] = "stopping"]
          /\ rpc' = [rpc EXCEPT ![r].pc = "polling", ![r].inst = i]
      BY <1>3 DEF StopRemoves, Instance
    <2>2. p \in Rpc /\ rpc \in [Rpcs -> Rpc] /\ n \in ActorNames /\ p.inst = 0 /\ p.out = "none"
      BY <1>1, NodeParts DEF RpcOK
    <2>3. i \in 1..Len(life) /\ i \in Nat /\ i \in 0..Len(life)
      BY <1>3, <2>2, NodeParts
    <2>4. rpc' = [rpc EXCEPT ![r] = q]
      BY <2>1, <2>2
    <2>5. /\ life' \in Seq({"alive", "stopping", "dead"}) /\ Len(life') = Len(life)
          /\ \A j \in 1..Len(life) : j # i => life'[j] = life[j]
      BY <2>1, <2>3, NodeParts
    <2>6. /\ actorOf' \in [ActorNames -> 0..Len(life)]
          /\ \A m \in ActorNames : actorOf'[m] = IF m = n THEN 0 ELSE actorOf[m]
      <3>1. actorOf \in [ActorNames -> 0..Len(life)] /\ 0 \in 0..Len(life)
        BY NodeParts
      <3>2. actorOf' = [actorOf EXCEPT ![n] = 0]
        BY <2>1
      <3> HIDE DEF n
      <3> QED
        BY <3>1, <3>2
    <2>7. \A m \in ActorNames : actorOf'[m] # i
      BY <1>3, <2>2, <2>6, NodeParts DEF Injective
    <2> HIDE DEF i
    <2>8. q \in Rpc
      BY <2>2, <2>3 DEF Rpc, RpcPcs
    <2>9. /\ q.op = p.op /\ q.name = p.name /\ q.to = p.to /\ q.due = p.due /\ q.told = p.told
          /\ q.inst = i /\ q.pc = "polling" /\ q.out = p.out
      BY <2>2 DEF Rpc
    <2> HIDE DEF q
    <2>10. RpcOK(q, life')
      <3>1. RpcOK(p, life)
        BY NodeParts
      <3> QED
        BY <1>1, <1>3, <2>2, <2>3, <2>5, <2>9, <3>1 DEF RpcOK
    <2>11. ASSUME NEW s \in Rpcs PROVE \A m \in ActorNames :
              /\ actorOf'[m] \in rpc[s].due => actorOf'[m] = actorOf[m]
              /\ actorOf'[m] \in rpc[s].told => actorOf'[m] = actorOf[m]
      <3>1. 0 \notin rpc[s].due /\ 0 \notin rpc[s].told
        BY NodeParts DEF RpcOK
      <3> QED
        BY <2>6, <3>1
    <2>12. ASSUME NEW s \in Rpcs, s # r PROVE RpcOK(rpc[s], life') /\ NamesOK(rpc[s], actorOf', acked)
      <3>1. RpcOK(rpc[s], life) /\ NamesOK(rpc[s], actorOf, acked)
        BY NodeParts
      <3>2. rpc[s].op = "stop" => rpc[s].inst # i
        <4>1. Stops(rpc[s]) => i # rpc[s].inst
          BY <2>2, <3>1 DEF NamesOK, i
        <4> QED
          BY <1>3, <4>1 DEF Stops
      <3>3. rpc[s].inst # 0 => rpc[s].inst \in 1..Len(life)
        BY <3>1 DEF RpcOK
      <3>4. RpcOK(rpc[s], life')
        BY <2>5, <3>1, <3>2, <3>3 DEF RpcOK
      <3>5. (Spawned(rpc[s]) \/ Stops(rpc[s])) => rpc[s].inst # 0
        BY <3>1 DEF RpcOK, Spawned, Stops
      <3>6. (Spawned(rpc[s]) \/ Stops(rpc[s])) => \A m \in ActorNames : actorOf'[m] # rpc[s].inst
        BY <2>6, <3>1, <3>5 DEF NamesOK
      <3>7. NamesOK(rpc[s], actorOf', acked)
        BY <2>11, <3>1, <3>6 DEF NamesOK, WatchUnderName
      <3> QED
        BY <3>4, <3>7
    <2>13. NamesOK(q, actorOf', acked)
      <3>1. NamesOK(p, actorOf, acked)
        BY NodeParts
      <3>2. WatchUnderName(q, q.due, actorOf', acked) /\ WatchUnderName(q, q.told, actorOf', acked)
        BY <2>9, <2>11, <3>1 DEF NamesOK, WatchUnderName
      <3> QED
        BY <2>2, <2>7, <2>9, <3>2 DEF NamesOK
    <2>14. ASSUME NEW s \in Rpcs, s # r, Spawned(rpc[s]) PROVE rpc[s].inst \notin Knows(q)
      <3>1. rpc[s].inst \notin Knows(p)
        BY <2>14 DEF NodeInv, NodeStateOK, FreshOK
      <3>2. rpc[s].inst # i
        BY <2>2, <2>14, NodeParts DEF NamesOK, i
      <3> QED
        BY <1>1, <2>9, <3>1, <3>2 DEF Knows
    <2>15. ~Spawned(q) /\ Injective(actorOf')
      BY <1>1, <2>6, <2>9, NodeParts DEF Spawned, Injective
    <2>16. NodeStateOK'
      BY <1>1, <2>4, <2>5, <2>6, <2>8, <2>10, <2>12, <2>13, <2>14, <2>15, NodeParts, StateKeeps
    <2>17. /\ Turns(Those(rpc, Uncounts), Those(rpc', Uncounts), r, Uncounts(p), Uncounts(q))
           /\ Turns(Those(rpc, Unstops), Those(rpc', Unstops), r, Unstops(p), Unstops(q))
      BY <2>4, <2>8, NodeParts, ThoseChange
    <2>18. ~Uncounts(p) /\ Uncounts(q) /\ ~Unstops(p) /\ Unstops(q)
      BY <1>1, <1>3, <2>2, <2>9 DEF Uncounts, Unstops, Stops
    <2>19. /\ r \notin Those(rpc, Uncounts) /\ Those(rpc', Uncounts) = Those(rpc, Uncounts) \cup {r}
           /\ r \notin Those(rpc, Unstops) /\ Those(rpc', Unstops) = Those(rpc, Unstops) \cup {r}
      BY <2>17, <2>18 DEF Turns
    <2>20. Named(actorOf') = Named(actorOf) \ {n} /\ n \in Named(actorOf)
      BY <1>3, <2>2, <2>6 DEF Named, i
    <2>21. Balanced(liveCount, Begun(rpc, emitted), emitted["actor_stopped"],
                    Named(actorOf) \ {n}, Those(rpc, Uncounts) \cup {r}, Those(rpc, Unstops) \cup {r})
      BY <2>19, <2>20, BalancedNow, BalancedTake
    <2>22. AccountsOK'
      <3>1. ~Entered(p) /\ ~Entered(q)
        BY <1>1, <2>9 DEF Entered
      <3>2. Those(rpc', Entered) = Those(rpc, Entered) /\ Begun(rpc, emitted)' = Begun(rpc, emitted)
        BY <1>1, <2>4, <2>8, <3>1, BegunStays
      <3> QED
        BY <1>1, <2>19, <2>20, <2>21, <3>2, BalancedNow DEF AccountsOK
    <2> QED
      BY <2>16, <2>22 DEF NodeInv
  <1> QED
    BY <1>2, <1>3

\* A step of the call r to stop an actor, after it took it out.
StopGoesOn(r, q) ==
    /\ q \in Rpc /\ rpc' = [rpc EXCEPT ![r] = q]
    /\ q.op = rpc[r].op /\ q.name = rpc[r].name /\ q.to = rpc[r].to /\ q.due = rpc[r].due /\ q.inst = rpc[r].inst
    /\ UNCHANGED <<actorOf, watching, life, acked>>

LEMMA StopGoesOnKeeps ==
    ASSUME NodeInv, NEW r \in Rpcs, NEW q, StopGoesOn(r, q), rpc[r].op = "stop", RpcOK(q, life),
           WatchUnderName(q, q.told, actorOf, acked), q.told \subseteq {actorOf[n] : n \in ActorNames} \cup rpc[r].told,
           q.out = "ok" => \A n \in ActorNames : actorOf[n] \in q.due => actorOf[n] \in q.told,
           liveCount' \in Int, emitted' \in [EventTypes -> Nat]
    PROVE  NodeStateOK'
  <1>1. NamesOK(q, actorOf, acked)
    <2>1. NamesOK(rpc[r], actorOf, acked)
      BY NodeParts
    <2> QED
      BY <2>1 DEF NamesOK, WatchUnderName, StopGoesOn, Stops, Spawned
  <1>2. ASSUME NEW s \in Rpcs, s # r, Spawned(rpc[s]) PROVE rpc[s].inst \notin Knows(q)
    <2>1. rpc[s].inst \notin Knows(rpc[r])
      BY <1>2 DEF NodeInv, NodeStateOK, FreshOK
    <2>2. \A n \in ActorNames : actorOf[n] # rpc[s].inst
      BY <1>2, NodeParts DEF NamesOK
    <2>3. rpc[s].inst \notin q.told
      BY <2>1, <2>2 DEF Knows
    <2> QED
      BY <2>1, <2>3 DEF Knows, StopGoesOn
  <1>3. ~Spawned(q)
    BY DEF Spawned, StopGoesOn
  <1>4. /\ life' \in Seq({"alive", "stopping", "dead"}) /\ actorOf' \in [ActorNames -> 0..Len(life')]
        /\ watching' = acked' /\ acked' \subseteq ActorNames \X ActorNames /\ Injective(actorOf')
        /\ NamesOK(q, actorOf', acked') /\ RpcOK(q, life')
        /\ \A s \in Rpcs : s # r => RpcOK(rpc[s], life') /\ NamesOK(rpc[s], actorOf', acked')
    BY <1>1, NodeParts DEF StopGoesOn
  <1> QED
    BY <1>2, <1>3, <1>4, StateKeeps DEF StopGoesOn

LEMMA PollsKeeps ==
    ASSUME NodeInv, NEW r \in Rpcs, StopPolls(r)
    PROVE  NodeInv'
  <1> DEFINE p == rpc[r]
  <1>1. p.op = "stop" /\ p.pc = "polling" /\ UNCHANGED <<actorOf, watching, life, emitted, acked>>
    BY DEF StopPolls, At
  <1>2. p \in Rpc /\ rpc \in [Rpcs -> Rpc] /\ p.inst # 0 /\ p.out = "none" /\ RpcOK(p, life)
    BY <1>1, NodeParts DEF RpcOK
  <1>3. CASE rpc' = [rpc EXCEPT ![r].polls = @ + 1] /\ liveCount' = liveCount
    <2> DEFINE k == p.polls + 1
               q == [p EXCEPT !.polls = k]
    <2>1. rpc' = [rpc EXCEPT ![r] = q]
      BY <1>2, <1>3
    <2>2. k \in Nat
      BY <1>2 DEF Rpc
    <2> HIDE DEF k
    <2>3. q \in Rpc /\ q.op = p.op /\ q.name = p.name /\ q.to = p.to /\ q.due = p.due /\ q.told = p.told
          /\ q.inst = p.inst /\ q.pc = p.pc /\ q.out = p.out
      BY <1>2, <2>2 DEF Rpc
    <2> HIDE DEF q
    <2>4. QuietTo(p, q) /\ RpcOK(q, life) /\ (Entered(q) <=> Entered(p))
      BY <1>2, <2>3 DEF QuietTo, Spawned, Uncounts, Unstops, Stops, RpcOK, Entered
    <2> QED
      BY <1>1, <1>3, <2>1, <2>3, <2>4, NodeParts, QuietKeeps
  <1>4. ASSUME NEW q \in Rpc, rpc' = [rpc EXCEPT ![r] = q], liveCount' = liveCount - 1,
               q.op = p.op, q.name = p.name, q.to = p.to, q.due = p.due, q.told = p.told, q.inst = p.inst,
               q.pc \in {"notify", "done"}, q.out # "ok", RpcOK(q, life)
        PROVE  NodeInv'
    <2>1. StopGoesOn(r, q)
      BY <1>1, <1>4 DEF StopGoesOn
    <2>2. WatchUnderName(q, q.told, actorOf, acked)
      BY <1>4, NodeParts DEF NamesOK, WatchUnderName
    <2>3. liveCount' \in Int /\ emitted' \in [EventTypes -> Nat]
      BY <1>1, <1>4, NodeParts
    <2>4. NodeStateOK'
      BY <1>1, <1>4, <2>1, <2>2, <2>3, StopGoesOnKeeps
    <2>5. /\ Turns(Those(rpc, Uncounts), Those(rpc', Uncounts), r, Uncounts(p), Uncounts(q))
          /\ Turns(Those(rpc, Unstops), Those(rpc', Unstops), r, Unstops(p), Unstops(q))
      BY <1>4, NodeParts, ThoseChange
    <2>6. Uncounts(p) /\ ~Uncounts(q) /\ Unstops(p) /\ Unstops(q)
      BY <1>1, <1>2, <1>4 DEF Uncounts, Unstops, Stops
    <2>7. /\ r \in Those(rpc, Uncounts) /\ Those(rpc', Uncounts) = Those(rpc, Uncounts) \ {r}
          /\ Those(rpc', Unstops) = Those(rpc, Unstops)
      BY <2>5, <2>6 DEF Turns
    <2>8. Balanced(liveCount - 1, Begun(rpc, emitted), emitted["actor_stopped"],
                   Named(actorOf), Those(rpc, Uncounts) \ {r}, Those(rpc, Unstops))
      BY <2>7, BalancedNow, BalancedCount
    <2>9. AccountsOK'
      <3>1. ~Entered(p) /\ ~Entered(q)
        BY <1>1, <1>4 DEF Entered
      <3>2. Those(rpc', Entered) = Those(rpc, Entered) /\ Begun(rpc, emitted)' = Begun(rpc, emitted)
        BY <1>1, <1>4, <3>1, BegunStays
      <3> QED
        BY <1>1, <1>4, <2>7, <2>8, <3>2, BalancedNow DEF AccountsOK
    <2> QED
      BY <2>4, <2>9 DEF NodeInv
  <1>5. CASE life[p.inst] = "dead" /\ Goto(r, "notify") /\ liveCount' = liveCount - 1
    <2> DEFINE q == [p EXCEPT !.pc = "notify"]
    <2>1. rpc' = [rpc EXCEPT ![r] = q]
      BY <1>2, <1>5 DEF Goto
    <2>2. q \in Rpc /\ q.op = p.op /\ q.name = p.name /\ q.to = p.to /\ q.due = p.due /\ q.told = p.told
          /\ q.inst = p.inst /\ q.pc = "notify" /\ q.out = p.out
      BY <1>2 DEF Rpc, RpcPcs
    <2> HIDE DEF q
    <2>3. RpcOK(q, life)
      BY <1>1, <1>2, <1>5, <2>2 DEF RpcOK
    <2> QED
      BY <1>2, <1>4, <1>5, <2>1, <2>2, <2>3
  <1>6. CASE Answer(r, "error") /\ liveCount' = liveCount - 1
    <2> DEFINE q == [p EXCEPT !.pc = "done", !.out = "error"]
    <2>1. rpc' = [rpc EXCEPT ![r] = q]
      BY <1>2, <1>6 DEF Answer
    <2>2. q \in Rpc /\ q.op = p.op /\ q.name = p.name /\ q.to = p.to /\ q.due = p.due /\ q.told = p.told
          /\ q.inst = p.inst /\ q.pc = "done" /\ q.out = "error"
      BY <1>2 DEF Rpc, RpcPcs, RpcOuts
    <2> HIDE DEF q
    <2>3. RpcOK(q, life)
      BY <1>1, <1>2, <2>2 DEF RpcOK
    <2> QED
      BY <1>4, <1>6, <2>1, <2>2, <2>3
  <1> QED
    BY <1>3, <1>5, <1>6 DEF StopPolls

LEMMA LocksKeeps ==
    ASSUME NodeInv, NEW r \in Rpcs, StopLocksWatches(r)
    PROVE  NodeInv'
  <1>1. rpc[r].op = "stop" /\ rpc[r].pc = "notify" /\ rpc' = [rpc EXCEPT ![r].pc = "collect"] /\ Still
    BY DEF StopLocksWatches, At
  <1>2. "collect" \in RpcPcs
    BY DEF RpcPcs
  <1> QED
    BY <1>1, <1>2, GotoKeeps

LEMMA NotifiesKeeps ==
    ASSUME NodeInv, NEW r \in Rpcs, StopNotifies(r)
    PROVE  NodeInv'
  <1> DEFINE p == rpc[r]
             told == WatchersOf(watching, p.name)
             q == [p EXCEPT !.pc = "done", !.out = "ok", !.told = told]
  <1>1. /\ p.op = "stop" /\ p.pc = "collect" /\ UNCHANGED <<actorOf, watching, liveCount, life, acked>>
        /\ rpc' = [rpc EXCEPT ![r].pc = "done", ![r].out = "ok", ![r].told = told] /\ Emit("actor_stopped")
    BY DEF StopNotifies, At, ServeStop
  <1>2. p \in Rpc /\ rpc \in [Rpcs -> Rpc] /\ RpcOK(p, life) /\ NamesOK(p, actorOf, acked)
    BY NodeParts
  <1>3. p.inst # 0 /\ p.out = "none" /\ life[p.inst] = "dead" /\ p.name \in ActorNames
    BY <1>1, <1>2 DEF RpcOK
  <1>4. \A x : x \in told <=> x # 0 /\ \E m \in ActorNames : <<m, p.name>> \in acked /\ actorOf[m] = x
    <2>1. watching = acked /\ acked \subseteq ActorNames \X ActorNames
      BY NodeParts
    <2> QED
      BY <2>1, WatchersNamed
  <1>5. rpc' = [rpc EXCEPT ![r] = q]
    BY <1>1, <1>2
  <1> HIDE DEF told
  <1>6. told \subseteq 1..Len(life) /\ told \subseteq Nat
    <2>1. \A m \in ActorNames : actorOf[m] # 0 => actorOf[m] \in 1..Len(life)
      BY NodeParts
    <2>2. told \subseteq 1..Len(life)
      BY <1>4, <2>1
    <2>3. 1..Len(life) \subseteq Nat
      BY NodeParts
    <2> QED
      BY <2>2, <2>3
  <1>7. q \in Rpc
    BY <1>2, <1>6 DEF Rpc, RpcPcs, RpcOuts
  <1>8. /\ q.op = p.op /\ q.name = p.name /\ q.to = p.to /\ q.due = p.due /\ q.told = told
        /\ q.inst = p.inst /\ q.pc = "done" /\ q.out = "ok"
    BY <1>2 DEF Rpc
  <1> HIDE DEF q
  <1>9. RpcOK(q, life)
    BY <1>1, <1>2, <1>3, <1>6, <1>8 DEF RpcOK
  <1>10. WatchUnderName(q, q.told, actorOf, acked)
    <2> SUFFICES ASSUME NEW n \in ActorNames, actorOf[n] \in told PROVE <<n, p.name>> \in acked
      BY <1>8 DEF WatchUnderName
    <2>1. PICK m \in ActorNames : <<m, p.name>> \in acked /\ actorOf[m] = actorOf[n] /\ actorOf[n] # 0
      BY <1>4
    <2>2. m = n
      BY <2>1, NodeParts DEF Injective
    <2> QED
      BY <2>1, <2>2
  <1>11. \A n \in ActorNames : actorOf[n] \in q.due => actorOf[n] \in q.told
    <2> SUFFICES ASSUME NEW n \in ActorNames, actorOf[n] \in p.due PROVE actorOf[n] \in told
      BY <1>8
    <2>1. <<n, p.name>> \in acked /\ actorOf[n] # 0
      BY <1>2 DEF NamesOK, WatchUnderName, RpcOK
    <2> QED
      BY <1>4, <2>1
  <1>12. q.told \subseteq {actorOf[n] : n \in ActorNames} \cup p.told
    BY <1>4, <1>8
  <1>13. StopGoesOn(r, q)
    BY <1>1, <1>5, <1>7, <1>8 DEF StopGoesOn
  <1>14. /\ emitted' \in [EventTypes -> Nat] /\ emitted'["actor_spawned"] = emitted["actor_spawned"]
         /\ emitted'["actor_stopped"] = emitted["actor_stopped"] + 1
    <2>1. "actor_spawned" \in EventTypes /\ "actor_stopped" \in EventTypes
      BY DEF EventTypes
    <2> QED
      BY <1>1, <2>1, Emits
  <1>15. liveCount' \in Int
    BY <1>1, NodeParts
  <1>16. NodeStateOK'
    BY <1>1, <1>9, <1>10, <1>11, <1>12, <1>13, <1>14, <1>15, StopGoesOnKeeps
  <1>17. /\ Turns(Those(rpc, Uncounts), Those(rpc', Uncounts), r, Uncounts(p), Uncounts(q))
         /\ Turns(Those(rpc, Unstops), Those(rpc', Unstops), r, Unstops(p), Unstops(q))
    BY <1>2, <1>5, <1>7, ThoseChange
  <1>18. ~Uncounts(p) /\ ~Uncounts(q) /\ Unstops(p) /\ ~Unstops(q)
    BY <1>1, <1>3, <1>8 DEF Uncounts, Unstops, Stops
  <1>19. /\ r \in Those(rpc, Unstops) /\ Those(rpc', Unstops) = Those(rpc, Unstops) \ {r}
         /\ Those(rpc', Uncounts) = Those(rpc, Uncounts)
    BY <1>17, <1>18 DEF Turns
  <1>20. Balanced(liveCount, Begun(rpc, emitted), emitted["actor_stopped"] + 1,
                  Named(actorOf), Those(rpc, Uncounts), Those(rpc, Unstops) \ {r})
    BY <1>19, BalancedNow, BalancedStop
  <1>21. AccountsOK'
    <2>1. ~Entered(p) /\ ~Entered(q)
      BY <1>1, <1>8 DEF Entered
    <2>2. Those(rpc', Entered) = Those(rpc, Entered) /\ Begun(rpc, emitted)' = Begun(rpc, emitted)
      BY <1>5, <1>7, <1>14, <2>1, BegunStays
    <2> QED
      BY <1>1, <1>14, <1>19, <1>20, <2>2, BalancedNow DEF AccountsOK
  <1> QED
    BY <1>16, <1>21 DEF NodeInv

LEMMA EntersKeeps ==
    ASSUME NodeInv, NEW r \in Rpcs, WatchEnters(r)
    PROVE  NodeInv'
  <1> DEFINE p == rpc[r]
             pair == <<p.name, p.to>>
             q == [p EXCEPT !.pc = "done", !.out = "ok"]
  <1>1. /\ p.op = "watch" /\ p.pc = "enter" /\ UNCHANGED <<actorOf, liveCount, life>>
        /\ watching' = watching \cup {pair} /\ acked' = acked \cup {pair}
        /\ Answer(r, "ok") /\ Emit("actor_watch_registered")
    BY DEF WatchEnters, At, ServeWatch
  <1>2. p \in Rpc /\ rpc \in [Rpcs -> Rpc] /\ RpcOK(p, life) /\ NamesOK(p, actorOf, acked)
    BY NodeParts
  <1>3. rpc' = [rpc EXCEPT ![r] = q]
    BY <1>1, <1>2 DEF Answer
  <1>4. q \in Rpc /\ QuietTo(p, q) /\ RpcOK(q, life)
    BY <1>1, <1>2, AnswerIsQuiet DEF RpcOuts
  <1>5. /\ q.op = p.op /\ q.name = p.name /\ q.due = p.due /\ q.told = p.told
        /\ q.inst = p.inst /\ q.pc = "done" /\ q.out = "ok"
    BY <1>2 DEF Rpc
  <1> HIDE DEF q
  <1>6. watching' = acked' /\ acked' \subseteq ActorNames \X ActorNames /\ acked \subseteq acked'
    <2>1. pair \in ActorNames \X ActorNames
      BY <1>1, <1>2 DEF RpcOK
    <2>2. watching = acked /\ acked \subseteq ActorNames \X ActorNames
      BY NodeParts
    <2> HIDE DEF pair
    <2> QED
      BY <1>1, <2>1, <2>2
  <1>7. \A s \in Rpcs : NamesOK(rpc[s], actorOf, acked')
    <2>1. \A s \in Rpcs : NamesOK(rpc[s], actorOf, acked)
      BY NodeParts
    <2> QED
      BY <1>6, <2>1 DEF NamesOK, WatchUnderName
  <1>8. NamesOK(q, actorOf, acked')
    BY <1>1, <1>5, <1>7 DEF NamesOK, WatchUnderName, Spawned, Stops
  <1>9. ASSUME NEW s \in Rpcs, s # r, Spawned(rpc[s]) PROVE rpc[s].inst \notin Knows(q)
    <2>1. rpc[s].inst \notin Knows(p)
      BY <1>9 DEF NodeInv, NodeStateOK, FreshOK
    <2> QED
      BY <1>1, <1>5, <2>1 DEF Knows, Spawned
  <1>10. ~Spawned(q)
    BY <1>5 DEF Spawned
  <1>11. /\ emitted' \in [EventTypes -> Nat]
         /\ emitted'["actor_spawned"] = emitted["actor_spawned"]
         /\ emitted'["actor_stopped"] = emitted["actor_stopped"]
    BY <1>1, EmitOther DEF EventTypes
  <1>12. NodeStateOK'
    BY <1>1, <1>3, <1>4, <1>6, <1>7, <1>8, <1>9, <1>10, <1>11, NodeParts, StateKeeps
  <1>13. Those(rpc', Uncounts) = Those(rpc, Uncounts) /\ Those(rpc', Unstops) = Those(rpc, Unstops)
    <2>1. /\ Turns(Those(rpc, Uncounts), Those(rpc', Uncounts), r, Uncounts(p), Uncounts(q))
          /\ Turns(Those(rpc, Unstops), Those(rpc', Unstops), r, Unstops(p), Unstops(q))
      BY <1>2, <1>3, <1>4, ThoseChange
    <2>2. ~Uncounts(p) /\ ~Uncounts(q) /\ ~Unstops(p) /\ ~Unstops(q)
      BY <1>1, <1>5 DEF Uncounts, Unstops, Stops
    <2> QED
      BY <2>1, <2>2 DEF Turns
  <1>14. AccountsOK'
    <2>1. ~Entered(p) /\ ~Entered(q)
      BY <1>1, <1>5 DEF Entered
    <2>2. Those(rpc', Entered) = Those(rpc, Entered) /\ Begun(rpc, emitted)' = Begun(rpc, emitted)
      BY <1>3, <1>4, <1>11, <2>1, BegunStays
    <2> QED
      BY <1>1, <1>11, <1>13, <2>2, NodeParts DEF AccountsOK
  <1> QED
    BY <1>12, <1>14 DEF NodeInv

LEMMA EndsKeeps ==
    ASSUME NodeInv, NEW i \in DOMAIN life, CounterEnds(i)
    PROVE  NodeInv'
  <1>1. /\ life' = [life EXCEPT ![i] = "dead"]
        /\ UNCHANGED <<actorOf, watching, liveCount, rpc, emitted, acked>>
    BY DEF CounterEnds
  <1>2. life \in Seq({"alive", "stopping", "dead"}) /\ i \in 1..Len(life)
    BY DEF NodeInv, NodeStateOK, NodeType
  <1>3. /\ life' \in Seq({"alive", "stopping", "dead"}) /\ Len(life') = Len(life)
        /\ \A j \in 1..Len(life) : life'[j] = life[j] \/ life'[j] = "dead"
    BY <1>1, <1>2
  <1>4. \A s \in Rpcs : RpcOK(rpc[s], life')
    <2> SUFFICES ASSUME NEW s \in Rpcs PROVE RpcOK(rpc[s], life')
      OBVIOUS
    <2>1. RpcOK(rpc[s], life)
      BY DEF NodeInv, NodeStateOK
    <2>2. rpc[s].inst # 0 => rpc[s].inst \in 1..Len(life)
      BY <2>1 DEF RpcOK
    <2> QED
      BY <1>3, <2>1, <2>2 DEF RpcOK
  <1>5. NodeType'
    BY <1>1, <1>3 DEF NodeInv, NodeStateOK, NodeType
  <1>6. NodeStateOK'
    BY <1>1, <1>4, <1>5 DEF NodeInv, NodeStateOK
  <1> QED
    BY <1>1, <1>6 DEF NodeInv, AccountsOK

LEMMA NodeStepKeeps ==
    ASSUME NodeInv, [TestNodeNext]_nodevars
    PROVE  NodeInv'
  <1>1. CASE UNCHANGED nodevars
    <2>1. UNCHANGED <<actorOf, watching, liveCount, life, rpc, emitted, acked>>
      BY <1>1 DEF nodevars
    <2> QED
      BY <2>1 DEF NodeInv, NodeStateOK, NodeType, AccountsOK
  <1>2. CASE NodeStep
    BY <1>2, ServiceKeeps, SpawnsKeeps, InsertsKeeps, AnnouncesKeeps, MessageKeeps, AskActorKeeps, RemovesKeeps,
       PollsKeeps, LocksKeeps, NotifiesKeeps, EntersKeeps DEF NodeStep
  <1> QED
    BY <1>1, <1>2, BeginsKeeps, MessageKeeps, DroppedKeeps, EndsKeeps DEF TestNodeNext

LEMMA NodeInitially ==
    ASSUME TestNodeInit
    PROVE  NodeInv
  <1>1. /\ actorOf = [n \in ActorNames |-> 0] /\ watching = {} /\ acked = {} /\ liveCount = 0
        /\ life = <<>> /\ rpc = [r \in Rpcs |-> NewRpc] /\ emitted = [t \in EventTypes |-> 0]
    BY DEF TestNodeInit, HandlerInit
  <1>2. NewRpc \in Rpc
    BY DEF NewRpc, Rpc, KnownOps, KnownNames, RpcPcs, RpcOuts
  <1>3. /\ NewRpc.op = "none" /\ NewRpc.pc = "idle" /\ NewRpc.inst = 0 /\ NewRpc.out = "none"
        /\ NewRpc.due = {} /\ NewRpc.told = {}
    BY DEF NewRpc
  <1> HIDE DEF NewRpc
  <1>4. Len(life) = 0 /\ life \in Seq({"alive", "stopping", "dead"})
    BY <1>1
  <1>5. actorOf \in [ActorNames -> 0..Len(life)] /\ rpc \in [Rpcs -> Rpc] /\ emitted \in [EventTypes -> Nat]
    BY <1>1, <1>2, <1>4
  <1>6. RpcOK(NewRpc, life) /\ NamesOK(NewRpc, actorOf, acked)
    BY <1>3, <1>4 DEF RpcOK, NamesOK, WatchUnderName, Spawned, Stops
  <1>7. FreshOK(rpc) /\ OwnFresh(rpc) /\ Injective(actorOf)
    BY <1>1, <1>3 DEF FreshOK, OwnFresh, Injective, Spawned
  <1>8. NodeStateOK
    <2>1. NodeType
      BY <1>1, <1>4, <1>5 DEF NodeType
    <2> QED
      BY <1>1, <1>6, <1>7, <2>1 DEF NodeStateOK
  <1>9. Named(actorOf) = {} /\ Those(rpc, Uncounts) = {} /\ Those(rpc, Unstops) = {} /\ Those(rpc, Entered) = {}
    BY <1>1, <1>3 DEF Named, Those, Uncounts, Unstops, Stops, Entered
  <1>10. AccountsOK
    <2>1. emitted["actor_spawned"] = 0 /\ emitted["actor_stopped"] = 0
      BY <1>1 DEF EventTypes
    <2>2. IsFiniteSet({}) /\ Cardinality({}) = 0
      BY FS_EmptySet
    <2>3. 0 = Cardinality({}) + Cardinality({}) /\ 0 = 0 + Cardinality({}) + Cardinality({})
      BY <2>2
    <2>4. Balanced(0, 0, 0, {}, {}, {})
      BY <2>2, <2>3 DEF Balanced
    <2>5. liveCount = 0
      BY <1>1
    <2>6. Begun(rpc, emitted) = 0
      BY <1>9, <2>1, <2>2 DEF Begun
    <2> QED
      BY <1>9, <2>1, <2>2, <2>4, <2>5, <2>6 DEF AccountsOK
  <1> QED
    BY <1>8, <1>10 DEF NodeInv

\* The invariant holds in every state that Coordination reaches.
LEMMA NodeInvHolds == Spec => []NodeInv
  <1>1. Init => NodeInv
    BY NodeInitially DEF Init
  <1>2. NodeInv /\ [Next]_cvars => NodeInv'
    BY Frame, NodeStepKeeps
  <1> QED
    BY <1>1, <1>2, PTL DEF Spec

\* CommandHandler::live_count, its map of actors and the events the service sends
\* agree, however the calls of any number of clients overlap and are dropped.
THEOREM AccountsStayExact == Spec => []AccountsAreExact
  <1>1. NodeInv => AccountsAreExact
    <2> SUFFICES ASSUME NodeInv PROVE AccountsAreExact
      OBVIOUS
    <2> DEFINE taken == {r \in Rpcs : rpc[r].op = "stop" /\ rpc[r].inst # 0}
    <2>1. Registered = Named(actorOf)
      BY DEF Registered, Named
    <2>2. /\ {r \in taken : rpc[r].pc \in {"polling", "unpolled"}} = Those(rpc, Uncounts)
          /\ {r \in taken : rpc[r].out # "ok"} = Those(rpc, Unstops)
          /\ {r \in Rpcs : At(r, "spawn", "inserted")} = Those(rpc, Entered)
      BY DEF Those, Uncounts, Unstops, Stops, Entered, At
    <2>3. IsInjective(Restrict(actorOf, Registered))
      <3>1. Injective(actorOf) /\ actorOf \in [ActorNames -> 0..Len(life)]
        BY DEF NodeInv, NodeStateOK, NodeType
      <3> QED
        BY <3>1 DEF Injective, IsInjective, Restrict, Registered
    <2>4. /\ liveCount = Cardinality(Named(actorOf)) + Cardinality(Those(rpc, Uncounts))
          /\ emitted["actor_spawned"] + Cardinality(Those(rpc, Entered)) =
                emitted["actor_stopped"] + Cardinality(Named(actorOf)) + Cardinality(Those(rpc, Unstops))
      BY DEF NodeInv, AccountsOK, Balanced, Begun
    <2> QED
      BY <2>1, <2>2, <2>3, <2>4, Zenon DEF AccountsAreExact
  <1> QED
    BY <1>1, NodeInvHolds, PTL

\* CommandHandler::stop_actor: a stop that succeeds has told every watcher whose watch
\* was there before it, and nobody else, although it gives up both locks on the way.
THEOREM WatchersStayTold == Spec => []StopTellsWatchers
  <1>1. NodeInv => StopTellsWatchers
    <2> SUFFICES ASSUME NodeInv, NEW r \in Rpcs, rpc[r].op = "stop", rpc[r].out = "ok"
                 PROVE  /\ life[rpc[r].inst] = "dead"
                        /\ rpc[r].due \cap Range(actorOf) \subseteq rpc[r].told
                        /\ \A n \in Registered : actorOf[n] \in rpc[r].told => <<n, rpc[r].name>> \in acked
      BY DEF StopTellsWatchers
    <2>1. RpcOK(rpc[r], life) /\ NamesOK(rpc[r], actorOf, acked) /\ DOMAIN actorOf = ActorNames
      BY NodeParts
    <2>2. life[rpc[r].inst] = "dead"
      BY <2>1 DEF RpcOK
    <2>3. rpc[r].due \cap Range(actorOf) \subseteq rpc[r].told
      BY <2>1 DEF NamesOK, Range
    <2>4. \A n \in Registered : actorOf[n] \in rpc[r].told => <<n, rpc[r].name>> \in acked
      BY <2>1 DEF NamesOK, WatchUnderName, Registered
    <2> QED
      BY <2>2, <2>3, <2>4
  <1> QED
    BY <1>1, NodeInvHolds, PTL


-----------------------------------------------------------------------------
(***************************************************************************)
(* Worker pools that route round robin.  The counter is N * q + t when     *)
(* every worker has been chosen q times and the first t of them once more; *)
(* an operation in the channel of a router has not been counted yet.       *)
(***************************************************************************)

PoolKinds == {"none", "tell", "keyed", "ask", "stream"}
\* The stages of an operation on a pool that does not look at loads.
EvenStages == {"new", "selected", "delivered", "refused", "dropped", "queued", "lost", "handled", "failed",
               "astray"}
EvenOp == [kind : PoolKinds, stage : EvenStages, w : 0..N, min : {0},
           reply : {"none", "waiting", "ok", "error", "empty"}]

PoolType == pool \in [kind : {"direct", "virtual"}, routing : Routings, counter : Nat, alive : BOOLEAN,
                      router : {"idle", "scanned", "ended"}]

Chosen(c, w) == {o \in Ops : c[o].w = w /\ c[o].kind # "keyed"}

\* After k turns: q rounds and t workers more.
Rounds(k, c, q, t) ==
    /\ k = N * q + t
    /\ \A w \in PoolWorkers : IsFiniteSet(Chosen(c, w)) /\ Cardinality(Chosen(c, w)) = IF w <= t THEN q + 1 ELSE q

Even(k, c) == \E q \in Nat : \E t \in 0..(N - 1) : Rounds(k, c, q, t)

\* What has been sent to the router is not chosen for yet.
Uncounted(x, c) == x \in Ops => c[x].w = 0 /\ c[x].kind # "keyed" /\ c[x].stage # "new"
QueueOK(s, c) ==
    /\ s \in Seq(Ops \cup {"stop"})
    /\ \A i \in 1..Len(s) : Uncounted(s[i], c)
    /\ \A i, j \in 1..Len(s) : (s[i] = s[j] /\ s[i] \in Ops) => i = j

EvenInv ==
    /\ pool.router # "scanned"
    /\ op \in [Ops -> EvenOp]
    /\ \A o \in Ops : op[o].stage = "new" => op[o].w = 0
    /\ QueueOK(queue, op)
    /\ Even(pool.counter, op)

PoolInv == PoolType /\ (pool.routing = "RoundRobin" => EvenInv)

\* The remainder of a turn.
LEMMA Remainder ==
    ASSUME NEW q \in Nat, NEW t \in 0..(N - 1)
    PROVE  (N * q + t) % N = t
  <1>1. N \in Nat \ {0}
    BY PoolAssumption
  <1> QED
    BY <1>1

\* The counts are the same if the choices are.
SameChoices(c, d) == \A o \in Ops : d[o].w = c[o].w /\ (c[o].w # 0 => (d[o].kind = "keyed" <=> c[o].kind = "keyed"))

LEMMA EvenStays ==
    ASSUME NEW k, NEW c, NEW d, Even(k, c), SameChoices(c, d)
    PROVE  Even(k, d)
  <1>1. \A w \in PoolWorkers : w # 0
    BY PoolAssumption DEF PoolWorkers
  <1>2. \A w \in PoolWorkers : Chosen(d, w) = Chosen(c, w)
    BY <1>1 DEF Chosen, SameChoices
  <1>3. PICK q \in Nat, t \in 0..(N - 1) : Rounds(k, c, q, t)
    BY DEF Even
  <1>4. Rounds(k, d, q, t)
    BY <1>2, <1>3 DEF Rounds
  <1> QED
    BY <1>4 DEF Even

\* One operation is given to the worker whose turn it is.
LEMMA EvenTurn ==
    ASSUME NEW k \in Nat, NEW c, NEW d, Even(k, c), NEW o \in Ops, NEW v,
           v = (k % N) + 1, c[o].w = 0, d[o].w = v, d[o].kind # "keyed",
           \A x \in Ops : x # o => d[x] = c[x]
    PROVE  Even(k + 1, d)
  <1>1. PICK q \in Nat, t \in 0..(N - 1) : Rounds(k, c, q, t)
    BY DEF Even
  <1>2. k % N = t /\ v = t + 1 /\ k = N * q + t
    BY <1>1, Remainder DEF Rounds
  <1>3. N \in Nat /\ N # 0 /\ \A w \in PoolWorkers : w # 0 /\ w \in Nat /\ w <= N
    BY PoolAssumption DEF PoolWorkers
  <1>4. Chosen(d, v) = Chosen(c, v) \cup {o} /\ o \notin Chosen(c, v) /\ v # 0 /\ v \in PoolWorkers
    <2>1. v # 0 /\ v \in PoolWorkers
      BY <1>2, <1>3 DEF PoolWorkers
    <2>2. \A x \in Ops : x \in Chosen(d, v) <=> x \in Chosen(c, v) \/ x = o
      BY <2>1 DEF Chosen
    <2>3. Chosen(d, v) \subseteq Ops /\ Chosen(c, v) \subseteq Ops
      BY DEF Chosen
    <2> QED
      BY <2>1, <2>2, <2>3 DEF Chosen
  <1>5. ASSUME NEW w \in PoolWorkers, w # v PROVE Chosen(d, w) = Chosen(c, w)
    <2>1. \A x \in Ops : x \in Chosen(d, w) <=> x \in Chosen(c, w)
      BY <1>3, <1>5 DEF Chosen
    <2>2. Chosen(d, w) \subseteq Ops /\ Chosen(c, w) \subseteq Ops
      BY DEF Chosen
    <2> QED
      BY <2>1, <2>2
  <1>6. \A w \in PoolWorkers : IsFiniteSet(Chosen(c, w)) /\ Cardinality(Chosen(c, w)) = IF w <= t THEN q + 1 ELSE q
    BY <1>1 DEF Rounds
  <1>7. IsFiniteSet(Chosen(d, v)) /\ Cardinality(Chosen(d, v)) = q + 1
    <2>1. IsFiniteSet(Chosen(c, v)) /\ Cardinality(Chosen(c, v)) = q
      BY <1>2, <1>4, <1>6
    <2>2. IsFiniteSet(Chosen(d, v)) /\ Cardinality(Chosen(d, v)) = Cardinality(Chosen(c, v)) + 1
      BY <1>4, <2>1, OneMore
    <2> QED
      BY <2>1, <2>2
  <1>8. \A w \in PoolWorkers : IsFiniteSet(Chosen(d, w)) /\ Cardinality(Chosen(d, w)) = IF w <= t + 1 THEN q + 1 ELSE q
    <2> SUFFICES ASSUME NEW w \in PoolWorkers
                 PROVE  IsFiniteSet(Chosen(d, w)) /\ Cardinality(Chosen(d, w)) = IF w <= t + 1 THEN q + 1 ELSE q
      OBVIOUS
    <2>1. CASE w = v
      BY <1>2, <1>7, <2>1
    <2>2. CASE w # v
      <3>1. w <= t + 1 <=> w <= t
        BY <1>2, <1>3, <2>2
      <3> QED
        BY <1>5, <1>6, <2>2, <3>1
    <2> QED
      BY <2>1, <2>2
  <1>9. CASE t + 1 < N
    <2>1. t + 1 \in 0..(N - 1) /\ k + 1 = N * q + (t + 1)
      BY <1>2, <1>3, <1>9
    <2>2. Rounds(k + 1, d, q, t + 1)
      BY <1>8, <2>1 DEF Rounds
    <2> QED
      BY <2>1, <2>2 DEF Even
  <1>10. CASE t + 1 = N
    <2>1. 0 \in 0..(N - 1) /\ q + 1 \in Nat /\ k + 1 = N * (q + 1) + 0
      BY <1>2, <1>3, <1>10
    <2>2. \A w \in PoolWorkers : IsFiniteSet(Chosen(d, w)) /\ Cardinality(Chosen(d, w)) = IF w <= 0 THEN (q + 1) + 1 ELSE q + 1
      BY <1>3, <1>8, <1>10
    <2>3. Rounds(k + 1, d, q + 1, 0)
      BY <2>1, <2>2 DEF Rounds
    <2> QED
      BY <2>1, <2>3 DEF Even
  <1> QED
    BY <1>3, <1>9, <1>10

LEMMA PoolParts ==
    ASSUME PoolInv, pool.routing = "RoundRobin"
    PROVE  /\ pool \in [kind : {"direct", "virtual"}, routing : Routings, counter : Nat, alive : BOOLEAN,
                        router : {"idle", "scanned", "ended"}]
           /\ pool.counter \in Nat
           /\ pool.router # "scanned"
           /\ op \in [Ops -> EvenOp]
           /\ \A o \in Ops : op[o].stage = "new" => op[o].w = 0
           /\ QueueOK(queue, op)
           /\ Even(pool.counter, op)
  BY DEF PoolInv, PoolType, EvenInv

\* The pool p becomes q, with counter k and a router in state s.
PoolRecord == [kind : {"direct", "virtual"}, routing : Routings, counter : Nat, alive : BOOLEAN,
               router : {"idle", "scanned", "ended"}]
Becomes(p, q, k, s) == q \in PoolRecord /\ q.routing = p.routing /\ q.counter = k /\ q.router = s

LEMMA PoolTurns ==
    ASSUME NEW p \in PoolRecord, NEW k \in Nat, NEW s \in {"idle", "scanned", "ended"}
    PROVE  /\ Becomes(p, [p EXCEPT !.counter = k], k, p.router)
           /\ Becomes(p, [p EXCEPT !.router = s, !.counter = k], k, s)
           /\ Becomes(p, [p EXCEPT !.router = s], p.counter, s)
           /\ Becomes(p, [p EXCEPT !.alive = FALSE], p.counter, p.router)
           /\ Becomes(p, [p EXCEPT !.router = s, !.alive = FALSE], p.counter, s)
           /\ Becomes(p, p, p.counter, p.router)
  BY DEF PoolRecord, Becomes

LEMMA PoolTypeStep ==
    ASSUME PoolType, [PoolNext]_pvars
    PROVE  PoolType' /\ pool'.routing = pool.routing
  <1> DEFINE c == pool.counter
  <1>0. pool \in PoolRecord /\ c \in Nat /\ c + 1 \in Nat /\ pool.router \in {"idle", "scanned", "ended"}
    BY DEF PoolType, PoolRecord
  <1>1. SUFFICES \E k \in Nat : \E s \in {"idle", "scanned", "ended"} : Becomes(pool, pool', k, s)
    BY <1>1 DEF Becomes, PoolType, PoolRecord
  <1>2. CASE UNCHANGED pool
    BY <1>0, <1>2, PoolTurns
  <1>3. CASE pool' = [pool EXCEPT !.counter = c + 1]
    BY <1>0, <1>3, PoolTurns
  <1>4. ASSUME NEW o \in Ops, PoolSelect(o) \/ PoolLeastLoaded(o)
        PROVE  UNCHANGED pool \/ pool' = [pool EXCEPT !.counter = c + 1]
    BY <1>4 DEF PoolSelect, PoolLeastLoaded, Advance
  <1>5. RouterRoute => pool' = [pool EXCEPT !.counter = c + 1]
    BY DEF RouterRoute
  <1>6. CASE RouterScan
    BY <1>0, <1>6, PoolTurns DEF RouterScan
  <1>7. CASE RouterLeastLoaded
    <2>1. \/ pool' = [pool EXCEPT !.router = "ended"]
          \/ pool' = [pool EXCEPT !.router = "idle", !.counter = c]
          \/ pool' = [pool EXCEPT !.router = "idle", !.counter = c + 1]
      BY <1>7 DEF RouterLeastLoaded
    <2> QED
      BY <1>0, <2>1, PoolTurns
  <1>8. CASE RouterStop
    BY <1>0, <1>8, PoolTurns DEF RouterStop
  <1>9. CASE VirtualStop
    BY <1>0, <1>9, PoolTurns DEF VirtualStop
  <1>10. ASSUME NEW o \in Ops, PoolDeliver(o) \/ PoolScan(o) \/ VirtualSend(o) PROVE UNCHANGED pool
    BY <1>10 DEF PoolDeliver, PoolScan, VirtualSend
  <1>11. ASSUME NEW w \in PoolWorkers,
                WorkerHandles(w) \/ WorkerEnds(w) \/ EnvelopeEnds(w) \/ RemoteWorkerEnds(w)
         PROVE  UNCHANGED pool
    BY <1>11 DEF WorkerHandles, WorkerEnds, EnvelopeEnds, RemoteWorkerEnds
  <1>12. PoolStop \/ UNCHANGED pvars => UNCHANGED pool
    BY DEF PoolStop, pvars
  <1> HIDE DEF c
  <1> QED
    BY <1>2, <1>3, <1>4, <1>5, <1>6, <1>7, <1>8, <1>9, <1>10, <1>11, <1>12 DEF PoolNext, PoolStep

\* The operations go on without a choice, and the router's channel as it may.
LEMMA ChoicesStay ==
    ASSUME PoolInv, pool.routing = "RoundRobin", PoolType', pool'.routing = pool.routing,
           pool'.router # "scanned", pool'.counter = pool.counter,
           op' \in [Ops -> EvenOp], SameChoices(op, op'), \A o \in Ops : op'[o].stage = "new" => op[o].stage = "new",
           QueueOK(queue', op')
    PROVE  PoolInv'
  <1>1. Even(pool'.counter, op')
    BY PoolParts, EvenStays
  <1>2. \A o \in Ops : op'[o].stage = "new" => op'[o].w = 0
    BY PoolParts DEF SameChoices
  <1> QED
    BY <1>1, <1>2 DEF PoolInv, EvenInv

\* What a step does that lets the operations go on in their stages and replies.
GoesOn(c, d) ==
    /\ d \in [Ops -> EvenOp]
    /\ \A o \in Ops : d[o].w = c[o].w /\ d[o].kind = c[o].kind /\ (d[o].stage = "new" => c[o].stage = "new")

LEMMA GoesOnKeeps ==
    ASSUME PoolInv, pool.routing = "RoundRobin", PoolType', pool'.routing = pool.routing,
           pool'.router # "scanned", pool'.counter = pool.counter, GoesOn(op, op'), queue' \in {queue, <<>>}
    PROVE  PoolInv'
  <1>1. SameChoices(op, op')
    BY DEF GoesOn, SameChoices
  <1>2. QueueOK(queue', op')
    <2>1. QueueOK(queue, op)
      BY PoolParts
    <2>2. CASE queue' = queue
      BY <2>1, <2>2 DEF QueueOK, Uncounted, GoesOn
    <2>3. CASE queue' = <<>>
      BY <2>3 DEF QueueOK
    <2> QED
      BY <2>2, <2>3
  <1> QED
    BY <1>1, <1>2, ChoicesStay DEF GoesOn

\* One operation x goes on.
LEMMA OneGoesOn ==
    ASSUME NEW c \in [Ops -> EvenOp], NEW x, NEW s \in EvenStages, s # "new",
           NEW r \in {"none", "waiting", "ok", "error", "empty"}, NEW d,
           d = [c EXCEPT ![x] = [c[x] EXCEPT !.stage = s, !.reply = r]]
    PROVE  GoesOn(c, d)
  <1>1. CASE x \in Ops
    <2> DEFINE e == [c[x] EXCEPT !.stage = s, !.reply = r]
    <2>1. e \in EvenOp /\ e.w = c[x].w /\ e.kind = c[x].kind /\ e.stage = s
      BY <1>1 DEF EvenOp
    <2>2. d = [c EXCEPT ![x] = e]
      OBVIOUS
    <2> HIDE DEF e
    <2> QED
      BY <2>1, <2>2 DEF GoesOn
  <1>2. CASE x \notin Ops
    <2>1. d = c
      BY <1>2
    <2> QED
      BY <2>1 DEF GoesOn
  <1> QED
    BY <1>1, <1>2

\* The requests of os fail.
LEMMA DropGoesOn ==
    ASSUME op \in [Ops -> EvenOp], NEW os
    PROVE  GoesOn(op, DropRequests(os))
  <1>1. ASSUME NEW o \in Ops
        PROVE  /\ [op[o] EXCEPT !.reply = "error"] \in EvenOp
               /\ [op[o] EXCEPT !.reply = "error"].w = op[o].w /\ [op[o] EXCEPT !.reply = "error"].kind = op[o].kind
               /\ [op[o] EXCEPT !.reply = "error"].stage = op[o].stage
    BY DEF EvenOp
  <1> QED
    BY <1>1 DEF GoesOn, DropRequests

\* What a bridge makes of operation o.
LEMMA BridgeGoesOn ==
    ASSUME op \in [Ops -> EvenOp], NEW o \in Ops
    PROVE  /\ BridgeFails(o) \in EvenOp /\ BridgeFails(o).w = op[o].w /\ BridgeFails(o).kind = op[o].kind
           /\ BridgeFails(o).stage = "lost"
  <1> DEFINE r == CASE op[o].kind = "ask" -> "error" [] op[o].kind = "stream" -> "empty" [] OTHER -> op[o].reply
  <1>1. r \in {"none", "waiting", "ok", "error", "empty"}
    BY DEF EvenOp
  <1>2. BridgeFails(o) = [op[o] EXCEPT !.stage = "lost", !.reply = r]
    BY DEF BridgeFails
  <1> HIDE DEF r
  <1> QED
    BY <1>1, <1>2 DEF EvenOp, EvenStages

LEMMA SelectKeeps ==
    ASSUME PoolInv, pool.routing = "RoundRobin", NEW o \in Ops, PoolSelect(o), PoolType', pool'.routing = pool.routing
    PROVE  PoolInv'
  <1>1. PICK kind \in OpKinds[o] :
            /\ \E w \in SelectWorker(o, kind) : op' = [op EXCEPT ![o].kind = kind, ![o].stage = "selected", ![o].w = w]
            /\ pool' = Advance(kind)
    BY DEF PoolSelect
  <1>2. PICK w \in SelectWorker(o, kind) : op' = [op EXCEPT ![o].kind = kind, ![o].stage = "selected", ![o].w = w]
    BY <1>1
  <1> DEFINE e == [op[o] EXCEPT !.kind = kind, !.stage = "selected", !.w = w]
  <1>3. op' = [op EXCEPT ![o] = e] /\ op \in [Ops -> EvenOp] /\ op[o].stage = "new" /\ op[o].w = 0 /\ UNCHANGED queue
    BY <1>2, PoolParts DEF PoolSelect
  <1>4. kind \in PoolKinds /\ w \in 0..N /\ N \in Nat
    <2>1. kind \in PoolKinds /\ N \in Nat \ {0} /\ Key[o] \in Nat
      BY PoolAssumption DEF PoolKinds
    <2>2. (pool.counter % N) + 1 \in 0..N /\ (Key[o] % N) + 1 \in 0..N
      BY <2>1, PoolParts
    <2> QED
      BY <2>1, <2>2 DEF SelectWorker, KeyedIndex, RoundRobinIndex
  <1>5. e \in EvenOp /\ e.kind = kind /\ e.stage = "selected" /\ e.w = w
    BY <1>3, <1>4 DEF EvenOp, EvenStages
  <1> HIDE DEF e
  <1>6. op' \in [Ops -> EvenOp] /\ \A x \in Ops : op'[x] = IF x = o THEN e ELSE op[x]
    BY <1>3, <1>5
  <1>7. QueueOK(queue', op')
    <2>1. QueueOK(queue, op)
      BY PoolParts
    <2>2. \A i \in 1..Len(queue) : queue[i] # o
      BY <1>3, <2>1 DEF QueueOK, Uncounted
    <2> QED
      BY <1>3, <1>6, <2>1, <2>2 DEF QueueOK, Uncounted
  <1>8. \A x \in Ops : op'[x].stage = "new" => op'[x].w = 0
    BY <1>5, <1>6, PoolParts
  <1>9. CASE kind = "keyed"
    <2>1. pool' = pool
      BY <1>1, <1>9 DEF Advance
    <2>2. Even(pool.counter, op')
      <3>1. PICK q \in Nat, t \in 0..(N - 1) : Rounds(pool.counter, op, q, t)
        BY PoolParts DEF Even
      <3>2. \A v \in PoolWorkers : v # 0
        BY PoolAssumption DEF PoolWorkers
      <3>3. \A v \in PoolWorkers : Chosen(op', v) = Chosen(op, v)
        BY <1>3, <1>5, <1>6, <1>9, <3>2 DEF Chosen
      <3>4. Rounds(pool.counter, op', q, t)
        BY <3>1, <3>3 DEF Rounds
      <3> QED
        BY <3>4 DEF Even
    <2> QED
      BY <1>6, <1>7, <1>8, <2>1, <2>2, PoolParts DEF PoolInv, EvenInv
  <1>10. CASE kind # "keyed"
    <2> DEFINE k == pool.counter + 1
    <2>1. pool' = [pool EXCEPT !.counter = k] /\ k \in Nat /\ pool \in PoolRecord
      BY <1>1, <1>10, PoolParts DEF Advance, PoolRecord
    <2>2. Becomes(pool, pool', k, pool.router)
      BY <2>1, PoolTurns
    <2>3. w = (pool.counter % N) + 1
      BY <1>10 DEF SelectWorker, RoundRobinIndex
    <2>4. Even(k, op')
      <3>1. op'[o].w = w /\ op'[o].kind # "keyed" /\ \A x \in Ops : x # o => op'[x] = op[x]
        BY <1>5, <1>6, <1>10
      <3>2. Even(pool.counter, op) /\ pool.counter \in Nat
        BY PoolParts
      <3>3. op[o].w = 0
        BY <1>3
      <3> QED
        BY <2>3, <3>1, <3>2, <3>3, EvenTurn
    <2>5. pool'.counter = k /\ pool'.router # "scanned"
      BY <2>2, PoolParts DEF Becomes
    <2> HIDE DEF k
    <2> QED
      BY <1>6, <1>7, <1>8, <2>4, <2>5 DEF PoolInv, EvenInv
  <1> QED
    BY <1>9, <1>10

LEMMA DeliverKeeps ==
    ASSUME PoolInv, pool.routing = "RoundRobin", NEW o \in Ops, PoolDeliver(o), PoolType', pool'.routing = pool.routing
    PROVE  PoolInv'
  <1>1. UNCHANGED <<pool, queue>> /\ op \in [Ops -> EvenOp] /\ pool.router # "scanned"
    BY PoolParts DEF PoolDeliver
  <1>2. op[o].reply \in {"none", "waiting", "ok", "error", "empty"} /\ Expects(op[o].kind) \in {"none", "waiting"}
    BY <1>1 DEF EvenOp, Expects
  <1>3. PICK s \in {"delivered", "refused", "dropped"}, r \in {"none", "waiting", "ok", "error", "empty"} :
            op' = [op EXCEPT ![o] = [op[o] EXCEPT !.stage = s, !.reply = r]]
    <2>1. PICK s \in SendOutcomes(op[o].w, op[o].kind) :
              op' = [op EXCEPT ![o].stage = s,
                               ![o].reply = IF s = "delivered" THEN Expects(op[o].kind) ELSE @]
      BY DEF PoolDeliver
    <2> DEFINE r == IF s = "delivered" THEN Expects(op[o].kind) ELSE op[o].reply
    <2>2. s \in {"delivered", "refused", "dropped"}
      BY <2>1 DEF SendOutcomes
    <2>3. r \in {"none", "waiting", "ok", "error", "empty"}
      BY <1>2
    <2>4. op' = [op EXCEPT ![o] = [op[o] EXCEPT !.stage = s, !.reply = r]]
      BY <1>1, <2>1
    <2> QED
      BY <2>2, <2>3, <2>4
  <1>4. s \in EvenStages /\ s # "new"
    BY DEF EvenStages
  <1>5. GoesOn(op, op')
    BY <1>1, <1>3, <1>4, OneGoesOn
  <1> QED
    BY <1>1, <1>5, GoesOnKeeps

LEMMA WorkersKeep ==
    ASSUME PoolInv, pool.routing = "RoundRobin", PoolType', pool'.routing = pool.routing,
           PoolStop \/ \E w \in PoolWorkers :
              WorkerHandles(w) \/ WorkerEnds(w) \/ EnvelopeEnds(w) \/ RemoteWorkerEnds(w)
    PROVE  PoolInv'
  <1>1. UNCHANGED <<pool, queue>> /\ op \in [Ops -> EvenOp] /\ pool.router # "scanned"
    BY PoolParts DEF PoolStop, WorkerHandles, WorkerEnds, EnvelopeEnds, RemoteWorkerEnds
  <1>2. CASE PoolStop
    BY <1>1, <1>2, DropGoesOn, GoesOnKeeps DEF PoolStop
  <1>3. ASSUME NEW w \in PoolWorkers, WorkerEnds(w) PROVE PoolInv'
    BY <1>1, <1>3, DropGoesOn, GoesOnKeeps DEF WorkerEnds
  <1>4. ASSUME NEW w \in PoolWorkers, WorkerHandles(w) PROVE PoolInv'
    <2> DEFINE o == Head(wk[w].box)
               r == IF op[o].reply = "waiting" THEN "ok" ELSE op[o].reply
    <2>1. op' = [op EXCEPT ![o].stage = "handled", ![o].reply = IF @ = "waiting" THEN "ok" ELSE @]
      BY <1>4 DEF WorkerHandles
    <2>2. op' = [op EXCEPT ![o] = [op[o] EXCEPT !.stage = "handled", !.reply = r]]
      <3> HIDE DEF o
      <3> QED
        BY <1>1, <2>1
    <2> HIDE DEF o
    <2>3. GoesOn(op, op')
      <3>1. CASE o \in Ops
        <4>1. r \in {"none", "waiting", "ok", "error", "empty"} /\ "handled" \in EvenStages
          BY <1>1, <3>1 DEF EvenOp, EvenStages
        <4> HIDE DEF r
        <4> QED
          BY <1>1, <2>2, <4>1, OneGoesOn
      <3>2. CASE o \notin Ops
        <4>1. op' = op
          BY <1>1, <2>2, <3>2
        <4> QED
          BY <1>1, <4>1 DEF GoesOn
      <3> QED
        BY <3>1, <3>2
    <2> QED
      BY <1>1, <2>3, GoesOnKeeps
  <1>5. ASSUME NEW w \in PoolWorkers, EnvelopeEnds(w) PROVE PoolInv'
    <2>1. PICK i \in DOMAIN wk[w].box, stage \in {"failed", "handled", "astray"}, answer \in {"ok", "error"} :
              op' = [op EXCEPT ![wk[w].box[i]].stage = stage,
                               ![wk[w].box[i]].reply = IF @ = "waiting" /\ stage # "astray" THEN answer ELSE @]
      BY <1>5 DEF EnvelopeEnds
    <2> DEFINE o == wk[w].box[i]
               r == IF op[o].reply = "waiting" /\ stage # "astray" THEN answer ELSE op[o].reply
    <2>2. op' = [op EXCEPT ![o] = [op[o] EXCEPT !.stage = stage, !.reply = r]]
      <3>1. op' = [op EXCEPT ![o].stage = stage,
                             ![o].reply = IF @ = "waiting" /\ stage # "astray" THEN answer ELSE @]
        BY <2>1
      <3> HIDE DEF o
      <3> QED
        BY <1>1, <3>1
    <2> HIDE DEF o
    <2>3. GoesOn(op, op')
      <3>1. CASE o \in Ops
        <4>1. r \in {"none", "waiting", "ok", "error", "empty"} /\ stage \in EvenStages /\ stage # "new"
          BY <1>1, <3>1 DEF EvenOp, EvenStages
        <4> HIDE DEF r
        <4> QED
          BY <1>1, <2>2, <4>1, OneGoesOn
      <3>2. CASE o \notin Ops
        <4>1. op' = op
          BY <1>1, <2>2, <3>2
        <4> QED
          BY <1>1, <4>1 DEF GoesOn
      <3> QED
        BY <3>1, <3>2
    <2> QED
      BY <1>1, <2>3, GoesOnKeeps
  <1>6. ASSUME NEW w \in PoolWorkers, RemoteWorkerEnds(w) PROVE PoolInv'
    <2>1. op' = op
      BY <1>6 DEF RemoteWorkerEnds
    <2>2. GoesOn(op, op')
      BY <1>1, <2>1 DEF GoesOn
    <2> QED
      BY <1>1, <2>2, GoesOnKeeps
  <1> QED
    BY <1>2, <1>3, <1>4, <1>5, <1>6

LEMMA VirtualKeeps ==
    ASSUME PoolInv, pool.routing = "RoundRobin", PoolType', pool'.routing = pool.routing,
           VirtualStop \/ \E o \in Ops : VirtualSend(o)
    PROVE  PoolInv'
  <1>1. op \in [Ops -> EvenOp] /\ pool.router # "scanned" /\ QueueOK(queue, op)
    BY PoolParts
  <1>2. CASE VirtualStop
    <2>1. op' = op /\ queue' \in {queue, Append(queue, "stop")} /\ pool' = [pool EXCEPT !.alive = FALSE]
      BY <1>2 DEF VirtualStop
    <2>2. pool'.counter = pool.counter /\ pool'.router = pool.router
      <3>1. pool \in PoolRecord
        BY PoolParts DEF PoolRecord
      <3>2. Becomes(pool, pool', pool.counter, pool.router)
        BY <2>1, <3>1, PoolTurns DEF PoolRecord
      <3> QED
        BY <3>2 DEF Becomes
    <2>3. QueueOK(queue', op')
      <3>1. CASE queue' = queue
        BY <1>1, <2>1, <3>1
      <3>2. CASE queue' = Append(queue, "stop")
        <4>1. "stop" \notin Ops
          BY PoolAssumption
        <4>2. /\ queue' \in Seq(Ops \cup {"stop"}) /\ Len(queue') = Len(queue) + 1 /\ Len(queue) \in Nat
              /\ \A i \in 1..Len(queue) : queue'[i] = queue[i]
              /\ queue'[Len(queue) + 1] = "stop"
          BY <1>1, <3>2 DEF QueueOK
        <4>3. \A i \in 1..Len(queue') : i \in 1..Len(queue) \/ i = Len(queue) + 1
          BY <4>2
        <4>4. \A i \in 1..Len(queue') : queue'[i] \in Ops => i \in 1..Len(queue)
          BY <4>1, <4>2, <4>3
        <4>5. \A i \in 1..Len(queue') : Uncounted(queue'[i], op)
          BY <1>1, <4>2, <4>4 DEF QueueOK, Uncounted
        <4>6. \A i, j \in 1..Len(queue') : (queue'[i] = queue'[j] /\ queue'[i] \in Ops) => i = j
          BY <1>1, <4>2, <4>4 DEF QueueOK
        <4> QED
          BY <2>1, <4>2, <4>5, <4>6 DEF QueueOK
      <3> QED
        BY <2>1, <3>1, <3>2
    <2>4. SameChoices(op, op')
      BY <2>1 DEF SameChoices
    <2> QED
      BY <1>1, <2>1, <2>2, <2>3, <2>4, ChoicesStay
  <1>3. ASSUME NEW o \in Ops, VirtualSend(o) PROVE PoolInv'
    <2>1. UNCHANGED pool /\ op[o].stage = "new" /\ op[o].w = 0
      BY <1>3, PoolParts DEF VirtualSend
    <2>2. \A i \in 1..Len(queue) : queue[i] # o
      BY <1>1, <2>1 DEF QueueOK, Uncounted
    <2>3. ASSUME op' = [op EXCEPT ![o].stage = "refused"], UNCHANGED queue PROVE PoolInv'
      <3>1. op[o].reply \in {"none", "waiting", "ok", "error", "empty"} /\ "refused" \in EvenStages
        BY <1>1 DEF EvenOp, EvenStages
      <3>2. [op[o] EXCEPT !.stage = "refused"] = [op[o] EXCEPT !.stage = "refused", !.reply = op[o].reply]
        BY <1>1 DEF EvenOp
      <3>3. op' = [op EXCEPT ![o] = [op[o] EXCEPT !.stage = "refused", !.reply = op[o].reply]]
        BY <1>1, <2>3, <3>2
      <3>4. GoesOn(op, op')
        BY <1>1, <3>1, <3>3, OneGoesOn
      <3> QED
        BY <1>1, <2>1, <2>3, <3>4, GoesOnKeeps
    <2>4. ASSUME NEW kind \in OpKinds[o] \ {"keyed"}, queue' = Append(queue, o),
                 op' = [op EXCEPT ![o].kind = kind, ![o].stage = "queued", ![o].reply = Expects(kind)]
          PROVE  PoolInv'
      <3> DEFINE e == [op[o] EXCEPT !.kind = kind, !.stage = "queued", !.reply = Expects(kind)]
      <3>1. op' = [op EXCEPT ![o] = e]
        BY <1>1, <2>4
      <3>2. kind \in PoolKinds /\ Expects(kind) \in {"none", "waiting"}
        BY PoolAssumption DEF PoolKinds, Expects
      <3>3. e \in EvenOp /\ e.kind = kind /\ e.stage = "queued" /\ e.w = 0
        BY <1>1, <2>1, <3>2 DEF EvenOp, EvenStages
      <3> HIDE DEF e
      <3>4. op' \in [Ops -> EvenOp] /\ \A x \in Ops : op'[x] = IF x = o THEN e ELSE op[x]
        BY <1>1, <3>1, <3>3
      <3>5. SameChoices(op, op') /\ \A x \in Ops : op'[x].stage = "new" => op[x].stage = "new"
        BY <2>1, <3>3, <3>4 DEF SameChoices
      <3>6. /\ queue' \in Seq(Ops \cup {"stop"}) /\ Len(queue') = Len(queue) + 1 /\ Len(queue) \in Nat
            /\ \A i \in 1..Len(queue) : queue'[i] = queue[i]
            /\ queue'[Len(queue) + 1] = o
        BY <1>1, <2>4 DEF QueueOK
      <3>7. \A i \in 1..Len(queue') : i \in 1..Len(queue) \/ i = Len(queue) + 1
        BY <3>6
      <3>8. \A i \in 1..Len(queue') : Uncounted(queue'[i], op')
        BY <1>1, <2>2, <3>3, <3>4, <3>6, <3>7 DEF QueueOK, Uncounted
      <3>9. \A i, j \in 1..Len(queue') : (queue'[i] = queue'[j] /\ queue'[i] \in Ops) => i = j
        BY <1>1, <2>2, <3>6, <3>7 DEF QueueOK
      <3>10. QueueOK(queue', op')
        BY <3>6, <3>8, <3>9 DEF QueueOK
      <3> QED
        BY <1>1, <2>1, <3>4, <3>5, <3>10, ChoicesStay
    <2> QED
      BY <1>3, <2>3, <2>4 DEF VirtualSend
  <1> QED
    BY <1>2, <1>3

LEMMA RouteKeeps ==
    ASSUME PoolInv, pool.routing = "RoundRobin", PoolType', pool'.routing = pool.routing, RouterRoute
    PROVE  PoolInv'
  <1> DEFINE o == Head(queue)
             k == pool.counter + 1
  <1>1. /\ op \in [Ops -> EvenOp] /\ pool.router # "scanned" /\ QueueOK(queue, op)
        /\ queue # <<>> /\ o # "stop" /\ queue' = Tail(queue) /\ pool' = [pool EXCEPT !.counter = k]
    BY PoolParts DEF RouterRoute, RouterIdle
  <1>2. o \in Ops /\ 1 \in 1..Len(queue) /\ o = queue[1]
    BY <1>1 DEF QueueOK
  <1>3. op[o].w = 0 /\ op[o].kind # "keyed"
    BY <1>1, <1>2 DEF QueueOK, Uncounted
  <1>4. PICK w : w = (pool.counter % N) + 1 /\ HandOver(o, w)
    BY DEF RouterRoute, SelectWorker, RoundRobinIndex
  <1>5. w \in 0..N
    BY <1>4, PoolParts, PoolAssumption
  <1>6. PICK e \in EvenOp : op' = [op EXCEPT ![o] = e] /\ e.w = w /\ e.kind = op[o].kind /\ e.stage # "new"
    <2>0. PICK r \in {"delivered", "refused", "dropped"} :
              op' = [op EXCEPT ![o] = IF r = "refused" THEN [BridgeFails(o) EXCEPT !.w = w]
                                      ELSE [op[o] EXCEPT !.stage = r, !.w = w]]
      <3>1. SendOutcomes(w, op[o].kind) \subseteq {"delivered", "refused", "dropped"}
        BY DEF SendOutcomes
      <3>2. PICK r \in SendOutcomes(w, op[o].kind) :
              op' = [op EXCEPT ![o] = IF r = "refused" THEN [BridgeFails(o) EXCEPT !.w = w]
                                      ELSE [@ EXCEPT !.stage = r, !.w = w]]
        BY <1>4 DEF HandOver
      <3> QED
        BY <1>1, <1>2, <3>1, <3>2
    <2>1. CASE r # "refused"
      <3> DEFINE e == [op[o] EXCEPT !.stage = r, !.w = w]
      <3>1. e \in EvenOp /\ e.w = w /\ e.kind = op[o].kind /\ e.stage # "new"
        BY <1>1, <1>2, <1>5, <2>1 DEF EvenOp, EvenStages
      <3>2. op' = [op EXCEPT ![o] = e]
        BY <2>0, <2>1
      <3> QED
        BY <3>1, <3>2
    <2>2. CASE r = "refused"
      <3> DEFINE f == BridgeFails(o)
                 e == [f EXCEPT !.w = w]
      <3>1. f \in EvenOp /\ f.kind = op[o].kind /\ f.stage = "lost"
        BY <1>1, <1>2, BridgeGoesOn
      <3>2. op' = [op EXCEPT ![o] = e]
        BY <2>0, <2>2
      <3> HIDE DEF f
      <3>3. e \in EvenOp /\ e.w = w /\ e.kind = op[o].kind /\ e.stage # "new"
        BY <1>5, <3>1 DEF EvenOp
      <3> QED
        BY <3>2, <3>3
    <2> QED
      BY <2>1, <2>2
  <1>7. op' \in [Ops -> EvenOp] /\ \A x \in Ops : op'[x] = IF x = o THEN e ELSE op[x]
    BY <1>1, <1>2, <1>6
  <1>8. Even(k, op')
    <2>1. op'[o].w = w /\ op'[o].kind # "keyed" /\ \A x \in Ops : x # o => op'[x] = op[x]
      BY <1>2, <1>3, <1>6, <1>7
    <2>2. Even(pool.counter, op) /\ pool.counter \in Nat
      BY PoolParts
    <2> QED
      BY <1>2, <1>3, <1>4, <2>1, <2>2, EvenTurn
  <1>9. \A x \in Ops : op'[x].stage = "new" => op'[x].w = 0
    BY <1>6, <1>7, PoolParts
  <1>10. QueueOK(queue', op')
    <2>1. /\ queue' \in Seq(Ops \cup {"stop"}) /\ Len(queue') = Len(queue) - 1 /\ Len(queue) \in Nat
          /\ \A i \in 1..Len(queue') : i + 1 \in 1..Len(queue) /\ queue'[i] = queue[i + 1] /\ i + 1 # 1
      BY <1>1 DEF QueueOK
    <2>2. \A i \in 1..Len(queue') : queue'[i] # o
      BY <1>1, <1>2, <2>1 DEF QueueOK
    <2>3. \A i \in 1..Len(queue') : Uncounted(queue'[i], op')
      BY <1>1, <1>7, <2>1, <2>2 DEF QueueOK, Uncounted
    <2>4. \A i, j \in 1..Len(queue') : (queue'[i] = queue'[j] /\ queue'[i] \in Ops) => i = j
      <3> SUFFICES ASSUME NEW i \in 1..Len(queue'), NEW j \in 1..Len(queue'), queue'[i] = queue'[j], queue'[i] \in Ops
                   PROVE  i = j
        OBVIOUS
      <3>1. i + 1 = j + 1
        BY <1>1, <2>1 DEF QueueOK
      <3> QED
        BY <3>1
    <2> QED
      BY <2>1, <2>3, <2>4 DEF QueueOK
  <1>11. pool'.counter = k /\ pool'.router # "scanned"
    <2>1. pool \in PoolRecord /\ k \in Nat /\ pool.router \in {"idle", "scanned", "ended"}
      BY PoolParts DEF PoolRecord
    <2>2. Becomes(pool, pool', k, pool.router)
      BY <1>1, <2>1, PoolTurns
    <2> QED
      BY <1>1, <2>2 DEF Becomes
  <1> HIDE DEF k
  <1> QED
    BY <1>7, <1>8, <1>9, <1>10, <1>11 DEF PoolInv, EvenInv

LEMMA RouterStopKeeps ==
    ASSUME PoolInv, pool.routing = "RoundRobin", PoolType', pool'.routing = pool.routing, RouterStop
    PROVE  PoolInv'
  <1>1. /\ op \in [Ops -> EvenOp] /\ queue' = <<>> /\ pool' = [pool EXCEPT !.router = "ended", !.alive = FALSE]
    BY PoolParts DEF RouterStop
  <1>2. pool'.counter = pool.counter /\ pool'.router = "ended"
    <2>1. pool \in PoolRecord /\ pool.counter \in Nat
      BY PoolParts DEF PoolRecord
    <2>2. Becomes(pool, pool', pool.counter, "ended")
      BY <1>1, <2>1, PoolTurns
    <2> QED
      BY <2>2 DEF Becomes
  <1> DEFINE rest == DropQueue(Tail(queue))
             drop == DropRequests(InBoxes)
  <1>3. GoesOn(op, drop)
    BY <1>1, DropGoesOn
  <1>4. GoesOn(op, rest)
    <2>1. \A o \in Ops : /\ BridgeFails(o) \in EvenOp /\ BridgeFails(o).w = op[o].w /\ BridgeFails(o).kind = op[o].kind
                         /\ BridgeFails(o).stage # "new"
      BY <1>1, BridgeGoesOn
    <2> QED
      BY <1>1, <2>1 DEF GoesOn, DropQueue
  <1>5. op' = [o \in Ops |-> IF o \in InBoxes THEN drop[o] ELSE rest[o]]
    BY DEF RouterStop
  <1> HIDE DEF rest, drop
  <1>6. GoesOn(op, op')
    BY <1>3, <1>4, <1>5 DEF GoesOn
  <1> QED
    BY <1>1, <1>2, <1>6, GoesOnKeeps

LEMMA PoolStepKeeps ==
    ASSUME PoolInv, [PoolNext]_pvars
    PROVE  PoolInv'
  <1>1. PoolType' /\ pool'.routing = pool.routing
    BY PoolTypeStep DEF PoolInv
  <1>2. CASE pool.routing # "RoundRobin"
    BY <1>1, <1>2 DEF PoolInv
  <1>3. CASE pool.routing = "RoundRobin"
    <2>1. CASE UNCHANGED pvars
      <3>1. UNCHANGED <<pool, op, queue>>
        BY <2>1 DEF pvars
      <3> QED
        BY <3>1 DEF PoolInv, PoolType, EvenInv
    <2>2. \A o \in Ops : ~PoolScan(o) /\ ~PoolLeastLoaded(o)
      <3>1. \A o \in Ops : op[o].stage # "scanned"
        BY <1>3, PoolParts DEF EvenOp, EvenStages
      <3> QED
        BY <1>3, <3>1 DEF PoolScan, PoolLeastLoaded
    <2>3. ~RouterScan /\ ~RouterLeastLoaded
      BY <1>3, PoolParts DEF RouterScan, RouterLeastLoaded
    <2> QED
      BY <1>1, <1>3, <2>1, <2>2, <2>3, SelectKeeps, DeliverKeeps, WorkersKeep, VirtualKeeps, RouteKeeps,
         RouterStopKeeps DEF PoolNext, PoolStep
  <1> QED
    BY <1>2, <1>3

\* PoolRef::select_worker and the router of a virtual pool: the workers of a round
\* robin pool take turns, however many callers select at the same time.
THEOREM RoundRobinStaysEven == Spec => []RoundRobinIsEven
  <1>1. Init => PoolInv
    <2> SUFFICES ASSUME PoolInit PROVE PoolInv
      BY DEF Init
    <2>1. PoolType /\ pool.counter = 0 /\ pool.router = "idle"
      <3>1. {TRUE} \subseteq BOOLEAN
        OBVIOUS
      <3>2. pool \in [kind : {"direct", "virtual"}, routing : Routings, counter : {0}, alive : BOOLEAN, router : {"idle"}]
        BY <3>1, Zenon DEF PoolInit
      <3> QED
        BY <3>2 DEF PoolType
    <2>2. NewOp \in EvenOp /\ NewOp.w = 0 /\ NewOp.stage = "new"
      BY PoolAssumption DEF NewOp, EvenOp, EvenStages, PoolKinds
    <2>3. op = [o \in Ops |-> NewOp] /\ queue = <<>>
      BY DEF PoolInit
    <2>4. op \in [Ops -> EvenOp] /\ \A o \in Ops : op[o].w = 0
      BY <2>2, <2>3
    <2>5. Even(0, op)
      <3>1. \A w \in PoolWorkers : w # 0 /\ w \in Nat /\ ~(w <= 0)
        BY PoolAssumption DEF PoolWorkers
      <3>2. \A w \in PoolWorkers : Chosen(op, w) = {}
        BY <2>4, <3>1 DEF Chosen
      <3>3. IsFiniteSet({}) /\ Cardinality({}) = 0
        BY FS_EmptySet
      <3>4. 0 = N * 0 + 0 /\ 0 \in 0..(N - 1)
        BY PoolAssumption
      <3>5. Rounds(0, op, 0, 0)
        BY <3>1, <3>2, <3>3, <3>4 DEF Rounds
      <3> QED
        BY <3>4, <3>5 DEF Even
    <2>6. QueueOK(queue, op)
      BY <2>3 DEF QueueOK
    <2> QED
      BY <2>1, <2>4, <2>5, <2>6 DEF PoolInv, EvenInv
  <1>2. PoolInv /\ [Next]_cvars => PoolInv'
    BY Frame, PoolStepKeeps
  <1>3. PoolInv => RoundRobinIsEven
    <2> SUFFICES ASSUME PoolInv, pool.routing = "RoundRobin", NEW v \in PoolWorkers, NEW w \in PoolWorkers
                 PROVE  Cardinality(Chosen(op, v)) <= Cardinality(Chosen(op, w)) + 1
      BY DEF RoundRobinIsEven, Chosen
    <2>1. PICK q \in Nat, t \in 0..(N - 1) : Rounds(pool.counter, op, q, t)
      BY PoolParts DEF Even
    <2>2. Cardinality(Chosen(op, v)) \in {q, q + 1} /\ Cardinality(Chosen(op, w)) \in {q, q + 1}
      BY <2>1 DEF Rounds
    <2> QED
      BY <2>2
  <1> QED
    BY <1>1, <1>2, <1>3, PTL DEF Spec

-----------------------------------------------------------------------------
(***************************************************************************)
(* Remote references over their transport.  The parcels at the lock, the   *)
(* batches, the flush, the buffers and the channels are families of item   *)
(* lists; a family is sound if no envelope is in it twice.                 *)
(***************************************************************************)

In(F) == {e \in Envelopes : \E x \in DOMAIN F : \E j \in 1..Len(F[x]) : F[x][j] = e}
Lists(F) == \A x \in DOMAIN F : F[x] \in Seq(Envelopes)
Once(F) == \A x, y \in DOMAIN F : \A j \in 1..Len(F[x]), k \in 1..Len(F[y]) : F[x][j] = F[y][k] => x = y /\ j = k
Sound(F) == Lists(F) /\ Once(F)

\* No envelope is twice in one list.
Single(s) == s \in Seq(Envelopes) /\ \A j, k \in 1..Len(s) : s[j] = s[k] => j = k

LEMMA ToSetIn ==
    ASSUME NEW s \in Seq(Envelopes)
    PROVE  /\ ToSet(s) \subseteq Envelopes
           /\ \A e : e \in ToSet(s) <=> \E j \in 1..Len(s) : s[j] = e
  <1>1. DOMAIN s = 1..Len(s)
    OBVIOUS
  <1> QED
    BY <1>1 DEF ToSet

LEMMA SoundLists ==
    ASSUME NEW F, Sound(F), NEW x \in DOMAIN F
    PROVE  Single(F[x]) /\ ToSet(F[x]) \subseteq In(F)
  <1>1. F[x] \in Seq(Envelopes)
    BY DEF Sound, Lists
  <1>2. Single(F[x])
    BY <1>1 DEF Sound, Once, Single
  <1>3. ToSet(F[x]) \subseteq In(F)
    BY <1>1, ToSetIn DEF In
  <1> QED
    BY <1>2, <1>3

\* G has the list s at x, and else what F has; the lists of G are those of F but the
\* one at x, where they were at old.
Enters(F, G, x, s) == x \notin DOMAIN F /\ DOMAIN G = DOMAIN F \cup {x} /\ (\A y \in DOMAIN F : G[y] = F[y]) /\ G[x] = s
Leaves(F, G, x, old) ==
    /\ \A y \in DOMAIN G : old[y] \in DOMAIN F /\ old[y] # x /\ G[y] = F[old[y]]
    /\ \A y, z \in DOMAIN G : old[y] = old[z] => y = z
    /\ \A z \in DOMAIN F : z # x => \E y \in DOMAIN G : old[y] = z

\* What becomes of the envelopes.
More(F, G, s) == Sound(G) /\ In(G) = In(F) \cup ToSet(s)
Out(F, G, s) == Sound(G) /\ In(G) = In(F) \ ToSet(s)

\* One list more.
LEMMA FamilyMore ==
    ASSUME NEW F, Sound(F), NEW x, NEW s, Single(s), ToSet(s) \cap In(F) = {}, NEW G, Enters(F, G, x, s)
    PROVE  More(F, G, s)
  <1> USE DEF Enters
  <1>1. s \in Seq(Envelopes) /\ ToSet(s) \subseteq Envelopes /\ \A e : e \in ToSet(s) <=> \E j \in 1..Len(s) : s[j] = e
    BY ToSetIn DEF Single
  <1>2. Lists(G)
    BY <1>1 DEF Sound, Lists
  <1>3. ASSUME NEW y \in DOMAIN F, NEW j \in 1..Len(s), NEW k \in 1..Len(F[y]) PROVE s[j] # F[y][k]
    <2>1. F[y][k] \in In(F)
      BY DEF In, Sound, Lists
    <2>2. s[j] \in ToSet(s)
      BY <1>1
    <2> QED
      BY <2>1, <2>2
  <1>4. Once(G)
    <2> SUFFICES ASSUME NEW y \in DOMAIN G, NEW z \in DOMAIN G, NEW j \in 1..Len(G[y]), NEW k \in 1..Len(G[z]), G[y][j] = G[z][k]
                 PROVE  y = z /\ j = k
      BY DEF Once
    <2>1. CASE y = x /\ z = x
      BY <2>1 DEF Single
    <2>2. CASE y = x /\ z # x
      BY <1>3, <2>2
    <2>3. CASE y # x /\ z = x
      BY <1>3, <2>3
    <2>4. CASE y # x /\ z # x
      BY <2>4 DEF Sound, Once
    <2> QED
      BY <2>1, <2>2, <2>3, <2>4
  <1>5. In(G) = In(F) \cup ToSet(s)
    <2>1. \A e \in Envelopes : e \in In(G) <=> e \in In(F) \/ e \in ToSet(s)
      BY <1>1 DEF In
    <2> QED
      BY <1>1, <2>1 DEF In
  <1> QED
    BY <1>2, <1>4, <1>5 DEF Sound, More

\* One list less, the others under new indices.
LEMMA FamilyLess ==
    ASSUME NEW F, Sound(F), NEW x \in DOMAIN F, NEW G, NEW old, Leaves(F, G, x, old)
    PROVE  Out(F, G, F[x])
  <1> USE DEF Leaves
  <1>1. Lists(G)
    BY DEF Sound, Lists
  <1>2. Once(G)
    BY DEF Sound, Once
  <1>3. F[x] \in Seq(Envelopes) /\ \A e : e \in ToSet(F[x]) <=> \E j \in 1..Len(F[x]) : F[x][j] = e
    BY ToSetIn DEF Sound, Lists
  <1>4. ASSUME NEW e \in Envelopes PROVE e \in In(G) <=> e \in In(F) /\ e \notin ToSet(F[x])
    <2>1. ASSUME e \in In(G) PROVE e \in In(F) /\ e \notin ToSet(F[x])
      <3>1. PICK y \in DOMAIN G : \E j \in 1..Len(G[y]) : G[y][j] = e
        BY <2>1 DEF In
      <3>2. PICK j \in 1..Len(G[y]) : G[y][j] = e
        BY <3>1
      <3>3. old[y] \in DOMAIN F /\ old[y] # x /\ j \in 1..Len(F[old[y]]) /\ F[old[y]][j] = e
        BY <3>2
      <3>4. e \in In(F)
        BY <3>3 DEF In
      <3>5. e \notin ToSet(F[x])
        BY <1>3, <3>3 DEF Sound, Once
      <3> QED
        BY <3>4, <3>5
    <2>2. ASSUME e \in In(F), e \notin ToSet(F[x]) PROVE e \in In(G)
      <3>1. PICK z \in DOMAIN F : \E j \in 1..Len(F[z]) : F[z][j] = e
        BY <2>2 DEF In
      <3>2. z # x
        BY <1>3, <2>2, <3>1
      <3>3. PICK y \in DOMAIN G : old[y] = z
        BY <3>2
      <3> QED
        BY <3>1, <3>3 DEF In
    <2> QED
      BY <2>1, <2>2
  <1>5. In(G) = In(F) \ ToSet(F[x])
    BY <1>4 DEF In
  <1> QED
    BY <1>1, <1>2, <1>5 DEF Sound, Out

\* The items of a sequence of parcels.
Parcels == [items : Seq(Envelopes), by : Envelopes \cup Nodes \cup {"flush"}]
Items(ps) == [i \in 1..Len(ps) |-> ps[i].items]

LEMMA ItemsAppend ==
    ASSUME NEW ps \in Seq(Parcels), NEW p \in Parcels, Sound(Items(ps)), Single(p.items),
           ToSet(p.items) \cap In(Items(ps)) = {}
    PROVE  More(Items(ps), Items(Append(ps, p)), p.items)
  <1> DEFINE F == Items(ps)
             G == Items(Append(ps, p))
             n == Len(ps)
  <1>1. n \in Nat /\ Len(Append(ps, p)) = n + 1 /\ Append(ps, p)[n + 1] = p /\ \A i \in 1..n : Append(ps, p)[i] = ps[i]
    OBVIOUS
  <1>2. DOMAIN F = 1..n /\ DOMAIN G = 1..(n + 1)
    BY <1>1 DEF Items
  <1>3. DOMAIN G = DOMAIN F \cup {n + 1} /\ n + 1 \notin DOMAIN F
    BY <1>1, <1>2
  <1>4. (\A y \in DOMAIN F : G[y] = F[y]) /\ G[n + 1] = p.items
    BY <1>1 DEF Items
  <1> HIDE DEF F, G, n
  <1>5. Enters(F, G, n + 1, p.items)
    BY <1>3, <1>4 DEF Enters
  <1>6. Sound(F) /\ ToSet(p.items) \cap In(F) = {}
    BY DEF F
  <1>7. More(F, G, p.items)
    BY <1>5, <1>6, FamilyMore
  <1> QED
    BY <1>7 DEF F, G

\* Taking the i-th list out of a sequence of n.
LEMMA ListsLess ==
    ASSUME NEW F, NEW n \in Nat, DOMAIN F = 1..n, Sound(F), NEW i \in 1..n,
           NEW G, DOMAIN G = 1..(n - 1), \A y \in 1..(n - 1) : G[y] = F[IF y < i THEN y ELSE y + 1]
    PROVE  Out(F, G, F[i])
  <1> DEFINE old == [y \in 1..(n - 1) |-> IF y < i THEN y ELSE y + 1]
  <1>1. \A y \in 1..(n - 1) : old[y] \in 1..n /\ old[y] # i
    OBVIOUS
  <1>2. \A y \in DOMAIN G : old[y] \in DOMAIN F /\ old[y] # i /\ G[y] = F[old[y]]
    BY <1>1
  <1>3. \A y, z \in DOMAIN G : old[y] = old[z] => y = z
    OBVIOUS
  <1>4. \A z \in DOMAIN F : z # i => \E y \in DOMAIN G : old[y] = z
    <2> SUFFICES ASSUME NEW z \in 1..n, z # i PROVE \E y \in 1..(n - 1) : old[y] = z
      OBVIOUS
    <2>1. CASE z < i
      <3>1. z \in 1..(n - 1) /\ old[z] = z
        BY <2>1
      <3> QED
        BY <3>1
    <2>2. CASE z > i
      <3>1. z - 1 \in 1..(n - 1) /\ old[z - 1] = z
        BY <2>2
      <3> QED
        BY <3>1
    <2> QED
      BY <2>1, <2>2
  <1> HIDE DEF old
  <1>5. Leaves(F, G, i, old)
    BY <1>2, <1>3, <1>4 DEF Leaves
  <1> QED
    BY <1>5, FamilyLess

LEMMA ItemsTail ==
    ASSUME NEW ps \in Seq(Parcels), ps # <<>>, Sound(Items(ps))
    PROVE  Out(Items(ps), Items(Tail(ps)), Head(ps).items)
  <1> DEFINE n == Len(ps)
             F == Items(ps)
             G == Items(Tail(ps))
  <1>1. n \in Nat /\ 1 \in 1..n /\ Len(Tail(ps)) = n - 1 /\ Head(ps) = ps[1] /\ \A y \in 1..(n - 1) : Tail(ps)[y] = ps[y + 1]
    OBVIOUS
  <1>2. DOMAIN F = 1..n /\ DOMAIN G = 1..(n - 1)
    BY <1>1 DEF Items
  <1>3. \A y \in 1..(n - 1) : G[y] = F[IF y < 1 THEN y ELSE y + 1]
    BY <1>1 DEF Items
  <1>4. F[1] = Head(ps).items
    BY <1>1 DEF Items
  <1> HIDE DEF F, G, n
  <1>5. Out(F, G, F[1])
    BY <1>1, <1>2, <1>3, ListsLess DEF F
  <1> QED
    BY <1>4, <1>5 DEF F, G

\* A sequence without its i-th entry.
LEMMA RemoveAtIs ==
    ASSUME NEW S, NEW s \in Seq(S), NEW i \in 1..Len(s)
    PROVE  /\ RemoveAt(s, i) \in Seq(S) /\ Len(RemoveAt(s, i)) = Len(s) - 1
           /\ \A y \in 1..(Len(s) - 1) : RemoveAt(s, i)[y] = s[IF y < i THEN y ELSE y + 1]
  <1> DEFINE l == SubSeq(s, 1, i - 1)
             r == SubSeq(s, i + 1, Len(s))
  <1>1. l \in Seq(S) /\ Len(l) = i - 1 /\ \A y \in 1..(i - 1) : l[y] = s[y]
    OBVIOUS
  <1>2. r \in Seq(S) /\ Len(r) = Len(s) - i /\ \A y \in 1..(Len(s) - i) : r[y] = s[y + i]
    OBVIOUS
  <1> HIDE DEF l, r
  <1>3. /\ l \o r \in Seq(S) /\ Len(l \o r) = Len(s) - 1
        /\ \A y \in 1..(Len(s) - 1) : (l \o r)[y] = IF y <= i - 1 THEN l[y] ELSE r[y - (i - 1)]
    <2>0. l \in Seq(S) /\ r \in Seq(S)
      BY <1>1, <1>2
    <2>1. l \o r \in Seq(S) /\ Len(l \o r) = Len(l) + Len(r)
      BY <2>0
    <2>2. \A y \in 1..(Len(l) + Len(r)) : (l \o r)[y] = IF y <= Len(l) THEN l[y] ELSE r[y - Len(l)]
      BY <2>0
    <2>3. Len(l) + Len(r) = Len(s) - 1
      BY <1>1, <1>2
    <2> QED
      BY <1>1, <2>1, <2>2, <2>3
  <1>4. \A y \in 1..(Len(s) - 1) : (l \o r)[y] = s[IF y < i THEN y ELSE y + 1]
    <2> SUFFICES ASSUME NEW y \in 1..(Len(s) - 1) PROVE (l \o r)[y] = s[IF y < i THEN y ELSE y + 1]
      OBVIOUS
    <2>1. CASE y < i
      BY <1>1, <1>3, <2>1
    <2>2. CASE ~(y < i)
      <3>1. y - (i - 1) \in 1..(Len(s) - i) /\ y - (i - 1) + i = y + 1
        BY <2>2
      <3> QED
        BY <1>2, <1>3, <2>2, <3>1
    <2> QED
      BY <2>1, <2>2
  <1> QED
    BY <1>3, <1>4 DEF RemoveAt, l, r

LEMMA ItemsRemove ==
    ASSUME NEW ps \in Seq(Parcels), NEW i \in 1..Len(ps), Sound(Items(ps))
    PROVE  Out(Items(ps), Items(RemoveAt(ps, i)), ps[i].items)
  <1> DEFINE n == Len(ps)
             t == RemoveAt(ps, i)
             F == Items(ps)
             G == Items(t)
  <1>1. n \in Nat /\ i \in 1..n /\ Len(t) = n - 1 /\ \A y \in 1..(n - 1) : t[y] = ps[IF y < i THEN y ELSE y + 1]
    BY RemoveAtIs
  <1> HIDE DEF t
  <1>2. DOMAIN F = 1..n /\ DOMAIN G = 1..(n - 1)
    BY <1>1 DEF Items
  <1>3. \A y \in 1..(n - 1) : G[y] = F[IF y < i THEN y ELSE y + 1]
    BY <1>1 DEF Items
  <1>4. F[i] = ps[i].items
    BY <1>1 DEF Items
  <1> HIDE DEF F, G, n
  <1>5. Out(F, G, F[i])
    BY <1>1, <1>2, <1>3, ListsLess DEF F
  <1> QED
    BY <1>4, <1>5 DEF F, G, t

LEMMA ListsTail ==
    ASSUME NEW ls \in Seq(Seq(Envelopes)), ls # <<>>, Sound(ls)
    PROVE  Out(ls, Tail(ls), Head(ls))
  <1> DEFINE n == Len(ls)
             G == Tail(ls)
  <1>1. n \in Nat /\ 1 \in 1..n /\ Head(ls) = ls[1] /\ DOMAIN ls = 1..n
        /\ DOMAIN G = 1..(n - 1) /\ \A y \in 1..(n - 1) : G[y] = ls[IF y < 1 THEN y ELSE y + 1]
    OBVIOUS
  <1> HIDE DEF G, n
  <1>2. Out(ls, G, ls[1])
    BY <1>1, ListsLess
  <1> QED
    BY <1>1, <1>2 DEF G

EnvStages == {"new", "spawned", "refused", "buffered", "sending", "queued", "failed", "received", "replied",
              "lost", "withdrawn", "dropped"}
EnvReplies == {"none", "waiting", "ok", "error", "cancelled"}
Envelope == [mode : {"none", "tell", "ask", "stream", "batch", "registry"}, stage : EnvStages,
             reply : EnvReplies, token : BOOLEAN]
Channel == [up : BOOLEAN, q : Seq(Parcels)]

RemoteType ==
    /\ channel \in [Links -> Channel]
    /\ \A x \in Links : ~channel[x].up => channel[x].q = <<>>
    /\ lock \in Seq(Parcels) /\ batches \subseteq Parcels /\ flush \in Seq(Seq(Envelopes))
    /\ buffers \in [Nodes -> Seq(Envelopes)]
    /\ env \in [Envelopes -> Envelope] /\ pending \subseteq Envelopes

Batched(bs) == [p \in bs |-> p.items]
Channels(cs) == [x \in Links |-> In(Items(cs[x].q))]
Held(ch, e) == \E x \in Links : e \in ch[x]
Apart(ch) == \A x, y \in Links : x # y => ch[x] \cap ch[y] = {}

FamiliesOK ==
    /\ Sound(Items(lock)) /\ Sound(Batched(batches)) /\ Sound(flush) /\ Sound(buffers)
    /\ \A x \in Links : Sound(Items(channel[x].q))

\* The envelopes l at the lock, b in batches, f in the flush, u in buffers and ch in the
\* channels, against their stages c.
SitesOK(l, b, f, u, ch, c) ==
    /\ l \cap b = {} /\ l \cap f = {} /\ b \cap f = {}
    /\ \A e \in Envelopes : /\ c[e].stage = "sending" <=> e \in l \cup b \cup f
                            /\ c[e].stage = "buffered" <=> e \in u
                            /\ c[e].stage = "queued" <=> Held(ch, e)
    /\ Apart(ch)
    /\ \A e \in b \cup f \cup u : c[e].mode = "batch"

Sites == SitesOK(In(Items(lock)), In(Batched(batches)), In(flush), In(buffers), Channels(channel), env)

\* A list for one node; one that is a batch if it has more than one envelope.
ForNode(s, n) == \A j \in 1..Len(s) : Target[s[j]] = n
ForOne(s) == s # <<>> /\ ForNode(s, Target[s[1]])
Alone(s, c) == Len(s) = 1 \/ \A j \in 1..Len(s) : c[s[j]].mode = "batch"
AtLock(s, c) == s = <<>> \/ (ForOne(s) /\ Alone(s, c))

ListsOK ==
    /\ \A i \in 1..Len(lock) : AtLock(lock[i].items, env)
    /\ \A p \in batches : ForOne(p.items)
    /\ \A i \in 1..Len(flush) : ForOne(flush[i])
    /\ \A n \in Nodes : ForNode(buffers[n], n)

AskOK(v, inTable) ==
    /\ v.reply = "waiting" => v.mode = "ask" /\ (inTable \/ v.stage \in {"spawned", "replied"})
    /\ inTable => v.mode = "ask" /\ v.reply \in {"waiting", "cancelled"} /\ v.stage \notin {"new", "spawned", "replied"}
    /\ v.stage = "new" => v.mode = "none" /\ v.reply = "none"

AsksOK(c, pend) == \A e \in Envelopes : AskOK(c[e], e \in pend)

RemoteInv == RemoteType /\ FamiliesOK /\ Sites /\ ListsOK /\ AsksOK(env, pending)

\* What was sent in a batch stays so.
StayBatched(c, d) == \A e \in Envelopes : c[e].mode = "batch" => d[e].mode = "batch"

LEMMA AloneStays ==
    ASSUME NEW s \in Seq(Envelopes), NEW c, NEW d, Alone(s, c), StayBatched(c, d)
    PROVE  Alone(s, d)
  BY DEF Alone, StayBatched

LEMMA LockStaysAlone ==
    ASSUME RemoteInv, NEW d, StayBatched(env, d)
    PROVE  \A i \in 1..Len(lock) : AtLock(lock[i].items, d)
  <1> SUFFICES ASSUME NEW i \in 1..Len(lock) PROVE AtLock(lock[i].items, d)
    OBVIOUS
  <1>1. lock[i] \in Parcels /\ AtLock(lock[i].items, env)
    BY DEF RemoteInv, RemoteType, ListsOK
  <1>2. lock[i].items \in Seq(Envelopes)
    BY <1>1 DEF Parcels
  <1> QED
    BY <1>1, <1>2, AloneStays DEF AtLock

\* Only envelopes that are not under way change.
SameSites(c, d) ==
    \A e \in Envelopes :
        /\ \A s \in {"sending", "buffered", "queued"} : d[e].stage = s <=> c[e].stage = s
        /\ c[e].mode = "batch" => d[e].mode = "batch"

LEMMA RemoteQuiet ==
    ASSUME RemoteInv, UNCHANGED <<channel, lock, buffers, batches, flush>>,
           env' \in [Envelopes -> Envelope], pending' \subseteq Envelopes, SameSites(env, env'), AsksOK(env', pending')
    PROVE  RemoteInv'
  <1>1. RemoteType' /\ FamiliesOK'
    BY DEF RemoteInv, RemoteType, FamiliesOK
  <1>2. StayBatched(env, env')
    BY DEF SameSites, StayBatched
  <1>3. ListsOK'
    <2>1. \A i \in 1..Len(lock) : AtLock(lock[i].items, env')
      BY <1>2, LockStaysAlone
    <2> QED
      BY <2>1 DEF RemoteInv, ListsOK
  <1>4. Sites'
    <2>1. ASSUME NEW l, NEW b, NEW f, NEW u, NEW ch, b \subseteq Envelopes, f \subseteq Envelopes, u \subseteq Envelopes,
                 SitesOK(l, b, f, u, ch, env)
          PROVE  SitesOK(l, b, f, u, ch, env')
      BY <2>1 DEF SitesOK, SameSites
    <2>2. In(Batched(batches)) \subseteq Envelopes /\ In(flush) \subseteq Envelopes /\ In(buffers) \subseteq Envelopes
      BY DEF In
    <2> QED
      BY <2>1, <2>2 DEF RemoteInv, Sites
  <1> QED
    BY <1>1, <1>3, <1>4 DEF RemoteInv

LEMMA RemoteParts ==
    ASSUME RemoteInv
    PROVE  /\ channel \in [Links -> Channel]
           /\ lock \in Seq(Parcels) /\ batches \subseteq Parcels /\ flush \in Seq(Seq(Envelopes))
           /\ buffers \in [Nodes -> Seq(Envelopes)]
           /\ env \in [Envelopes -> Envelope] /\ pending \subseteq Envelopes
           /\ AsksOK(env, pending) /\ Sites /\ FamiliesOK /\ ListsOK
  BY DEF RemoteInv, RemoteType

\* One envelope goes on outside the containers.
LEMMA OneEnvelope ==
    ASSUME RemoteInv, NEW e \in Envelopes, NEW v \in Envelope, env' = [env EXCEPT ![e] = v],
           UNCHANGED <<channel, lock, buffers, batches, flush>>,
           pending' \subseteq Envelopes, \A x \in Envelopes : x # e => (x \in pending' <=> x \in pending),
           \A s \in {"sending", "buffered", "queued"} : v.stage = s <=> env[e].stage = s,
           env[e].mode = "batch" => v.mode = "batch",
           AskOK(v, e \in pending')
    PROVE  RemoteInv'
  <1>1. env' \in [Envelopes -> Envelope] /\ \A x \in Envelopes : env'[x] = IF x = e THEN v ELSE env[x]
    BY RemoteParts
  <1>2. SameSites(env, env')
    BY <1>1 DEF SameSites
  <1>3. AsksOK(env', pending')
    <2> SUFFICES ASSUME NEW x \in Envelopes PROVE AskOK(env'[x], x \in pending')
      BY DEF AsksOK
    <2>1. AskOK(env[x], x \in pending)
      BY RemoteParts DEF AsksOK
    <2> QED
      BY <1>1, <2>1 DEF AskOK
  <1> QED
    BY <1>1, <1>2, <1>3, RemoteQuiet

LEMMA CallKeepsRemote ==
    ASSUME RemoteInv, NEW e \in Envelopes, RemoteTell(e) \/ RemoteAsk(e) \/ RemoteStream(e) \/ RegistrySend(e)
    PROVE  RemoteInv'
  <1>1. env[e].stage = "new" /\ UNCHANGED <<channel, lock, pending, buffers, batches, flush>>
    BY DEF RemoteTell, RemoteAsk, RemoteCall, RemoteStream, RegistrySend
  <1>2. env \in [Envelopes -> Envelope] /\ env[e] \in Envelope /\ AskOK(env[e], e \in pending) /\ pending \subseteq Envelopes
    BY RemoteParts DEF AsksOK
  <1>3. ASSUME NEW m \in {"tell", "ask", "stream", "registry"}, NEW s \in {"spawned", "refused", "dropped"}, NEW r \in {"none", "waiting"},
               r = "waiting" => m = "ask" /\ s = "spawned",
               env' = [env EXCEPT ![e] = [env[e] EXCEPT !.mode = m, !.stage = s, !.reply = r]]
        PROVE  RemoteInv'
    <2> DEFINE v == [env[e] EXCEPT !.mode = m, !.stage = s, !.reply = r]
    <2>1. v \in Envelope /\ v.mode = m /\ v.stage = s /\ v.reply = r
      BY <1>2 DEF Envelope, EnvStages, EnvReplies
    <2>2. env' = [env EXCEPT ![e] = v]
      BY <1>3
    <2> HIDE DEF v
    <2>3. e \notin pending /\ env[e].mode = "none"
      BY <1>1, <1>2 DEF AskOK
    <2>4. AskOK(v, e \in pending)
      BY <1>3, <2>1, <2>3 DEF AskOK
    <2> QED
      BY <1>1, <1>2, <2>1, <2>2, <2>3, <2>4, OneEnvelope
  <1>4. env[e].reply = "none" /\ env[e].mode = "none"
    BY <1>1, <1>2 DEF AskOK
  <1>5. \A m, s : [env EXCEPT ![e].mode = m, ![e].stage = s]
                     = [env EXCEPT ![e] = [env[e] EXCEPT !.mode = m, !.stage = s, !.reply = "none"]]
    <2> SUFFICES ASSUME NEW m, NEW s
                 PROVE  [env EXCEPT ![e].mode = m, ![e].stage = s]
                           = [env EXCEPT ![e] = [env[e] EXCEPT !.mode = m, !.stage = s, !.reply = "none"]]
      OBVIOUS
    <2>1. [env[e] EXCEPT !.mode = m, !.stage = s] = [env[e] EXCEPT !.mode = m, !.stage = s, !.reply = "none"]
      BY <1>2, <1>4 DEF Envelope
    <2> QED
      BY <1>2, <2>1
  <1>6. CASE RemoteTell(e) \/ RemoteAsk(e)
    <2>1. PICK m \in {"tell", "ask"}, r \in {"none", "waiting"}, s \in {"spawned", "refused", "dropped"} :
              /\ r = "waiting" => m = "ask"
              /\ env' = [env EXCEPT ![e].mode = m, ![e].stage = s, ![e].reply = IF s = "spawned" THEN r ELSE @]
      BY <1>6 DEF RemoteTell, RemoteAsk, RemoteCall, RunOutboundPipeline
    <2> DEFINE t == IF s = "spawned" THEN r ELSE "none"
    <2>2. env' = [env EXCEPT ![e] = [env[e] EXCEPT !.mode = m, !.stage = s, !.reply = t]]
      BY <1>2, <1>4, <2>1
    <2>3. t \in {"none", "waiting"} /\ (t = "waiting" => m = "ask" /\ s = "spawned")
      BY <2>1
    <2> HIDE DEF t
    <2> QED
      BY <1>3, <2>2, <2>3
  <1>7. CASE RemoteStream(e) \/ RegistrySend(e)
    <2>1. PICK m \in {"stream", "registry"}, s \in {"spawned", "refused"} : env' = [env EXCEPT ![e].mode = m, ![e].stage = s]
      BY <1>7 DEF RemoteStream, RegistrySend
    <2>2. env' = [env EXCEPT ![e] = [env[e] EXCEPT !.mode = m, !.stage = s, !.reply = "none"]]
      BY <1>5, <2>1
    <2> QED
      BY <1>3, <2>2
  <1> QED
    BY <1>6, <1>7

LEMMA ReplyKeepsRemote ==
    ASSUME RemoteInv, NEW e \in Envelopes, CancelRemoteAsk(e) \/ AskReplies(e) \/ CompleteRequest(e)
    PROVE  RemoteInv'
  <1>1. env \in [Envelopes -> Envelope] /\ env[e] \in Envelope /\ AskOK(env[e], e \in pending) /\ pending \subseteq Envelopes
    BY RemoteParts DEF AsksOK
  <1>2. UNCHANGED <<channel, lock, buffers, batches, flush>>
    BY DEF CancelRemoteAsk, AskReplies, CompleteRequest
  <1>3. CASE CancelRemoteAsk(e)
    <2> DEFINE v == [env[e] EXCEPT !.token = TRUE]
    <2>1. v \in Envelope /\ v.mode = env[e].mode /\ v.stage = env[e].stage /\ v.reply = env[e].reply
      BY <1>1 DEF Envelope
    <2>2. env' = [env EXCEPT ![e] = v] /\ pending' = pending
      BY <1>1, <1>3 DEF CancelRemoteAsk
    <2> HIDE DEF v
    <2>3. AskOK(v, e \in pending)
      BY <1>1, <2>1 DEF AskOK
    <2> QED
      BY <1>1, <1>2, <2>1, <2>2, <2>3, OneEnvelope
  <1>4. CASE AskReplies(e)
    <2>1. PICK r \in {"ok", "error"} : env' = [env EXCEPT ![e].reply = r]
      BY <1>4 DEF AskReplies
    <2> DEFINE v == [env[e] EXCEPT !.reply = r]
    <2>2. v \in Envelope /\ v.mode = env[e].mode /\ v.stage = env[e].stage /\ v.reply = r
      BY <1>1 DEF Envelope, EnvReplies
    <2>3. env' = [env EXCEPT ![e] = v] /\ pending' = pending /\ env[e].stage = "replied"
      BY <1>1, <1>4, <2>1 DEF AskReplies
    <2> HIDE DEF v
    <2>4. AskOK(v, e \in pending)
      BY <1>1, <2>2, <2>3 DEF AskOK
    <2> QED
      BY <1>1, <1>2, <2>2, <2>3, <2>4, OneEnvelope
  <1>5. CASE CompleteRequest(e)
    <2> DEFINE s == IF env[e].reply = "waiting" THEN "replied" ELSE env[e].stage
               v == [env[e] EXCEPT !.stage = s]
    <2>1. env[e].stage = "received" /\ e \in pending /\ pending' = pending \ {e} /\ env' = [env EXCEPT ![e] = v]
      BY <1>1, <1>5 DEF CompleteRequest
    <2>2. s \in EnvStages /\ s \in {"replied", "received"} /\ (env[e].reply = "waiting" => s = "replied")
      BY <2>1 DEF EnvStages
    <2> HIDE DEF s
    <2>3. v \in Envelope /\ v.mode = env[e].mode /\ v.stage = s /\ v.reply = env[e].reply
      BY <1>1, <2>2 DEF Envelope
    <2> HIDE DEF v
    <2>4. AskOK(v, FALSE)
      BY <1>1, <2>1, <2>2, <2>3 DEF AskOK
    <2>5. AskOK(v, e \in pending')
      BY <2>1, <2>4 DEF AskOK
    <2>6. pending' \subseteq Envelopes /\ \A x \in Envelopes : x # e => (x \in pending' <=> x \in pending)
      BY <1>1, <2>1
    <2>7. \A t \in {"sending", "buffered", "queued"} : v.stage = t <=> env[e].stage = t
      BY <2>1, <2>2, <2>3
    <2> QED
      BY <1>2, <2>1, <2>3, <2>5, <2>6, <2>7, OneEnvelope
  <1> QED
    BY <1>3, <1>4, <1>5

\* The envelopes of es come to stage s, and stay what they are.
Moves(c, d, es, s) ==
    /\ d \in [Envelopes -> Envelope]
    /\ \A e \in Envelopes : /\ d[e].mode = c[e].mode /\ d[e].reply = c[e].reply
                            /\ d[e].stage = IF e \in es THEN s ELSE c[e].stage

LEMMA MovedMoves ==
    ASSUME env \in [Envelopes -> Envelope], NEW es, NEW s \in EnvStages
    PROVE  Moves(env, Moved(es, s), es, s)
  <1>1. ASSUME NEW e \in Envelopes
        PROVE  LET v == [env[e] EXCEPT !.stage = s]
               IN  v \in Envelope /\ v.mode = env[e].mode /\ v.reply = env[e].reply /\ v.stage = s
    BY DEF Envelope
  <1> QED
    BY <1>1 DEF Moves, Moved

\* Envelopes under way that go on are no asks that wait outside the table.
LEMMA MovesAsks ==
    ASSUME RemoteInv, NEW d, NEW es, NEW s, Moves(env, d, es, s), s \notin {"new", "spawned", "replied"},
           \A e \in es \cap Envelopes : env[e].stage \in {"sending", "buffered", "queued"}
    PROVE  AsksOK(d, pending) /\ StayBatched(env, d)
  <1>1. StayBatched(env, d)
    BY DEF Moves, StayBatched
  <1>2. ASSUME NEW e \in Envelopes PROVE AskOK(d[e], e \in pending)
    <2>1. AskOK(env[e], e \in pending)
      BY RemoteParts DEF AsksOK
    <2> QED
      BY <2>1 DEF AskOK, Moves
  <1> QED
    BY <1>1, <1>2 DEF AsksOK

\* The parts of a channel.
LEMMA ChannelSet ==
    ASSUME NEW cs \in [Links -> Channel], NEW n \in Links, NEW r \in Channel
    PROVE  /\ [cs EXCEPT ![n] = r] \in [Links -> Channel]
           /\ \A m \in Links : [cs EXCEPT ![n] = r][m] = IF m = n THEN r ELSE cs[m]
  OBVIOUS

LEMMA EmptyFamily ==
    /\ Sound(Items(<<>>)) /\ In(Items(<<>>)) = {}
    /\ Sound(<<>>) /\ In(<<>>) = {}
  <1>1. DOMAIN Items(<<>>) = {} /\ DOMAIN <<>> = {}
    BY DEF Items
  <1> QED
    BY <1>1 DEF Sound, Lists, Once, In

\* A channel becomes q and the envelopes of it that are gone come to stage s.
LEMMA ChannelKeepsRemote ==
    ASSUME RemoteInv, NEW n \in Links, NEW r \in Channel, channel' = [channel EXCEPT ![n] = r], ~r.up => r.q = <<>>,
           UNCHANGED <<lock, pending, buffers, batches, flush>>,
           NEW es, es \subseteq In(Items(channel[n].q)), Sound(Items(r.q)), In(Items(r.q)) = In(Items(channel[n].q)) \ es,
           NEW s \in {"lost", "received"}, Moves(env, env', es, s)
    PROVE  RemoteInv'
  <1>1. /\ channel' \in [Links -> Channel] /\ channel \in [Links -> Channel]
        /\ \A m \in Links : channel'[m] = IF m = n THEN r ELSE channel[m]
    BY ChannelSet, RemoteParts
  <1>2. \A m \in Links : Channels(channel')[m] = IF m = n THEN Channels(channel)[n] \ es ELSE Channels(channel)[m]
    BY <1>1 DEF Channels
  <1> DEFINE l == In(Items(lock))
             b == In(Batched(batches))
             f == In(flush)
             u == In(buffers)
             ch == Channels(channel)
             dh == Channels(channel')
  <1>3. b \subseteq Envelopes /\ f \subseteq Envelopes /\ u \subseteq Envelopes /\ SitesOK(l, b, f, u, ch, env)
        /\ es \subseteq ch[n] /\ ch[n] \subseteq Envelopes
    BY RemoteParts DEF In, Sites, Channels
  <1>4. UNCHANGED <<lock, batches, flush, buffers>>
    OBVIOUS
  <1>5. ListsOK' /\ AsksOK(env', pending')
    <2>1. AsksOK(env', pending) /\ StayBatched(env, env')
      <3>1. \A e \in es \cap Envelopes : env[e].stage = "queued"
        BY <1>3 DEF SitesOK, Held
      <3> QED
        BY <3>1, MovesAsks
    <2>2. \A i \in 1..Len(lock) : AtLock(lock[i].items, env')
      BY <2>1, LockStaysAlone
    <2> QED
      BY <2>1, <2>2, RemoteParts DEF ListsOK
  <1>6. Sites'
    <2> HIDE DEF l, b, f, u, ch, dh
    <2>1. \A m \in Links : dh[m] = IF m = n THEN ch[n] \ es ELSE ch[m]
      BY <1>2 DEF ch, dh
    <2>2. /\ Apart(dh) /\ \A e \in es : Held(ch, e)
          /\ \A e : Held(dh, e) <=> Held(ch, e) /\ e \notin es
      BY <1>3, <2>1 DEF SitesOK, Apart, Held
    <2>3. SitesOK(l, b, f, u, dh, env')
      BY <1>3, <2>2 DEF SitesOK, Moves
    <2> QED
      BY <1>4, <2>3 DEF Sites, l, b, f, u, dh
  <1>7. RemoteType' /\ FamiliesOK'
    BY <1>1, RemoteParts DEF RemoteInv, RemoteType, FamiliesOK, Moves
  <1> QED
    BY <1>5, <1>6, <1>7 DEF RemoteInv

LEMMA GoneKeepsRemote ==
    ASSUME RemoteInv, NEW n \in Links, ReceiverGone(n)
    PROVE  RemoteInv'
  <1> DEFINE q == channel[n].q
             es == UNION {ToSet(p.items) : p \in ToSet(q)}
             r == [up |-> FALSE, q |-> <<>>]
  <1>1. channel \in [Links -> Channel] /\ channel[n] \in Channel /\ q \in Seq(Parcels) /\ Sound(Items(q))
        /\ env \in [Envelopes -> Envelope]
    BY RemoteParts DEF Channel, FamiliesOK
  <1>2. channel' = [channel EXCEPT ![n] = r] /\ env' = Moved(es, "lost") /\ UNCHANGED <<lock, pending, buffers, batches, flush>>
    BY <1>1 DEF ReceiverGone
  <1>3. r \in Channel /\ r.q = <<>>
    BY DEF Channel
  <1>4. es = In(Items(q))
    <2>1. \A i \in 1..Len(q) : q[i].items \in Seq(Envelopes)
      <3>1. q \in Seq(Parcels)
        BY <1>1
      <3> HIDE DEF q
      <3>2. \A i \in 1..Len(q) : q[i] \in Parcels
        BY <3>1
      <3>3. \A p \in Parcels : p.items \in Seq(Envelopes)
        BY DEF Parcels
      <3> QED
        BY <3>2, <3>3
    <2>2. ToSet(q) = {q[i] : i \in 1..Len(q)}
      BY <1>1 DEF ToSet
    <2>3. \A e : e \in es <=> \E i \in 1..Len(q) : e \in ToSet(q[i].items)
      BY <2>2
    <2>4. \A e : e \in es <=> e \in Envelopes /\ \E i \in 1..Len(q) : \E j \in 1..Len(q[i].items) : q[i].items[j] = e
      <3>1. \A i \in 1..Len(q) : \A e : e \in ToSet(q[i].items) <=>
                                           e \in Envelopes /\ \E j \in 1..Len(q[i].items) : q[i].items[j] = e
        <4> SUFFICES ASSUME NEW i \in 1..Len(q)
                     PROVE  \A e : e \in ToSet(q[i].items) <=>
                                      e \in Envelopes /\ \E j \in 1..Len(q[i].items) : q[i].items[j] = e
          OBVIOUS
        <4> DEFINE s == q[i].items
        <4>1. s \in Seq(Envelopes)
          BY <2>1
        <4> HIDE DEF s
        <4>2. \A e : e \in ToSet(s) <=> e \in Envelopes /\ \E j \in 1..Len(s) : s[j] = e
          BY <4>1, ToSetIn
        <4> QED
          BY <4>2 DEF s
      <3> HIDE DEF es, q
      <3> QED
        BY <2>3, <3>1
    <2>5. \A e : e \in In(Items(q)) <=> e \in Envelopes /\ \E i \in 1..Len(q) : \E j \in 1..Len(q[i].items) : q[i].items[j] = e
      BY DEF In, Items
    <2> HIDE DEF es, q
    <2> QED
      BY <2>4, <2>5
  <1>5. Moves(env, env', es, "lost")
    BY <1>1, <1>2, MovedMoves DEF EnvStages
  <1>6. Sound(Items(r.q)) /\ In(Items(r.q)) = In(Items(channel[n].q)) \ es
    BY <1>3, <1>4, EmptyFamily
  <1> HIDE DEF r, es
  <1> QED
    BY <1>2, <1>3, <1>4, <1>5, <1>6, ChannelKeepsRemote

LEMMA ReceiveKeepsRemote ==
    ASSUME RemoteInv, NEW n \in Links, Receive(n)
    PROVE  RemoteInv'
  <1> DEFINE q == channel[n].q
             es == ToSet(Head(q).items)
             r == [channel[n] EXCEPT !.q = Tail(q)]
  <1>1. channel \in [Links -> Channel] /\ channel[n] \in Channel /\ q \in Seq(Parcels) /\ Sound(Items(q))
        /\ env \in [Envelopes -> Envelope]
    BY RemoteParts DEF Channel, FamiliesOK
  <1>2. /\ channel' = [channel EXCEPT ![n] = r] /\ env' = Moved(es, "received") /\ q # <<>>
        /\ UNCHANGED <<lock, pending, buffers, batches, flush>>
    BY <1>1 DEF Receive
  <1>3. Tail(q) \in Seq(Parcels)
    BY <1>1, <1>2
  <1>4. r \in Channel /\ r.q = Tail(q) /\ r.up = channel[n].up
    BY <1>1, <1>3 DEF Channel
  <1>5. channel[n].up
    BY <1>2 DEF RemoteInv, RemoteType
  <1>6. Out(Items(q), Items(r.q), Head(q).items)
    BY <1>1, <1>2, <1>4, ItemsTail
  <1>7. es \subseteq In(Items(q))
    <2>1. 1 \in DOMAIN Items(q) /\ Items(q)[1] = Head(q).items
      BY <1>1, <1>2 DEF Items
    <2> QED
      BY <1>1, <2>1, SoundLists
  <1>8. Moves(env, env', es, "received")
    BY <1>1, <1>2, MovedMoves DEF EnvStages
  <1>9. ~r.up => r.q = <<>>
    BY <1>4, <1>5
  <1> HIDE DEF r
  <1> QED
    BY <1>2, <1>4, <1>6, <1>7, <1>8, <1>9, ChannelKeepsRemote DEF Out

\* What is at the lock, after the parcel p came to it, or left it.
LockLists(ps, c) == ps \in Seq(Parcels) /\ \A i \in 1..Len(ps) : AtLock(ps[i].items, c)

LEMMA LockGrows ==
    ASSUME RemoteInv, NEW p \in Parcels, NEW d, StayBatched(env, d), Single(p.items),
           ToSet(p.items) \cap In(Items(lock)) = {}, AtLock(p.items, d)
    PROVE  LockLists(Append(lock, p), d) /\ More(Items(lock), Items(Append(lock, p)), p.items)
  <1>1. lock \in Seq(Parcels) /\ Sound(Items(lock))
    BY RemoteParts DEF FamiliesOK
  <1>2. More(Items(lock), Items(Append(lock, p)), p.items)
    BY <1>1, ItemsAppend
  <1>3. \A i \in 1..Len(lock) : AtLock(lock[i].items, d)
    BY LockStaysAlone
  <1> DEFINE a == Append(lock, p)
  <1>4. a \in Seq(Parcels) /\ \A i \in 1..Len(a) : a[i] = p \/ \E k \in 1..Len(lock) : a[i] = lock[k]
    BY <1>1
  <1> HIDE DEF a
  <1>5. LockLists(a, d)
    BY <1>3, <1>4 DEF LockLists
  <1> QED
    BY <1>2, <1>5 DEF a

LEMMA LockShrinks ==
    ASSUME RemoteInv, NEW i \in 1..Len(lock), NEW d, StayBatched(env, d), NEW ps,
           ps = RemoveAt(lock, i) \/ (i = 1 /\ ps = Tail(lock))
    PROVE  LockLists(ps, d) /\ Out(Items(lock), Items(ps), lock[i].items)
  <1>1. lock \in Seq(Parcels) /\ Sound(Items(lock))
    BY RemoteParts DEF FamiliesOK
  <1>2. Out(Items(lock), Items(ps), lock[i].items)
    <2>1. CASE ps = RemoveAt(lock, i)
      BY <1>1, <2>1, ItemsRemove
    <2>2. CASE i = 1 /\ ps = Tail(lock)
      <3>1. lock # <<>> /\ Head(lock) = lock[1]
        BY <1>1, <2>2
      <3> QED
        BY <1>1, <2>2, <3>1, ItemsTail
    <2> QED
      BY <2>1, <2>2
  <1>3. \A k \in 1..Len(lock) : AtLock(lock[k].items, d)
    BY LockStaysAlone
  <1>4. ps \in Seq(Parcels) /\ \A y \in 1..Len(ps) : \E k \in 1..Len(lock) : ps[y] = lock[k]
    <2>1. CASE ps = RemoveAt(lock, i)
      <3>1. /\ ps \in Seq(Parcels) /\ Len(ps) = Len(lock) - 1 /\ Len(lock) \in Nat
            /\ \A y \in 1..(Len(lock) - 1) : ps[y] = lock[IF y < i THEN y ELSE y + 1]
        BY <1>1, <2>1, RemoveAtIs
      <3>2. \A y \in 1..(Len(lock) - 1) : (IF y < i THEN y ELSE y + 1) \in 1..Len(lock)
        BY <3>1
      <3> QED
        BY <3>1, <3>2
    <2>2. CASE i = 1 /\ ps = Tail(lock)
      <3>1. lock # <<>>
        BY <1>1, <2>2
      <3>2. ps \in Seq(Parcels) /\ \A y \in 1..Len(ps) : y + 1 \in 1..Len(lock) /\ ps[y] = lock[y + 1]
        BY <1>1, <2>2, <3>1
      <3> QED
        BY <3>2
    <2> QED
      BY <2>1, <2>2
  <1>5. LockLists(ps, d)
    BY <1>3, <1>4 DEF LockLists
  <1> QED
    BY <1>2, <1>5

\* The head of the lock.
LEMMA LockItems ==
    ASSUME RemoteInv, NEW i \in 1..Len(lock)
    PROVE  /\ lock[i] \in Parcels /\ Single(lock[i].items) /\ lock[i].items \in Seq(Envelopes)
           /\ ToSet(lock[i].items) \subseteq In(Items(lock)) /\ ToSet(lock[i].items) \subseteq Envelopes
           /\ AtLock(lock[i].items, env)
  <1>1. lock \in Seq(Parcels) /\ Sound(Items(lock)) /\ AtLock(lock[i].items, env)
    BY RemoteParts DEF FamiliesOK, ListsOK
  <1>2. i \in DOMAIN Items(lock) /\ Items(lock)[i] = lock[i].items
    BY <1>1 DEF Items
  <1>3. lock[i] \in Parcels
    BY <1>1
  <1>4. Single(lock[i].items) /\ ToSet(lock[i].items) \subseteq In(Items(lock))
    BY <1>1, <1>2, SoundLists
  <1>5. lock[i].items \in Seq(Envelopes) /\ ToSet(lock[i].items) \subseteq Envelopes
    BY <1>4, ToSetIn DEF Single
  <1> QED
    BY <1>1, <1>3, <1>4, <1>5

\* What is at the lock stays, and a receiver may be there that was not.
LEMMA RoutesKeepRemote ==
    ASSUME RemoteInv, LockLists(lock', env), Sound(Items(lock')), In(Items(lock')) = In(Items(lock)),
           channel' \in [Links -> Channel],
           \A x \in Links : channel'[x].q = channel[x].q /\ (~channel'[x].up => ~channel[x].up),
           UNCHANGED <<pending, env, buffers, batches, flush>>
    PROVE  RemoteInv'
  <1>1. Channels(channel') = Channels(channel)
    BY DEF Channels
  <1>2. Sites'
    BY <1>1 DEF RemoteInv, Sites
  <1>3. ListsOK'
    BY DEF RemoteInv, ListsOK, LockLists
  <1>4. RemoteType' /\ FamiliesOK'
    BY DEF RemoteInv, RemoteType, FamiliesOK, LockLists
  <1>5. AsksOK(env', pending')
    BY DEF RemoteInv
  <1> QED
    BY <1>2, <1>3, <1>4, <1>5 DEF RemoteInv

LEMMA RegisterKeepsRemote ==
    ASSUME RemoteInv, NEW n \in Nodes, RegisterNode(n)
    PROVE  RemoteInv'
  <1> DEFINE s == <<>>
             p == Parcel(s, n)
  <1>1. lock' = Append(lock, p) /\ UNCHANGED <<channel, pending, env, buffers, batches, flush>>
    BY DEF RegisterNode
  <1>2. s \in Seq(Envelopes) /\ ToSet(s) = {} /\ Single(s) /\ AtLock(s, env)
    BY DEF ToSet, Single, AtLock
  <1> HIDE DEF s
  <1>3. p \in Parcels /\ p.items = s
    BY <1>2 DEF Parcel, Parcels
  <1> HIDE DEF p
  <1>4. StayBatched(env, env) /\ Single(p.items) /\ AtLock(p.items, env) /\ ToSet(p.items) \cap In(Items(lock)) = {}
    BY <1>2, <1>3 DEF StayBatched
  <1>5. LockLists(lock', env) /\ More(Items(lock), Items(lock'), p.items)
    BY <1>1, <1>3, <1>4, LockGrows
  <1>6. Sound(Items(lock')) /\ In(Items(lock')) = In(Items(lock))
    BY <1>2, <1>3, <1>5 DEF More
  <1>7. channel' \in [Links -> Channel]
    BY <1>1, RemoteParts
  <1> QED
    BY <1>1, <1>5, <1>6, <1>7, RoutesKeepRemote

LEMMA InsertedKeepsRemote ==
    ASSUME RemoteInv, RouteInserted
    PROVE  RemoteInv'
  <1>1. /\ lock # <<>> /\ Head(lock).items = <<>> /\ lock' = Tail(lock)
        /\ UNCHANGED <<pending, env, buffers, batches, flush>>
    BY DEF RouteInserted
  <1>2. PICK y : channel' = [channel EXCEPT ![y].up = TRUE]
    BY DEF RouteInserted
  <1>3. channel \in [Links -> Channel] /\ lock \in Seq(Parcels)
    BY RemoteParts
  <1>4. 1 \in 1..Len(lock) /\ lock[1].items = <<>>
    BY <1>1, <1>3
  <1>5. StayBatched(env, env)
    BY DEF StayBatched
  <1>6. LockLists(lock', env) /\ Out(Items(lock), Items(lock'), lock[1].items)
    BY <1>1, <1>4, <1>5, LockShrinks
  <1>7. ToSet(<<>>) = {}
    BY DEF ToSet
  <1>8. Sound(Items(lock')) /\ In(Items(lock')) = In(Items(lock))
    BY <1>4, <1>6, <1>7 DEF Out
  <1>9. /\ channel' \in [Links -> Channel]
        /\ \A x \in Links : channel'[x].q = channel[x].q /\ (~channel'[x].up => ~channel[x].up)
    <2> DEFINE c == [channel[y] EXCEPT !.up = TRUE]
    <2>1. channel' = [channel EXCEPT ![y] = c]
      BY <1>2
    <2>2. CASE y \in Links
      <3>1. channel[y] \in Channel
        BY <1>3, <2>2
      <3>2. c \in Channel /\ c.q = channel[y].q /\ c.up
        BY <3>1 DEF Channel
      <3> HIDE DEF c
      <3>3. channel' \in [Links -> Channel] /\ \A x \in Links : channel'[x] = IF x = y THEN c ELSE channel[x]
        BY <1>3, <2>1, <2>2, <3>2, ChannelSet
      <3> QED
        BY <3>2, <3>3
    <2>3. CASE y \notin Links
      <3> HIDE DEF c
      <3>1. channel' = channel
        BY <1>3, <2>1, <2>3
      <3> QED
        BY <1>3, <3>1
    <2> QED
      BY <2>2, <2>3
  <1> QED
    BY <1>1, <1>6, <1>8, <1>9, RoutesKeepRemote

\* A call comes to the lock with one envelope.
LEMMA SendingKeepsRemote ==
    ASSUME RemoteInv, NEW e \in Envelopes, TaskSends(e) \/ SendRequest(e)
    PROVE  RemoteInv'
  <1> DEFINE s == <<e>>
             p == Parcel(s, e)
  <1>1. /\ env[e].stage = "spawned" /\ env' = Moved({e}, "sending") /\ lock' = Append(lock, p)
        /\ UNCHANGED <<channel, buffers, batches, flush>>
        /\ \/ env[e].mode \in {"tell", "registry"} /\ pending' = pending
           \/ env[e].mode = "ask" /\ env[e].reply = "waiting" /\ pending' = pending \cup {e}
    BY DEF TaskSends, SendRequest
  <1>2. env \in [Envelopes -> Envelope] /\ AskOK(env[e], e \in pending) /\ pending \subseteq Envelopes
    BY RemoteParts DEF AsksOK
  <1>3. Moves(env, env', {e}, "sending")
    BY <1>1, <1>2, MovedMoves DEF EnvStages
  <1>4. s \in Seq(Envelopes) /\ Len(s) = 1 /\ s[1] = e /\ ToSet(s) = {e}
    BY DEF ToSet
  <1>5. p \in Parcels /\ p.items = s
    <2> HIDE DEF s
    <2> QED
      BY <1>4 DEF Parcel, Parcels
  <1> HIDE DEF s, p
  <1>6. Single(p.items) /\ AtLock(p.items, env')
    <2>1. 1..Len(s) = {1} /\ s # <<>>
      BY <1>4
    <2>2. Single(s)
      BY <1>4, <2>1 DEF Single
    <2>3. AtLock(s, env')
      BY <1>4, <2>1 DEF AtLock, ForOne, ForNode, Alone
    <2> QED
      BY <1>5, <2>2, <2>3
  <1>7. StayBatched(env, env')
    BY <1>3 DEF Moves, StayBatched
  <1> DEFINE l == In(Items(lock))
             b == In(Batched(batches))
             f == In(flush)
             u == In(buffers)
             ch == Channels(channel)
             l2 == In(Items(lock'))
  <1>8. SitesOK(l, b, f, u, ch, env) /\ b \subseteq Envelopes /\ f \subseteq Envelopes /\ u \subseteq Envelopes
    BY RemoteParts DEF Sites, In
  <1>9. e \notin l
    BY <1>1, <1>8 DEF SitesOK
  <1>10. LockLists(lock', env') /\ More(Items(lock), Items(lock'), p.items)
    <2>1. ToSet(p.items) \cap In(Items(lock)) = {}
      BY <1>4, <1>5, <1>9
    <2> QED
      BY <1>1, <1>5, <1>6, <1>7, <2>1, LockGrows
  <1>11. l2 = l \cup {e} /\ Sound(Items(lock'))
    BY <1>4, <1>5, <1>10 DEF More
  <1>12. SitesOK(l2, b, f, u, ch, env')
    <2> HIDE DEF l, b, f, u, ch, l2
    <2> QED
      BY <1>1, <1>3, <1>8, <1>11 DEF SitesOK, Moves
  <1>13. Sites'
    BY <1>1, <1>12 DEF Sites
  <1>14. ListsOK'
    BY <1>1, <1>10, RemoteParts DEF ListsOK, LockLists
  <1>15. FamiliesOK'
    BY <1>1, <1>11, RemoteParts DEF FamiliesOK
  <1>16. pending' \subseteq Envelopes
    BY <1>1, <1>2
  <1>17. RemoteType'
    BY <1>1, <1>3, <1>10, <1>16 DEF RemoteInv, RemoteType, LockLists, Moves
  <1>18. AsksOK(env', pending')
    <2> SUFFICES ASSUME NEW x \in Envelopes PROVE AskOK(env'[x], x \in pending')
      BY DEF AsksOK
    <2>1. AskOK(env[x], x \in pending)
      BY RemoteParts DEF AsksOK
    <2>2. CASE x # e
      BY <1>1, <1>3, <2>1, <2>2 DEF AskOK, Moves
    <2>3. CASE x = e
      BY <1>1, <1>3, <2>1, <2>3 DEF AskOK, Moves
    <2> QED
      BY <2>2, <2>3
  <1> QED
    BY <1>13, <1>14, <1>15, <1>17, <1>18 DEF RemoteInv

LEMMA CancelledKeepsRemote ==
    ASSUME RemoteInv, NEW e \in Envelopes, AskCancelled(e)
    PROVE  RemoteInv'
  <1> DEFINE s == IF env[e].stage \in {"spawned", "sending"} THEN "withdrawn" ELSE env[e].stage
             v == [env[e] EXCEPT !.reply = "cancelled", !.stage = s]
  <1>1. env \in [Envelopes -> Envelope] /\ env[e] \in Envelope /\ AskOK(env[e], e \in pending)
    BY RemoteParts DEF AsksOK
  <1>2. env[e].reply = "waiting" /\ env' = [env EXCEPT ![e] = v] /\ UNCHANGED <<channel, pending, buffers, batches, flush>>
    BY <1>1 DEF AskCancelled
  <1>3. env[e].mode = "ask"
    BY <1>1, <1>2 DEF AskOK
  <1>4. /\ s \in EnvStages /\ s \notin {"sending", "spawned"}
        /\ env[e].stage = "sending" => s = "withdrawn"
        /\ s = env[e].stage \/ s = "withdrawn"
        /\ env[e].stage = "queued" => s = "queued"
    BY <1>1 DEF EnvStages, Envelope
  <1> HIDE DEF s
  <1>5. v \in Envelope /\ v.mode = "ask" /\ v.reply = "cancelled" /\ v.stage = s
    BY <1>1, <1>3, <1>4 DEF Envelope, EnvReplies
  <1> HIDE DEF v
  <1>6. env' \in [Envelopes -> Envelope] /\ \A x \in Envelopes : env'[x] = IF x = e THEN v ELSE env[x]
    BY <1>1, <1>2, <1>5
  <1>7. StayBatched(env, env')
    BY <1>3, <1>6 DEF StayBatched
  <1>8. AsksOK(env', pending')
    <2>1. AskOK(v, e \in pending)
      BY <1>1, <1>2, <1>4, <1>5 DEF AskOK
    <2> QED
      BY <1>2, <1>6, <2>1, RemoteParts DEF AsksOK
  <1> DEFINE l == In(Items(lock))
             b == In(Batched(batches))
             f == In(flush)
             u == In(buffers)
             ch == Channels(channel)
             l2 == In(Items(lock'))
  <1>9. SitesOK(l, b, f, u, ch, env) /\ b \subseteq Envelopes /\ f \subseteq Envelopes /\ u \subseteq Envelopes
        /\ l \subseteq Envelopes
    BY RemoteParts DEF Sites, In
  <1>10. LockLists(lock', env') /\ Sound(Items(lock')) /\ l2 = l \ {e}
    <2>1. CASE \E i \in DOMAIN lock : e \in ToSet(lock[i].items)
      <3>1. PICK i \in DOMAIN lock : e \in ToSet(lock[i].items) /\ lock' = RemoveAt(lock, i)
        BY <2>1 DEF AskCancelled
      <3>2. i \in 1..Len(lock)
        BY RemoteParts
      <3>3. LockLists(lock', env') /\ Out(Items(lock), Items(lock'), lock[i].items)
        BY <1>7, <3>1, <3>2, LockShrinks
      <3>4. lock[i].items \in Seq(Envelopes) /\ AtLock(lock[i].items, env)
        BY <3>2, LockItems
      <3>5. \E j \in 1..Len(lock[i].items) : lock[i].items[j] = e
        BY <3>1, <3>4, ToSetIn
      <3>6. Len(lock[i].items) = 1
        BY <1>3, <3>4, <3>5 DEF AtLock, Alone
      <3>7. \A x : x \in ToSet(lock[i].items) <=> x = e
        <4>1. 1..1 = {1}
          OBVIOUS
        <4> QED
          BY <3>4, <3>5, <3>6, <4>1, ToSetIn
      <3>8. ToSet(lock[i].items) = {e}
        BY <3>7
      <3> QED
        BY <3>3, <3>8 DEF Out
    <2>2. CASE ~ \E i \in DOMAIN lock : e \in ToSet(lock[i].items)
      <3>1. lock' = lock
        BY <2>2 DEF AskCancelled
      <3>2. lock \in Seq(Parcels) /\ DOMAIN lock = 1..Len(lock) /\ Sound(Items(lock))
        BY RemoteParts DEF FamiliesOK
      <3>3. \A i \in 1..Len(lock) : AtLock(lock[i].items, env')
        BY <1>7, LockStaysAlone
      <3>4. e \notin l
        <4> SUFFICES ASSUME e \in l PROVE FALSE
          OBVIOUS
        <4>1. PICK i \in 1..Len(lock) : \E j \in 1..Len(lock[i].items) : lock[i].items[j] = e
          BY DEF In, Items
        <4>2. e \in ToSet(lock[i].items)
          BY <4>1, LockItems, ToSetIn
        <4> QED
          BY <2>2, <3>2, <4>2
      <3> QED
        BY <3>1, <3>2, <3>3, <3>4 DEF LockLists
    <2> QED
      BY <2>1, <2>2
  <1>11. e \notin b \cup f \cup u
    BY <1>3, <1>9 DEF SitesOK
  <1>12. SitesOK(l2, b, f, u, ch, env')
    <2> HIDE DEF l, b, f, u, ch, l2
    <2>1. l2 \cap b = {} /\ l2 \cap f = {} /\ b \cap f = {}
      BY <1>9, <1>10 DEF SitesOK
    <2>2. ASSUME NEW x \in Envelopes
          PROVE  /\ env'[x].stage = "sending" <=> x \in l2 \cup b \cup f
                 /\ env'[x].stage = "buffered" <=> x \in u
                 /\ env'[x].stage = "queued" <=> Held(ch, x)
      <3>1. /\ env[x].stage = "sending" <=> x \in l \cup b \cup f
            /\ env[x].stage = "buffered" <=> x \in u
            /\ env[x].stage = "queued" <=> Held(ch, x)
        BY <1>9 DEF SitesOK
      <3>2. CASE x = e
        BY <1>4, <1>5, <1>6, <1>10, <1>11, <3>1, <3>2
      <3>3. CASE x # e
        BY <1>6, <1>10, <3>1, <3>3
      <3> QED
        BY <3>2, <3>3
    <2>3. \A x \in b \cup f \cup u : env'[x].mode = "batch"
      BY <1>7, <1>9 DEF SitesOK, StayBatched
    <2>4. Apart(ch)
      BY <1>9 DEF SitesOK
    <2> QED
      BY <2>1, <2>2, <2>3, <2>4 DEF SitesOK
  <1>13. Sites'
    BY <1>2, <1>12 DEF Sites
  <1>14. ListsOK'
    BY <1>2, <1>10, RemoteParts DEF ListsOK, LockLists
  <1>15. FamiliesOK'
    BY <1>2, <1>10, RemoteParts DEF FamiliesOK
  <1>16. RemoteType'
    BY <1>2, <1>6, <1>10 DEF RemoteInv, RemoteType, LockLists
  <1> QED
    BY <1>8, <1>13, <1>14, <1>15, <1>16 DEF RemoteInv

\* The parcels are sound, and none has come that was not there.
SetAside ==
    /\ LockLists(lock', env') /\ Sound(Items(lock')) /\ In(Items(lock')) \subseteq In(Items(lock))
    /\ batches' \subseteq Parcels /\ Sound(Batched(batches')) /\ (\A x \in batches' : ForOne(x.items))
    /\ In(Batched(batches')) \subseteq In(Batched(batches))
    /\ flush' \in Seq(Seq(Envelopes)) /\ Sound(flush') /\ (\A i \in 1..Len(flush') : ForOne(flush'[i]))
    /\ In(flush') \subseteq In(flush)

FailedTo(c, d, es) ==
    /\ d \in [Envelopes -> Envelope]
    /\ \A e \in Envelopes :
          /\ d[e].mode = c[e].mode
          /\ d[e].stage = IF e \in es THEN "failed" ELSE c[e].stage
          /\ d[e].reply = IF e \in es /\ c[e].mode = "ask" THEN "error" ELSE c[e].reply

LEMMA FailedIs ==
    ASSUME RemoteInv, NEW es
    PROVE  FailedTo(env, AllFailed(es), es)
  <1>1. env \in [Envelopes -> Envelope]
    BY RemoteParts
  <1>2. ASSUME NEW e \in Envelopes
        PROVE  /\ Failed(e) \in Envelope /\ Failed(e).mode = env[e].mode /\ Failed(e).stage = "failed"
               /\ Failed(e).reply = IF env[e].mode = "ask" THEN "error" ELSE env[e].reply
    <2> DEFINE t == IF env[e].mode = "ask" THEN "error" ELSE env[e].reply
    <2>1. t \in EnvReplies /\ env[e] \in Envelope
      BY <1>1 DEF Envelope, EnvReplies
    <2>2. Failed(e) = [env[e] EXCEPT !.stage = "failed", !.reply = t]
      BY DEF Failed
    <2> HIDE DEF t
    <2>3. Failed(e) \in Envelope /\ Failed(e).mode = env[e].mode /\ Failed(e).stage = "failed" /\ Failed(e).reply = t
      BY <2>1, <2>2 DEF Envelope, EnvStages
    <2> QED
      BY <2>3 DEF t
  <1> DEFINE d == AllFailed(es)
  <1>3. d \in [Envelopes -> Envelope] /\ \A e \in Envelopes : d[e] = IF e \in es THEN Failed(e) ELSE env[e]
    BY <1>1, <1>2 DEF AllFailed
  <1> HIDE DEF d
  <1>4. FailedTo(env, d, es)
    BY <1>2, <1>3 DEF FailedTo
  <1> QED
    BY <1>4 DEF d

LEMMA FailedStays ==
    ASSUME RemoteInv, NEW es
    PROVE  StayBatched(env, AllFailed(es))
  BY FailedIs DEF FailedTo, StayBatched

\* A send fails, wherever its parcel is.
LEMMA FailedKeepsRemote ==
    ASSUME RemoteInv, NEW es, env' = AllFailed(es), pending' = pending \ es, UNCHANGED <<channel, buffers>>, SetAside,
           es \subseteq In(Items(lock)) \cup In(Batched(batches)) \cup In(flush),
           In(Items(lock')) \cup In(Batched(batches')) \cup In(flush')
              = (In(Items(lock)) \cup In(Batched(batches)) \cup In(flush)) \ es
    PROVE  RemoteInv'
  <1> DEFINE l == In(Items(lock))
             b == In(Batched(batches))
             f == In(flush)
             u == In(buffers)
             ch == Channels(channel)
             l2 == In(Items(lock'))
             b2 == In(Batched(batches'))
             f2 == In(flush')
  <1>1. /\ SitesOK(l, b, f, u, ch, env) /\ b \subseteq Envelopes /\ f \subseteq Envelopes /\ u \subseteq Envelopes
        /\ l \subseteq Envelopes /\ l2 \subseteq l /\ b2 \subseteq b /\ f2 \subseteq f
    BY RemoteParts DEF Sites, In, SetAside
  <1>2. es \subseteq l \cup b \cup f /\ l2 \cup b2 \cup f2 = (l \cup b \cup f) \ es
    OBVIOUS
  <1>3. FailedTo(env, env', es)
    BY FailedIs
  <1>4. AsksOK(env', pending')
    <2> SUFFICES ASSUME NEW e \in Envelopes PROVE AskOK(env'[e], e \in pending')
      BY DEF AsksOK
    <2>1. AskOK(env[e], e \in pending)
      BY RemoteParts DEF AsksOK
    <2>2. CASE e \in es
      <3>1. e \notin pending' /\ env'[e].stage = "failed" /\ env'[e].mode = env[e].mode
            /\ env'[e].reply = IF env[e].mode = "ask" THEN "error" ELSE env[e].reply
        BY <1>3, <2>2 DEF FailedTo
      <3>2. env'[e].reply # "waiting"
        BY <2>1, <3>1 DEF AskOK
      <3> QED
        BY <3>1, <3>2 DEF AskOK
    <2>3. CASE e \notin es
      <3>1. env'[e].mode = env[e].mode /\ env'[e].stage = env[e].stage /\ env'[e].reply = env[e].reply
        BY <1>3, <2>3 DEF FailedTo
      <3>2. e \in pending' <=> e \in pending
        BY <2>3
      <3> QED
        BY <2>1, <3>1, <3>2 DEF AskOK
    <2> QED
      BY <2>2, <2>3
  <1>5. SitesOK(l2, b2, f2, u, ch, env')
    <2> HIDE DEF l, b, f, u, ch, l2, b2, f2
    <2>1. l2 \cap b2 = {} /\ l2 \cap f2 = {} /\ b2 \cap f2 = {} /\ Apart(ch)
      BY <1>1 DEF SitesOK
    <2>2. ASSUME NEW x \in Envelopes
          PROVE  /\ env'[x].stage = "sending" <=> x \in l2 \cup b2 \cup f2
                 /\ env'[x].stage = "buffered" <=> x \in u
                 /\ env'[x].stage = "queued" <=> Held(ch, x)
      <3>1. /\ env[x].stage = "sending" <=> x \in l \cup b \cup f
            /\ env[x].stage = "buffered" <=> x \in u
            /\ env[x].stage = "queued" <=> Held(ch, x)
        BY <1>1 DEF SitesOK
      <3>2. env'[x].stage = IF x \in es THEN "failed" ELSE env[x].stage
        BY <1>3 DEF FailedTo
      <3>3. CASE x \in es
        <4>1. env'[x].stage = "failed" /\ env[x].stage = "sending"
          BY <1>2, <3>1, <3>2, <3>3
        <4> QED
          BY <1>2, <3>1, <3>3, <4>1
      <3>4. CASE x \notin es
        BY <1>2, <3>1, <3>2, <3>4
      <3> QED
        BY <3>3, <3>4
    <2>3. \A x \in b2 \cup f2 \cup u : env'[x].mode = "batch"
      BY <1>1, <1>3 DEF SitesOK, FailedTo
    <2> QED
      BY <2>1, <2>2, <2>3 DEF SitesOK
  <1>6. Sites'
    BY <1>5 DEF Sites
  <1>7. ListsOK'
    BY RemoteParts DEF ListsOK, LockLists, SetAside
  <1>8. FamiliesOK'
    BY RemoteParts DEF FamiliesOK, SetAside
  <1>9. RemoteType'
    <2>1. pending' \subseteq Envelopes
      BY RemoteParts
    <2> QED
      BY <1>3, <2>1 DEF RemoteInv, RemoteType, LockLists, SetAside, FailedTo
  <1> QED
    BY <1>4, <1>6, <1>7, <1>8, <1>9 DEF RemoteInv

\* The send at the head of the lock, into the channel of its node or failed.
LEMMA SendKeepsRemote ==
    ASSUME RemoteInv, TransportSend
    PROVE  RemoteInv'
  <1> DEFINE p == Head(lock)
             es == ToSet(p.items)
             n == Link(Target[Head(p.items)])
  <1>1. lock \in Seq(Parcels) /\ lock # <<>> /\ p.items # <<>> /\ lock' = Tail(lock) /\ UNCHANGED <<buffers, batches, flush>>
    BY RemoteParts DEF TransportSend
  <1>2. 1 \in 1..Len(lock) /\ p = lock[1]
    BY <1>1
  <1>3. /\ p \in Parcels /\ Single(p.items) /\ p.items \in Seq(Envelopes)
        /\ es \subseteq In(Items(lock)) /\ es \subseteq Envelopes
    BY <1>2, LockItems
  <1> DEFINE l == In(Items(lock))
             b == In(Batched(batches))
             f == In(flush)
             u == In(buffers)
             ch == Channels(channel)
             l2 == In(Items(lock'))
             dh == Channels(channel')
  <1>5. /\ SitesOK(l, b, f, u, ch, env) /\ b \subseteq Envelopes /\ f \subseteq Envelopes /\ u \subseteq Envelopes
        /\ l \subseteq Envelopes
    BY RemoteParts DEF Sites, In
  <1>6. \A e \in es : env[e].stage = "sending" /\ e \in l
    BY <1>3, <1>5 DEF SitesOK
  <1>7. ASSUME StayBatched(env, env')
        PROVE  LockLists(lock', env') /\ Sound(Items(lock')) /\ l2 = l \ es
    <2>1. LockLists(lock', env') /\ Out(Items(lock), Items(lock'), lock[1].items)
      BY <1>1, <1>2, <1>7, LockShrinks
    <2> QED
      BY <1>2, <2>1 DEF Out
  <1>8. ASSUME n \in Links, channel[n].up, channel' = [channel EXCEPT ![n].q = Append(@, p)], env' = Moved(es, "queued"), pending' = pending
        PROVE  RemoteInv'
    <2> DEFINE q == channel[n].q
               r == [channel[n] EXCEPT !.q = Append(q, p)]
    <2>1. channel \in [Links -> Channel] /\ channel[n] \in Channel /\ q \in Seq(Parcels) /\ Sound(Items(q))
          /\ env \in [Envelopes -> Envelope] /\ pending \subseteq Envelopes
      BY <1>8, RemoteParts DEF Channel, FamiliesOK
    <2>a. p \in Parcels /\ q \in Seq(Parcels)
      BY <1>3, <2>1
    <2>b. channel' = [channel EXCEPT ![n].q = Append(@, p)]
      BY <1>8
    <2>e. n \in Links
      BY <1>8
    <2> HIDE DEF p, n
    <2>c. channel' = [channel EXCEPT ![n] = r]
      BY <2>1, <2>b
    <2> HIDE DEF q
    <2>d. Append(q, p) \in Seq(Parcels)
      BY <2>a
    <2>2. channel' = [channel EXCEPT ![n] = r] /\ Append(q, p) \in Seq(Parcels)
      BY <2>c, <2>d
    <2>3. r \in Channel /\ r.q = Append(q, p) /\ r.up = channel[n].up
      BY <2>1, <2>2 DEF Channel
    <2> HIDE DEF r
    <2>4. channel' \in [Links -> Channel] /\ \A m \in Links : channel'[m] = IF m = n THEN r ELSE channel[m]
      BY <2>1, <2>2, <2>3, <2>e, ChannelSet
    <2>5. Moves(env, env', es, "queued")
      BY <1>8, <2>1, MovedMoves DEF EnvStages
    <2>6. AsksOK(env', pending) /\ StayBatched(env, env')
      BY <1>6, <2>5, MovesAsks
    <2>7. LockLists(lock', env') /\ Sound(Items(lock')) /\ l2 = l \ es
      BY <1>7, <2>6
    <2>8. es \cap In(Items(q)) = {}
      <3>1. In(Items(q)) = ch[n]
        BY <1>8 DEF Channels, q
      <3>2. \A e \in es : ~Held(ch, e)
        BY <1>3, <1>5, <1>6 DEF SitesOK
      <3> QED
        BY <1>8, <3>1, <3>2 DEF Held
    <2>9. More(Items(q), Items(r.q), p.items)
      BY <1>3, <2>1, <2>3, <2>8, ItemsAppend
    <2>10. \A m \in Links : dh[m] = IF m = n THEN ch[n] \cup es ELSE ch[m]
      BY <1>8, <2>4, <2>9 DEF Channels, More, q
    <2>11. Sites'
      <3>1. Apart(dh) /\ \A x \in Envelopes : Held(dh, x) <=> Held(ch, x) \/ x \in es
        <4>1. Apart(ch) /\ \A x \in es : ~Held(ch, x)
          BY <1>3, <1>5, <1>6 DEF SitesOK
        <4> HIDE DEF ch, dh, es, n
        <4> QED
          BY <1>8, <2>10, <4>1 DEF Apart, Held
      <3>2. l2 \cap b = {} /\ l2 \cap f = {} /\ b \cap f = {} /\ es \cap b = {} /\ es \cap f = {} /\ es \cap u = {}
        BY <1>3, <1>5, <1>6, <2>7 DEF SitesOK
      <3> HIDE DEF l, b, f, u, ch, l2, dh, es
      <3>3. ASSUME NEW x \in Envelopes
            PROVE  /\ env'[x].stage = "sending" <=> x \in l2 \cup b \cup f
                   /\ env'[x].stage = "buffered" <=> x \in u
                   /\ env'[x].stage = "queued" <=> Held(dh, x)
        <4>1. /\ env[x].stage = "sending" <=> x \in l \cup b \cup f
              /\ env[x].stage = "buffered" <=> x \in u
              /\ env[x].stage = "queued" <=> Held(ch, x)
          BY <1>5 DEF SitesOK
        <4>2. CASE x \in es
          BY <2>5, <2>7, <3>1, <3>2, <4>1, <4>2 DEF Moves
        <4>3. CASE x \notin es
          BY <2>5, <2>7, <3>1, <4>1, <4>3 DEF Moves
        <4> QED
          BY <4>2, <4>3
      <3>4. \A x \in b \cup f \cup u : env'[x].mode = "batch"
        BY <1>5, <2>6 DEF SitesOK, StayBatched
      <3>5. Apart(dh)
        BY <3>1
      <3>6. SitesOK(l2, b, f, u, dh, env')
        BY <3>2, <3>3, <3>4, <3>5 DEF SitesOK
      <3> QED
        BY <1>1, <3>6 DEF Sites, l2, b, f, u, dh
    <2>12. ListsOK'
      BY <1>1, <2>7, RemoteParts DEF ListsOK, LockLists
    <2>13. FamiliesOK'
      BY <1>1, <2>4, <2>7, <2>9, RemoteParts DEF FamiliesOK, More
    <2>14. RemoteType'
      BY <1>1, <1>8, <2>1, <2>3, <2>4, <2>5, <2>7 DEF RemoteInv, RemoteType, LockLists, Moves
    <2> QED
      BY <1>8, <2>6, <2>11, <2>12, <2>13, <2>14 DEF RemoteInv
  <1>9. ASSUME env' = AllFailed(es), pending' = pending \ es, UNCHANGED channel
        PROVE  RemoteInv'
    <2>1. StayBatched(env, env')
      BY <1>9, FailedStays
    <2>2. LockLists(lock', env') /\ Sound(Items(lock')) /\ l2 = l \ es
      BY <1>7, <2>1
    <2>3. es \cap b = {} /\ es \cap f = {} /\ es \subseteq l
      BY <1>3, <1>5 DEF SitesOK
    <2>4. l2 \subseteq l /\ l2 \cup b \cup f = (l \cup b \cup f) \ es /\ es \subseteq l \cup b \cup f
      BY <2>2, <2>3
    <2>5. /\ batches \subseteq Parcels /\ Sound(Batched(batches)) /\ (\A x \in batches : ForOne(x.items))
          /\ flush \in Seq(Seq(Envelopes)) /\ Sound(flush) /\ \A i \in 1..Len(flush) : ForOne(flush[i])
      BY RemoteParts DEF FamiliesOK, ListsOK
    <2> HIDE DEF es
    <2>6. SetAside
      BY <1>1, <2>2, <2>4, <2>5 DEF SetAside
    <2> QED
      BY <1>1, <1>9, <2>4, <2>6, FailedKeepsRemote
  <1> QED
    BY <1>8, <1>9 DEF TransportSend, Routed

\* A parcel that waits for its sender, in a batch or in the flush, comes to the lock or
\* is not serialized.
LEMMA HandedKeepsRemote ==
    ASSUME RemoteInv, NEW p \in Parcels, Single(p.items), ForOne(p.items),
           HandToTransport(p), UNCHANGED <<channel, pending, buffers>>,
           ToSet(p.items) \subseteq In(Batched(batches)) \cup In(flush),
           In(Batched(batches')) \subseteq In(Batched(batches)), In(flush') \subseteq In(flush),
           In(Batched(batches')) \cup In(flush') = (In(Batched(batches)) \cup In(flush)) \ ToSet(p.items),
           batches' \subseteq Parcels, Sound(Batched(batches')), \A x \in batches' : ForOne(x.items),
           flush' \in Seq(Seq(Envelopes)), Sound(flush'), \A i \in 1..Len(flush') : ForOne(flush'[i])
    PROVE  RemoteInv'
  <1> DEFINE es == ToSet(p.items)
             l == In(Items(lock))
             b == In(Batched(batches))
             f == In(flush)
             u == In(buffers)
             ch == Channels(channel)
             l2 == In(Items(lock'))
             b2 == In(Batched(batches'))
             f2 == In(flush')
  <1>1. /\ SitesOK(l, b, f, u, ch, env) /\ b \subseteq Envelopes /\ f \subseteq Envelopes /\ es \subseteq b \cup f
        /\ b2 \subseteq b /\ f2 \subseteq f /\ b2 \cup f2 = (b \cup f) \ es
    BY RemoteParts DEF Sites, In
  <1>2. \A e \in es : env[e].mode = "batch" /\ e \notin l
    BY <1>1 DEF SitesOK
  <1>3. CASE lock' = Append(lock, p) /\ env' = env
    <2>3. StayBatched(env, env)
      BY DEF StayBatched
    <2>4. AtLock(p.items, env)
      <3>1. p.items \in Seq(Envelopes) /\ \A j \in 1..Len(p.items) : p.items[j] \in es
        BY ToSetIn DEF Single
      <3> QED
        BY <1>2, <3>1 DEF Alone, AtLock
    <2>5. LockLists(lock', env) /\ More(Items(lock), Items(lock'), p.items)
      <3>1. ToSet(p.items) \cap In(Items(lock)) = {}
        BY <1>2
      <3> QED
        BY <1>3, <2>3, <2>4, <3>1, LockGrows
    <2>6. l2 = l \cup es /\ Sound(Items(lock'))
      BY <2>5 DEF More
    <2>7. SitesOK(l2, b2, f2, u, ch, env)
      <3> HIDE DEF es, l, b, f, u, ch, l2, b2, f2
      <3>1. l2 \cap b2 = {} /\ l2 \cap f2 = {} /\ b2 \cap f2 = {} /\ l2 \cup b2 \cup f2 = l \cup b \cup f
        BY <1>1, <2>6 DEF SitesOK
      <3> QED
        BY <1>1, <3>1 DEF SitesOK
    <2>8. Sites'
      BY <1>3, <2>7 DEF Sites
    <2>9. ListsOK'
      BY <1>3, <2>5, RemoteParts DEF ListsOK, LockLists
    <2>10. FamiliesOK'
      BY <2>6, RemoteParts DEF FamiliesOK
    <2>11. RemoteType'
      BY <1>3, <2>5 DEF RemoteInv, RemoteType, LockLists
    <2> QED
      BY <1>3, <2>8, <2>9, <2>10, <2>11, RemoteParts DEF RemoteInv
  <1>4. CASE env' = AllFailed(es) /\ lock' = lock
    <2>1. es \cap pending = {}
      <3>1. \A e \in es : AskOK(env[e], e \in pending)
        BY <1>1, RemoteParts DEF AsksOK
      <3> QED
        BY <1>2, <3>1 DEF AskOK
    <2>2. pending' = pending \ es
      BY <2>1
    <2>3. LockLists(lock', env')
      BY <1>4, FailedStays, LockStaysAlone, RemoteParts DEF LockLists
    <2>4. es \cap l = {} /\ l2 = l
      BY <1>2, <1>4
    <2>5. SetAside
      BY <1>1, <1>4, <2>3, RemoteParts DEF SetAside, FamiliesOK
    <2>6. es \subseteq l \cup b \cup f /\ l2 \cup b2 \cup f2 = (l \cup b \cup f) \ es
      BY <1>1, <2>4
    <2> HIDE DEF es
    <2> QED
      BY <1>4, <2>2, <2>5, <2>6, FailedKeepsRemote
  <1> QED
    BY <1>3, <1>4 DEF HandToTransport

LEMMA BatchKeepsRemote ==
    ASSUME RemoteInv, SendBatch
    PROVE  RemoteInv'
  <1>1. PICK p \in batches : HandToTransport(p) /\ batches' = batches \ {p}
    BY DEF SendBatch
  <1>2. UNCHANGED <<channel, pending, buffers, flush>>
    BY DEF SendBatch
  <1>3. batches \subseteq Parcels /\ Sound(Batched(batches)) /\ Sound(flush) /\ flush \in Seq(Seq(Envelopes)) /\ ListsOK /\ Sites
    BY RemoteParts DEF FamiliesOK
  <1> DEFINE F == Batched(batches)
             G == Batched(batches')
  <1>4. /\ p \in DOMAIN F /\ F[p] = p.items /\ DOMAIN G = DOMAIN F \ {p} /\ \A y \in DOMAIN G : G[y] = F[y]
    BY <1>1 DEF Batched
  <1> DEFINE old == [y \in DOMAIN G |-> y]
  <1>5. Leaves(F, G, p, old)
    BY <1>4 DEF Leaves
  <1> HIDE DEF old, F, G
  <1>6. Out(F, G, F[p])
    BY <1>3, <1>4, <1>5, FamilyLess DEF F
  <1>7. Single(p.items) /\ ToSet(p.items) \subseteq In(F)
    BY <1>3, <1>4, SoundLists DEF F
  <1>8. In(F) \cap In(flush) = {}
    BY <1>3 DEF Sites, SitesOK, F
  <1>9. Sound(G) /\ In(G) = In(F) \ ToSet(p.items)
    BY <1>4, <1>6 DEF Out
  <1>10. In(G) \cup In(flush) = (In(F) \cup In(flush)) \ ToSet(p.items)
    BY <1>7, <1>8, <1>9
  <1>11. flush' = flush /\ In(G) \subseteq In(F) /\ ToSet(p.items) \subseteq In(F) \cup In(flush)
    BY <1>2, <1>7, <1>9
  <1>12. ForOne(p.items) /\ p \in Parcels /\ batches' \subseteq Parcels /\ (\A x \in batches' : ForOne(x.items))
         /\ \A i \in 1..Len(flush) : ForOne(flush[i])
    BY <1>1, <1>3 DEF ListsOK
  <1> QED
    BY <1>1, <1>2, <1>3, <1>7, <1>9, <1>10, <1>11, <1>12, HandedKeepsRemote DEF F, G

LEMMA FlushSendsKeepsRemote ==
    ASSUME RemoteInv, FlushSends
    PROVE  RemoteInv'
  <1> DEFINE s == Head(flush)
             p == Parcel(s, "flush")
             t == Tail(flush)
  <1>1. flush # <<>> /\ HandToTransport(p) /\ flush' = t /\ UNCHANGED <<channel, pending, buffers, batches>>
    BY DEF FlushSends
  <1>2. batches \subseteq Parcels /\ Sound(Batched(batches)) /\ Sound(flush) /\ flush \in Seq(Seq(Envelopes)) /\ ListsOK /\ Sites
    BY RemoteParts DEF FamiliesOK
  <1>3. Out(flush, t, s)
    BY <1>1, <1>2, ListsTail
  <1>4. 1 \in DOMAIN flush /\ s = flush[1] /\ 1 \in 1..Len(flush)
    BY <1>1, <1>2
  <1>5. Single(s) /\ ToSet(s) \subseteq In(flush)
    BY <1>2, <1>4, SoundLists
  <1>6. t \in Seq(Seq(Envelopes)) /\ \A i \in 1..Len(t) : i + 1 \in 1..Len(flush) /\ t[i] = flush[i + 1]
    BY <1>1, <1>2
  <1>7. ForOne(s) /\ (\A i \in 1..Len(t) : ForOne(t[i])) /\ \A x \in batches : ForOne(x.items)
    BY <1>2, <1>4, <1>6 DEF ListsOK
  <1> HIDE DEF s, t
  <1>8. p \in Parcels /\ p.items = s
    BY <1>5 DEF Parcel, Parcels, Single
  <1> HIDE DEF p
  <1> DEFINE b == In(Batched(batches))
  <1>9. b \cap In(flush) = {}
    BY <1>2 DEF Sites, SitesOK
  <1> HIDE DEF b
  <1>10. Sound(t) /\ In(t) = In(flush) \ ToSet(s)
    BY <1>3 DEF Out
  <1>11. b \cup In(t) = (b \cup In(flush)) \ ToSet(s) /\ In(t) \subseteq In(flush) /\ ToSet(s) \subseteq b \cup In(flush)
    BY <1>5, <1>9, <1>10
  <1> QED
    BY <1>1, <1>2, <1>5, <1>6, <1>7, <1>8, <1>10, <1>11, HandedKeepsRemote DEF b

\* Some buffers are taken out.
Cleared(F, full) == [n \in Nodes |-> IF n \in full THEN <<>> ELSE F[n]]
InSome(F, full) == UNION {ToSet(F[n]) : n \in full}

LEMMA InSomeIs ==
    ASSUME NEW F \in [Nodes -> Seq(Envelopes)], NEW full \in SUBSET Nodes
    PROVE  /\ InSome(F, full) \subseteq Envelopes
           /\ \A e : e \in InSome(F, full) <=> \E n \in full : \E j \in 1..Len(F[n]) : F[n][j] = e
  <1>1. \A n \in full : F[n] \in Seq(Envelopes)
    OBVIOUS
  <1>2. \A n \in full : ToSet(F[n]) \subseteq Envelopes /\ \A e : e \in ToSet(F[n]) <=> \E j \in 1..Len(F[n]) : F[n][j] = e
    BY <1>1, ToSetIn
  <1>3. \A e : e \in InSome(F, full) <=> \E n \in full : e \in ToSet(F[n])
    BY DEF InSome
  <1>4. InSome(F, full) \subseteq Envelopes
    BY <1>2, <1>3
  <1>5. ASSUME NEW e PROVE e \in InSome(F, full) <=> \E n \in full : \E j \in 1..Len(F[n]) : F[n][j] = e
    BY <1>2, <1>3
  <1> QED
    BY <1>4, <1>5

LEMMA BuffersCleared ==
    ASSUME NEW F \in [Nodes -> Seq(Envelopes)], Sound(F), NEW full \in SUBSET Nodes
    PROVE  /\ Cleared(F, full) \in [Nodes -> Seq(Envelopes)]
           /\ Sound(Cleared(F, full)) /\ In(Cleared(F, full)) = In(F) \ InSome(F, full)
  <1> DEFINE G == Cleared(F, full)
  <1>1. \A n \in Nodes : F[n] \in Seq(Envelopes) /\ G[n] = IF n \in full THEN <<>> ELSE F[n]
    BY DEF Cleared
  <1>2. DOMAIN G = Nodes /\ DOMAIN F = Nodes
    BY DEF Cleared
  <1>3. G \in [Nodes -> Seq(Envelopes)]
    BY <1>1 DEF Cleared
  <1> HIDE DEF G
  <1>4. \A n \in Nodes : \A j \in 1..Len(G[n]) : n \notin full /\ G[n] = F[n]
    <2>1. Len(<<>>) = 0 /\ 1..0 = {}
      OBVIOUS
    <2> QED
      BY <1>1, <2>1
  <1>5. Sound(G)
    BY <1>2, <1>3, <1>4 DEF Sound, Lists, Once
  <1>6. ASSUME NEW e \in Envelopes PROVE e \in In(G) <=> e \in In(F) /\ e \notin InSome(F, full)
    <2>1. ASSUME e \in In(G) PROVE e \in In(F) /\ e \notin InSome(F, full)
      <3>1. PICK n \in Nodes : \E j \in 1..Len(G[n]) : G[n][j] = e
        BY <1>2, <2>1 DEF In
      <3>2. n \notin full /\ \E j \in 1..Len(F[n]) : F[n][j] = e
        BY <1>4, <3>1
      <3>3. e \in In(F)
        BY <1>2, <3>2 DEF In
      <3>4. e \notin InSome(F, full)
        BY <1>2, <3>2, InSomeIs DEF Sound, Once
      <3> QED
        BY <3>3, <3>4
    <2>2. ASSUME e \in In(F), e \notin InSome(F, full) PROVE e \in In(G)
      <3>1. PICK n \in Nodes : \E j \in 1..Len(F[n]) : F[n][j] = e
        BY <1>2, <2>2 DEF In
      <3>2. n \notin full
        BY <2>2, <3>1, InSomeIs
      <3> QED
        BY <1>1, <1>2, <3>1, <3>2 DEF In
    <2> QED
      BY <2>1, <2>2
  <1>7. In(G) = In(F) \ InSome(F, full)
    BY <1>6 DEF In
  <1> QED
    BY <1>3, <1>5, <1>7 DEF G

\* The envelope e is pushed to the buffer of n.
Grows(F, n, e) ==
    LET s == Append(F[n], e)
        G == [F EXCEPT ![n] = s]
    IN  /\ Single(s) /\ ToSet(s) = ToSet(F[n]) \cup {e} /\ s # <<>> /\ s[1] \in ToSet(F[n]) \cup {e}
        /\ G \in [Nodes -> Seq(Envelopes)] /\ Sound(G) /\ In(G) = In(F) \cup {e}

LEMMA BufferGrows ==
    ASSUME NEW F \in [Nodes -> Seq(Envelopes)], Sound(F), NEW n \in Nodes, NEW e \in Envelopes, e \notin In(F)
    PROVE  Grows(F, n, e)
  <1> DEFINE q == F[n]
             s == Append(q, e)
             k == Len(q)
             G == [F EXCEPT ![n] = s]
  <1>1. q \in Seq(Envelopes) /\ n \in DOMAIN F /\ DOMAIN F = Nodes
    OBVIOUS
  <1>2. Single(q) /\ ToSet(q) \subseteq In(F)
    BY <1>1, SoundLists
  <1>3. \A j \in 1..k : q[j] # e /\ q[j] \in ToSet(q)
    BY <1>1, <1>2, ToSetIn
  <1> HIDE DEF q
  <1>4. /\ k \in Nat /\ s \in Seq(Envelopes) /\ Len(s) = k + 1 /\ s # <<>> /\ s[k + 1] = e
        /\ \A j \in 1..k : s[j] = q[j]
    BY <1>1
  <1>5. \A j \in 1..(k + 1) : j = k + 1 \/ j \in 1..k
    BY <1>4
  <1> HIDE DEF s
  <1>6. Single(s)
    <2> SUFFICES ASSUME NEW i \in 1..(k + 1), NEW j \in 1..(k + 1), s[i] = s[j] PROVE i = j
      BY <1>4 DEF Single
    <2> QED
      BY <1>2, <1>3, <1>4, <1>5 DEF Single
  <1>7. ToSet(s) = ToSet(q) \cup {e}
    <2>1. \A x : x \in ToSet(s) <=> \E j \in 1..(k + 1) : s[j] = x
      BY <1>4, ToSetIn
    <2>2. \A x : x \in ToSet(q) <=> \E j \in 1..k : q[j] = x
      BY <1>1, ToSetIn
    <2>3. (\A j \in 1..k : j \in 1..(k + 1)) /\ k + 1 \in 1..(k + 1)
      BY <1>4
    <2>4. \A x : x \in ToSet(s) <=> x \in ToSet(q) \/ x = e
      BY <1>4, <1>5, <2>1, <2>2, <2>3
    <2> QED
      BY <2>4
  <1>8. s[1] \in ToSet(q) \cup {e}
    <2>1. 1 \in 1..Len(s)
      BY <1>4
    <2> QED
      BY <1>4, <1>7, <2>1, ToSetIn
  <1>9. G \in [Nodes -> Seq(Envelopes)] /\ \A m \in Nodes : G[m] = IF m = n THEN s ELSE F[m]
    BY <1>4
  <1> HIDE DEF G, k
  <1>10. DOMAIN G = Nodes
    BY <1>9
  <1>11. ASSUME NEW m \in Nodes, m # n, NEW i \in 1..Len(s), NEW j \in 1..Len(F[m]) PROVE s[i] # F[m][j]
    <2>1. F[m][j] \in In(F)
      BY <1>1, <1>11 DEF In
    <2>2. CASE s[i] = e
      BY <2>1, <2>2
    <2>3. CASE s[i] # e
      <3>1. s[i] \in ToSet(s)
        BY <1>4, ToSetIn
      <3>2. s[i] \in ToSet(q)
        BY <1>7, <2>3, <3>1
      <3>3. PICK r \in 1..Len(q) : q[r] = s[i]
        BY <1>1, <3>2, ToSetIn
      <3> QED
        BY <1>1, <1>11, <3>3 DEF Sound, Once, q
    <2> QED
      BY <2>2, <2>3
  <1>12. Once(G)
    <2> SUFFICES ASSUME NEW y \in Nodes, NEW z \in Nodes, NEW j \in 1..Len(G[y]), NEW i \in 1..Len(G[z]), G[y][j] = G[z][i]
                 PROVE  y = z /\ j = i
      BY <1>10 DEF Once
    <2>1. CASE y = n /\ z = n
      BY <1>6, <1>9, <2>1 DEF Single
    <2>2. CASE y = n /\ z # n
      BY <1>9, <1>11, <2>2
    <2>3. CASE y # n /\ z = n
      BY <1>9, <1>11, <2>3
    <2>4. CASE y # n /\ z # n
      BY <1>1, <1>9, <2>4 DEF Sound, Once
    <2> QED
      BY <2>1, <2>2, <2>3, <2>4
  <1>13. In(G) = In(F) \cup {e}
    <2>1. \A x : x \in ToSet(s) <=> \E j \in 1..Len(s) : s[j] = x
      BY <1>4, ToSetIn
    <2>2. \A x : x \in ToSet(q) <=> \E j \in 1..Len(q) : q[j] = x
      BY <1>1, ToSetIn
    <2>3. \A x : x \in In(G) <=> x \in Envelopes /\ \E m \in Nodes : \E j \in 1..Len(G[m]) : G[m][j] = x
      BY <1>10 DEF In
    <2>4. \A x : x \in In(F) <=> x \in Envelopes /\ \E m \in Nodes : \E j \in 1..Len(F[m]) : F[m][j] = x
      BY <1>1 DEF In
    <2>5. ASSUME NEW x \in In(G) PROVE x \in In(F) \cup {e}
      <3>1. PICK m \in Nodes : \E j \in 1..Len(G[m]) : G[m][j] = x
        BY <2>3
      <3>2. CASE m = n
        BY <1>2, <1>7, <1>9, <2>1, <3>1, <3>2
      <3>3. CASE m # n
        BY <1>9, <2>3, <2>4, <3>1, <3>3
      <3> QED
        BY <3>2, <3>3
    <2>6. ASSUME NEW x \in In(F) PROVE x \in In(G)
      <3>1. PICK m \in Nodes : \E j \in 1..Len(F[m]) : F[m][j] = x
        BY <2>4
      <3>2. CASE m = n
        <4>1. x \in ToSet(q)
          BY <2>2, <3>1, <3>2 DEF q
        <4>2. \E j \in 1..Len(s) : s[j] = x
          BY <1>7, <2>1, <4>1
        <4> QED
          BY <1>9, <2>3, <2>4, <4>2
      <3>3. CASE m # n
        BY <1>9, <2>3, <2>4, <3>1, <3>3
      <3> QED
        BY <3>2, <3>3
    <2>7. e \in In(G)
      <3>1. \E j \in 1..Len(s) : s[j] = e
        BY <1>7, <2>1
      <3> QED
        BY <1>9, <2>3, <3>1
    <2> QED
      BY <2>5, <2>6, <2>7
  <1>14. Sound(G)
    BY <1>9, <1>10, <1>12 DEF Sound, Lists
  <1> QED
    BY <1>4, <1>6, <1>7, <1>8, <1>9, <1>13, <1>14 DEF q, s, G, Grows

\* The envelope e, and all of es, are sent in batches, and those of es are on their way.
Takes(c, d, e, es) ==
    /\ d \in [Envelopes -> Envelope]
    /\ \A x \in Envelopes : /\ x = e \/ x \in es => d[x].mode = "batch" /\ d[x].reply = c[x].reply
                            /\ x \in es => d[x].stage = "sending"
                            /\ x = e /\ x \notin es => d[x].stage = "buffered"
                            /\ x # e /\ x \notin es => d[x] = c[x]

LEMMA TakenTakes ==
    ASSUME env \in [Envelopes -> Envelope], NEW e \in Envelopes, NEW es
    PROVE  Takes(env, Taken(e, es), e, es)
  <1>1. ASSUME NEW x \in Envelopes, NEW s \in {"sending", "buffered"}
        PROVE  LET v == [env[x] EXCEPT !.mode = "batch", !.stage = s]
               IN  v \in Envelope /\ v.mode = "batch" /\ v.reply = env[x].reply /\ v.stage = s
    BY DEF Envelope, EnvStages
  <1> DEFINE s(x) == IF x \in es THEN "sending" ELSE "buffered"
             v(x) == [env[x] EXCEPT !.mode = "batch", !.stage = s(x)]
  <1>2. \A x \in Envelopes : v(x) \in Envelope /\ v(x).mode = "batch" /\ v(x).reply = env[x].reply /\ v(x).stage = s(x)
    BY <1>1
  <1>3. Taken(e, es) = [x \in Envelopes |-> IF x = e \/ x \in es THEN v(x) ELSE env[x]]
    BY DEF Taken
  <1> HIDE DEF v
  <1>4. Taken(e, es) \in [Envelopes -> Envelope]
    BY <1>2, <1>3
  <1> QED
    BY <1>2, <1>3, <1>4 DEF Takes

\* Envelopes that are new or buffered are no asks in the table.
LEMMA TakesAsks ==
    ASSUME RemoteInv, NEW d, NEW e \in Envelopes, NEW es, Takes(env, d, e, es), env[e].stage = "new",
           \A x \in es \cap Envelopes : x = e \/ env[x].mode = "batch"
    PROVE  AsksOK(d, pending) /\ StayBatched(env, d)
  <1>1. StayBatched(env, d)
    <2> SUFFICES ASSUME NEW x \in Envelopes, env[x].mode = "batch" PROVE d[x].mode = "batch"
      BY DEF StayBatched
    <2> QED
      BY DEF Takes
  <1>2. ASSUME NEW x \in Envelopes PROVE AskOK(d[x], x \in pending)
    <2>1. AskOK(env[x], x \in pending)
      BY RemoteParts DEF AsksOK
    <2>2. CASE x = e \/ x \in es
      <3>1. x \notin pending /\ env[x].reply # "waiting"
        BY <2>1, <2>2 DEF AskOK
      <3>2. d[x].mode = "batch" /\ d[x].reply # "waiting" /\ d[x].stage # "new"
        BY <2>2, <3>1 DEF Takes
      <3> QED
        BY <3>1, <3>2 DEF AskOK
    <2>3. CASE ~(x = e \/ x \in es)
      BY <2>1, <2>3 DEF Takes
    <2> QED
      BY <2>2, <2>3
  <1> QED
    BY <1>1, <1>2 DEF AsksOK

LEMMA SendBatchedKeepsRemote ==
    ASSUME RemoteInv, NEW e \in Envelopes, SendBatched(e)
    PROVE  RemoteInv'
  <1> DEFINE n == Target[e]
             full == Append(buffers[n], e)
             due == Len(full) >= MaxItems
             es == ToSet(full)
             l == In(Items(lock))
             b == In(Batched(batches))
             f == In(flush)
             u == In(buffers)
             ch == Channels(channel)
             b2 == In(Batched(batches'))
             u2 == In(buffers')
  <1>1. env[e].stage = "new" /\ UNCHANGED <<channel, lock, pending, flush>>
    BY DEF SendBatched
  <1>2. /\ n \in Nodes /\ env \in [Envelopes -> Envelope] /\ buffers \in [Nodes -> Seq(Envelopes)] /\ Sound(buffers)
        /\ batches \subseteq Parcels /\ Sound(Batched(batches)) /\ ListsOK /\ FamiliesOK
    BY TransportAssumption, RemoteParts DEF FamiliesOK
  <1>3. /\ SitesOK(l, b, f, u, ch, env) /\ l \subseteq Envelopes /\ b \subseteq Envelopes /\ f \subseteq Envelopes
        /\ u \subseteq Envelopes
    BY RemoteParts DEF Sites, In
  <1>4. e \notin l \cup b \cup f /\ e \notin u
    BY <1>1, <1>3 DEF SitesOK
  <1>5. /\ Single(full) /\ es = ToSet(buffers[n]) \cup {e} /\ full # <<>> /\ full[1] \in es
        /\ [buffers EXCEPT ![n] = full] \in [Nodes -> Seq(Envelopes)] /\ Sound([buffers EXCEPT ![n] = full])
        /\ In([buffers EXCEPT ![n] = full]) = u \cup {e}
    <2>1. Grows(buffers, n, e)
      <3> HIDE DEF n
      <3> QED
        BY <1>2, <1>4, BufferGrows
    <2> QED
      BY <2>1 DEF Grows
  <1>6. ToSet(buffers[n]) \subseteq u /\ \A x \in u : env[x].mode = "batch" /\ env[x].stage = "buffered"
    <2>1. n \in DOMAIN buffers
      BY <1>2
    <2>2. ToSet(buffers[n]) \subseteq u
      BY <1>2, <2>1, SoundLists
    <2> QED
      BY <1>3, <2>2 DEF SitesOK
  <1>7. ForNode(full, n)
    <2>1. buffers[n] \in Seq(Envelopes) /\ ForNode(buffers[n], n)
      BY <1>2 DEF ListsOK
    <2>2. \A x \in ToSet(buffers[n]) : Target[x] = n
      BY <2>1, ToSetIn DEF ForNode
    <2>3. \A x \in es : Target[x] = n
      BY <1>5, <2>2
    <2>4. full \in Seq(Envelopes) /\ \A j \in 1..Len(full) : full[j] \in es
      BY <1>5, ToSetIn DEF Single
    <2> HIDE DEF full, es, n
    <2> QED
      BY <2>3, <2>4 DEF ForNode
  <1>8. CASE ~due
    <2>1. /\ env' = Taken(e, {}) /\ buffers' = [buffers EXCEPT ![n] = full] /\ batches' = batches
      BY <1>8 DEF SendBatched
    <2>2. Takes(env, env', e, {})
      BY <1>2, <2>1, TakenTakes
    <2>3. AsksOK(env', pending) /\ StayBatched(env, env')
      BY <1>1, <2>2, TakesAsks
    <2>4. u2 = u \cup {e} /\ Sound(buffers') /\ buffers' \in [Nodes -> Seq(Envelopes)]
          /\ \A m \in Nodes : buffers'[m] = IF m = n THEN full ELSE buffers[m]
      BY <1>2, <1>5, <2>1
    <2>5. SitesOK(l, b, f, u2, ch, env')
      <3>1. ASSUME NEW x \in Envelopes
            PROVE  /\ env'[x].stage = "sending" <=> x \in l \cup b \cup f
                   /\ env'[x].stage = "buffered" <=> x \in u2
                   /\ env'[x].stage = "queued" <=> Held(ch, x)
        <4>1. /\ env[x].stage = "sending" <=> x \in l \cup b \cup f
              /\ env[x].stage = "buffered" <=> x \in u
              /\ env[x].stage = "queued" <=> Held(ch, x)
          BY <1>3 DEF SitesOK
        <4> HIDE DEF l, b, f, u, ch, u2
        <4>2. CASE x = e
          <5>1. env'[x].stage = "buffered"
            BY <2>2, <4>2 DEF Takes
          <5> QED
            BY <1>1, <2>4, <4>1, <4>2, <5>1
        <4>3. CASE x # e
          <5>1. env'[x] = env[x]
            BY <2>2, <4>3 DEF Takes
          <5> QED
            BY <2>4, <4>1, <4>3, <5>1
        <4> QED
          BY <4>2, <4>3
      <3> HIDE DEF l, b, f, u, ch, u2
      <3>2. \A x \in b \cup f \cup u2 : env'[x].mode = "batch"
        <4>1. env'[e].mode = "batch"
          BY <2>2 DEF Takes
        <4>2. \A x \in b \cup f \cup u : env'[x].mode = "batch"
          BY <1>3, <2>3 DEF SitesOK, StayBatched
        <4> QED
          BY <2>4, <4>1, <4>2
      <3> QED
        BY <1>3, <3>1, <3>2 DEF SitesOK
    <2>6. Sites'
      BY <1>1, <2>1, <2>5 DEF Sites
    <2>7. ListsOK'
      <3>1. \A i \in 1..Len(lock) : AtLock(lock[i].items, env')
        BY <2>3, LockStaysAlone
      <3>2. \A m \in Nodes : ForNode(buffers'[m], m)
        BY <1>2, <1>7, <2>4 DEF ListsOK
      <3> QED
        BY <1>1, <1>2, <2>1, <3>1, <3>2 DEF ListsOK
    <2>8. FamiliesOK'
      BY <1>1, <1>2, <2>1, <2>4 DEF FamiliesOK
    <2>9. RemoteType'
      BY <1>1, <2>1, <2>2, <2>4 DEF RemoteInv, RemoteType, Takes
    <2> QED
      BY <1>1, <2>3, <2>6, <2>7, <2>8, <2>9 DEF RemoteInv
  <1>9. CASE due
    <2> DEFINE p == Parcel(full, e)
    <2>1. /\ env' = Taken(e, es) /\ buffers' = [buffers EXCEPT ![n] = <<>>] /\ batches' = batches \cup {p}
      BY <1>9 DEF SendBatched
    <2>2. Takes(env, env', e, es)
      BY <1>2, <2>1, TakenTakes
    <2>3. AsksOK(env', pending) /\ StayBatched(env, env')
      <3>1. \A x \in es \cap Envelopes : x = e \/ env[x].mode = "batch"
        BY <1>5, <1>6
      <3> QED
        BY <1>1, <2>2, <3>1, TakesAsks
    <2>4. u2 = u \ es /\ Sound(buffers') /\ buffers' \in [Nodes -> Seq(Envelopes)]
          /\ \A m \in Nodes : buffers'[m] = IF m = n THEN <<>> ELSE buffers[m]
      <3>1. buffers' = Cleared(buffers, {n})
        BY <1>2, <2>1 DEF Cleared
      <3>2. InSome(buffers, {n}) = ToSet(buffers[n])
        BY DEF InSome
      <3>3. {n} \in SUBSET Nodes
        BY <1>2
      <3>4. buffers' \in [Nodes -> Seq(Envelopes)] /\ Sound(buffers') /\ u2 = u \ ToSet(buffers[n])
        BY <1>2, <3>1, <3>2, <3>3, BuffersCleared
      <3>5. u \ ToSet(buffers[n]) = u \ es
        BY <1>4, <1>5
      <3>6. \A m \in Nodes : buffers'[m] = IF m = n THEN <<>> ELSE buffers[m]
        BY <1>2, <2>1
      <3> QED
        BY <3>4, <3>5, <3>6
    <2>5. p \in Parcels /\ p.items = full
      <3>1. full \in Seq(Envelopes)
        BY <1>5 DEF Single
      <3> HIDE DEF full
      <3> QED
        BY <3>1 DEF Parcel, Parcels
    <2>6. ForOne(p.items)
      <3>1. Target[full[1]] = n
        <4>1. full \in Seq(Envelopes) /\ full # <<>>
          BY <1>5 DEF Single
        <4> HIDE DEF full
        <4>2. 1 \in 1..Len(full)
          BY <4>1
        <4> QED
          BY <1>7, <4>2 DEF ForNode
      <3> HIDE DEF full, n, p
      <3> QED
        BY <1>5, <1>7, <2>5, <3>1 DEF ForOne
    <2> HIDE DEF p
    <2>7. es \cap (l \cup b \cup f) = {} /\ e \in es /\ es \subseteq u \cup {e}
      BY <1>3, <1>4, <1>5, <1>6 DEF SitesOK
    <2>8. b2 = b \cup es /\ Sound(Batched(batches'))
      <3> DEFINE F == Batched(batches)
                 G == Batched(batches')
      <3>1. Single(p.items) /\ ToSet(p.items) = es
        BY <1>5, <2>5
      <3>2. p \notin batches
        <4> SUFFICES ASSUME p \in batches PROVE FALSE
          OBVIOUS
        <4>1. p \in DOMAIN F /\ F[p] = p.items
          BY DEF Batched
        <4>2. es \subseteq b
          BY <1>2, <3>1, <4>1, SoundLists
        <4> QED
          BY <2>7, <4>2
      <3>3. DOMAIN F = batches /\ DOMAIN G = batches \cup {p} /\ G[p] = p.items /\ \A y \in batches : G[y] = F[y]
        BY <2>1 DEF Batched
      <3> HIDE DEF F, G
      <3>4. Enters(F, G, p, p.items)
        BY <3>2, <3>3 DEF Enters
      <3>5. Sound(F) /\ In(F) \cap ToSet(p.items) = {}
        BY <1>2, <2>7, <3>1 DEF F
      <3>6. More(F, G, p.items)
        BY <3>1, <3>4, <3>5, FamilyMore
      <3> QED
        BY <3>1, <3>6 DEF F, G, More
    <2>9. SitesOK(l, b2, f, u2, ch, env')
      <3>1. ASSUME NEW x \in Envelopes
            PROVE  /\ env'[x].stage = "sending" <=> x \in l \cup b2 \cup f
                   /\ env'[x].stage = "buffered" <=> x \in u2
                   /\ env'[x].stage = "queued" <=> Held(ch, x)
        <4>1. /\ env[x].stage = "sending" <=> x \in l \cup b \cup f
              /\ env[x].stage = "buffered" <=> x \in u
              /\ env[x].stage = "queued" <=> Held(ch, x)
          BY <1>3 DEF SitesOK
        <4> HIDE DEF l, b, f, u, ch, u2, b2, es
        <4>2. CASE x \in es
          <5>1. env'[x].stage = "sending" /\ env[x].stage \in {"buffered", "new"}
            BY <1>1, <2>2, <2>7, <4>1, <4>2 DEF Takes
          <5> QED
            BY <2>4, <2>7, <2>8, <4>1, <4>2, <5>1
        <4>3. CASE x \notin es
          <5>1. env'[x] = env[x]
            BY <2>2, <2>7, <4>3 DEF Takes
          <5> QED
            BY <2>4, <2>8, <4>1, <4>3, <5>1
        <4> QED
          BY <4>2, <4>3
      <3> HIDE DEF l, b, f, u, ch, u2, b2, es
      <3>2. \A x \in b2 \cup f \cup u2 : env'[x].mode = "batch"
        <4>1. \A x \in es \cap Envelopes : env'[x].mode = "batch"
          BY <2>2 DEF Takes
        <4>2. \A x \in b \cup f \cup u : env'[x].mode = "batch"
          BY <1>3, <2>3 DEF SitesOK, StayBatched
        <4> QED
          BY <1>3, <2>4, <2>7, <2>8, <4>1, <4>2
      <3>3. l \cap b2 = {} /\ l \cap f = {} /\ b2 \cap f = {}
        BY <1>3, <2>7, <2>8 DEF SitesOK
      <3> QED
        BY <1>3, <3>1, <3>2, <3>3 DEF SitesOK
    <2>10. Sites'
      BY <1>1, <2>9 DEF Sites
    <2>11. ListsOK'
      <3>1. \A i \in 1..Len(lock) : AtLock(lock[i].items, env')
        BY <2>3, LockStaysAlone
      <3>2. \A m \in Nodes : ForNode(buffers'[m], m)
        <4>1. ForNode(<<>>, n)
          BY DEF ForNode
        <4> QED
          BY <1>2, <2>4, <4>1 DEF ListsOK
      <3>3. \A x \in batches' : ForOne(x.items)
        BY <1>2, <2>1, <2>6 DEF ListsOK
      <3> QED
        BY <1>1, <1>2, <3>1, <3>2, <3>3 DEF ListsOK
    <2>12. FamiliesOK'
      BY <1>1, <1>2, <2>4, <2>8 DEF FamiliesOK
    <2>13. batches' \subseteq Parcels
      BY <1>2, <2>1, <2>5
    <2>14. RemoteType'
      BY <1>1, <2>2, <2>4, <2>13 DEF RemoteInv, RemoteType, Takes
    <2> QED
      BY <1>1, <2>3, <2>10, <2>11, <2>12, <2>14 DEF RemoteInv
  <1> QED
    BY <1>8, <1>9

\* The buffers of full, one after the other in some order.
LEMMA Ordered ==
    ASSUME NEW F \in [Nodes -> Seq(Envelopes)], Sound(F), NEW full \in SUBSET Nodes, NEW k \in Nat,
           NEW order \in Bijection(1..k, full), NEW fl, fl = [i \in DOMAIN order |-> F[order[i]]]
    PROVE  /\ fl \in Seq(Seq(Envelopes)) /\ Sound(fl) /\ In(fl) = InSome(F, full)
           /\ Len(fl) = k /\ \A i \in 1..k : order[i] \in full /\ fl[i] = F[order[i]]
  <1>1. /\ order \in [1..k -> full] /\ \A i, j \in 1..k : order[i] = order[j] => i = j
        /\ \A n \in full : \E i \in 1..k : order[i] = n
    BY DEF Bijection, Injection, Surjection, IsInjective
  <1>2. DOMAIN order = 1..k /\ \A i \in 1..k : order[i] \in full /\ order[i] \in Nodes /\ F[order[i]] \in Seq(Envelopes)
    BY <1>1
  <1>3. fl = [i \in 1..k |-> F[order[i]]]
    BY <1>2
  <1>4. fl \in [1..k -> Seq(Envelopes)]
    BY <1>2, <1>3
  <1>5. fl \in Seq(Seq(Envelopes)) /\ Len(fl) = k /\ DOMAIN fl = 1..k /\ \A i \in 1..k : fl[i] = F[order[i]]
    <2>1. \A i \in 1..k : fl[i] = F[order[i]]
      BY <1>3
    <2> QED
      BY <1>4, <2>1
  <1>6. DOMAIN F = Nodes
    OBVIOUS
  <1>7. Once(fl)
    BY <1>1, <1>2, <1>5, <1>6 DEF Sound, Once
  <1>8. Sound(fl)
    BY <1>2, <1>5, <1>7 DEF Sound, Lists
  <1>9. \A x : x \in InSome(F, full) <=> \E n \in full : \E j \in 1..Len(F[n]) : F[n][j] = x
    BY InSomeIs
  <1>10. \A x : x \in In(fl) <=> x \in Envelopes /\ \E i \in 1..k : \E j \in 1..Len(F[order[i]]) : F[order[i]][j] = x
    BY <1>5 DEF In
  <1>11. InSome(F, full) \subseteq Envelopes
    BY InSomeIs
  <1>12. \A x : x \in In(fl) <=> x \in InSome(F, full)
    BY <1>1, <1>2, <1>9, <1>10, <1>11
  <1> QED
    BY <1>2, <1>5, <1>8, <1>12

LEMMA FlushKeepsRemote ==
    ASSUME RemoteInv, NEW ns \in SUBSET Nodes, Flush(ns)
    PROVE  RemoteInv'
  <1> DEFINE full == {n \in ns : buffers[n] # <<>>}
             k == Cardinality(full)
             es == InSome(buffers, full)
             l == In(Items(lock))
             b == In(Batched(batches))
             f == In(flush)
             u == In(buffers)
             ch == Channels(channel)
             f2 == In(flush')
             u2 == In(buffers')
  <1>1. /\ flush = <<>> /\ full \in SUBSET Nodes /\ UNCHANGED <<channel, lock, pending, batches>>
        /\ flush' \in {[i \in DOMAIN order |-> buffers[order[i]]] : order \in Bijection(1..k, full)}
        /\ buffers' = Cleared(buffers, full) /\ env' = Moved(es, "sending")
    BY DEF Flush, Cleared, InSome
  <1>2. PICK order \in Bijection(1..k, full) : flush' = [i \in DOMAIN order |-> buffers[order[i]]]
    BY <1>1
  <1>3. k \in Nat
    <2>1. IsFiniteSet(Nodes)
      BY TransportAssumption
    <2> QED
      BY <1>1, <2>1, FS_Subset, FS_CardinalityType
  <1>4. /\ env \in [Envelopes -> Envelope] /\ buffers \in [Nodes -> Seq(Envelopes)] /\ Sound(buffers)
        /\ ListsOK /\ FamiliesOK
    BY RemoteParts DEF FamiliesOK
  <1>5. /\ SitesOK(l, b, f, u, ch, env) /\ l \subseteq Envelopes /\ b \subseteq Envelopes /\ u \subseteq Envelopes
    BY RemoteParts DEF Sites, In
  <1>6. f = {}
    BY <1>1, EmptyFamily
  <1>7. \A n \in full : buffers[n] # <<>>
    OBVIOUS
  <1> HIDE DEF full, k
  <1>8. /\ flush' \in Seq(Seq(Envelopes)) /\ Sound(flush') /\ f2 = es
        /\ Len(flush') = k /\ \A i \in 1..k : order[i] \in full /\ flush'[i] = buffers[order[i]]
    BY <1>1, <1>2, <1>3, <1>4, Ordered
  <1>9. buffers' \in [Nodes -> Seq(Envelopes)] /\ Sound(buffers') /\ u2 = u \ es
    BY <1>1, <1>4, BuffersCleared
  <1>10. es \subseteq u
    <2>1. \A n \in full : ToSet(buffers[n]) \subseteq u
      BY <1>1, <1>4, SoundLists
    <2> QED
      BY <2>1 DEF InSome
  <1>11. Moves(env, env', es, "sending")
    BY <1>1, <1>4, MovedMoves DEF EnvStages
  <1>12. AsksOK(env', pending) /\ StayBatched(env, env')
    <2>1. \A e \in es \cap Envelopes : env[e].stage = "buffered"
      BY <1>5, <1>10 DEF SitesOK
    <2> QED
      BY <1>11, <2>1, MovesAsks
  <1>13. Sites'
    <2>1. ASSUME NEW x \in Envelopes
          PROVE  /\ env'[x].stage = "sending" <=> x \in l \cup b \cup f2
                 /\ env'[x].stage = "buffered" <=> x \in u2
                 /\ env'[x].stage = "queued" <=> Held(ch, x)
      <3>1. /\ env[x].stage = "sending" <=> x \in l \cup b \cup f
            /\ env[x].stage = "buffered" <=> x \in u
            /\ env[x].stage = "queued" <=> Held(ch, x)
        BY <1>5 DEF SitesOK
      <3> HIDE DEF l, b, f, u, ch, u2, f2, es
      <3>2. env'[x].stage = IF x \in es THEN "sending" ELSE env[x].stage
        BY <1>11 DEF Moves
      <3> QED
        BY <1>6, <1>8, <1>9, <1>10, <3>1, <3>2
    <2> HIDE DEF l, b, f, u, ch, u2, f2, es
    <2>2. \A x \in b \cup u : env'[x].mode = "batch"
      BY <1>5, <1>12 DEF SitesOK, StayBatched
    <2>3. \A x \in b \cup f2 \cup u2 : env'[x].mode = "batch"
      BY <1>8, <1>9, <1>10, <2>2
    <2>4. l \cap b = {} /\ l \cap f2 = {} /\ b \cap f2 = {}
      <3>1. \A x \in u : x \notin l \cup b
        BY <1>5 DEF SitesOK
      <3> QED
        BY <1>5, <1>8, <1>10, <3>1 DEF SitesOK
    <2>5. SitesOK(l, b, f2, u2, ch, env')
      BY <1>5, <2>1, <2>3, <2>4 DEF SitesOK
    <2> QED
      BY <1>1, <2>5 DEF Sites, l, b, f2, u2, ch
  <1>14. ListsOK'
    <2>1. \A i \in 1..Len(lock) : AtLock(lock[i].items, env')
      BY <1>12, LockStaysAlone
    <2>2. \A m \in Nodes : ForNode(buffers[m], m) /\ buffers[m] \in Seq(Envelopes)
      BY <1>4 DEF ListsOK
    <2>3. \A m \in Nodes : ForNode(buffers'[m], m)
      <3>1. \A m \in Nodes : ForNode(<<>>, m)
        BY DEF ForNode
      <3> QED
        BY <1>1, <2>2, <3>1 DEF Cleared
    <2>4. \A i \in 1..Len(flush') : ForOne(flush'[i])
      <3> SUFFICES ASSUME NEW i \in 1..k PROVE ForOne(flush'[i])
        BY <1>8
      <3> DEFINE m == order[i]
                 s == buffers[m]
      <3>1. flush'[i] = s /\ m \in full
        BY <1>8
      <3> HIDE DEF m
      <3>2. m \in Nodes /\ s # <<>>
        BY <1>1, <1>7, <3>1
      <3>3. s \in Seq(Envelopes) /\ s # <<>> /\ ForNode(s, m)
        BY <2>2, <3>2
      <3> HIDE DEF s
      <3>4. 1 \in 1..Len(s)
        BY <3>3
      <3>5. Target[s[1]] = m
        BY <3>3, <3>4 DEF ForNode
      <3> QED
        BY <3>1, <3>3, <3>5 DEF ForOne
    <2> QED
      BY <1>1, <1>4, <2>1, <2>3, <2>4 DEF ListsOK
  <1>15. FamiliesOK'
    BY <1>1, <1>4, <1>8, <1>9 DEF FamiliesOK
  <1>16. RemoteType'
    BY <1>1, <1>8, <1>9, <1>11 DEF RemoteInv, RemoteType, Moves
  <1> QED
    BY <1>1, <1>12, <1>13, <1>14, <1>15, <1>16 DEF RemoteInv

\* Every step of a remote reference and its transport keeps the invariant.
LEMMA RemoteStepKeeps ==
    ASSUME RemoteInv, [RemoteNext]_rvars
    PROVE  RemoteInv'
  <1>1. CASE TransportStep
    BY <1>1, SendKeepsRemote, InsertedKeepsRemote, BatchKeepsRemote, FlushSendsKeepsRemote, ReceiveKeepsRemote, SendingKeepsRemote,
       ReplyKeepsRemote, CancelledKeepsRemote DEF TransportStep
  <1>2. CASE FlushAll
    BY <1>2, FlushKeepsRemote DEF FlushAll
  <1>3. ASSUME NEW n \in Nodes, RegisterNode(n) \/ FlushNode(n)
        PROVE  RemoteInv'
    <2>1. {n} \in SUBSET Nodes
      OBVIOUS
    <2> QED
      BY <1>3, <2>1, RegisterKeepsRemote, FlushKeepsRemote DEF FlushNode
  <1>4. ASSUME NEW n \in Nodes, RegistryUnregister(n)
        PROVE  RemoteInv'
    BY <1>4 DEF RegistryUnregister, RemoteInv, RemoteType, FamiliesOK, Sites, ListsOK
  <1>5. ASSUME NEW e \in Envelopes,
               \/ RemoteTell(e) \/ RemoteAsk(e) \/ RemoteStream(e) \/ RegistrySend(e) \/ SendBatched(e)
               \/ CancelRemoteAsk(e) \/ CompleteRequest(e)
        PROVE  RemoteInv'
    BY <1>5, CallKeepsRemote, SendBatchedKeepsRemote, ReplyKeepsRemote
  <1>6. CASE UNCHANGED rvars
    BY <1>6 DEF rvars, RemoteInv, RemoteType, FamiliesOK, Sites, ListsOK
  <1> QED
    BY <1>1, <1>2, <1>3, <1>4, <1>5, <1>6, GoneKeepsRemote DEF RemoteNext

LEMMA RemoteStarts ==
    ASSUME TransportInit
    PROVE  RemoteInv
  <1> DEFINE r == [up |-> FALSE, q |-> <<>>]
  <1>1. r \in Channel /\ NewEnvelope \in Envelope /\ r.q = <<>>
    BY DEF Channel, NewEnvelope, Envelope, EnvStages, EnvReplies
  <1>2. NewEnvelope.mode = "none" /\ NewEnvelope.stage = "new" /\ NewEnvelope.reply = "none"
    BY DEF NewEnvelope
  <1>3. /\ channel = [x \in Links |-> r] /\ lock = <<>> /\ pending = {} /\ env = [e \in Envelopes |-> NewEnvelope]
        /\ buffers = [n \in Nodes |-> <<>>] /\ batches = {} /\ flush = <<>>
    BY DEF TransportInit
  <1> HIDE DEF r
  <1>4. (\A x \in Links : channel[x].q = <<>>) /\ (\A n \in Nodes : buffers[n] = <<>>) /\ \A e \in Envelopes : env[e] = NewEnvelope
    BY <1>1, <1>3
  <1>5. RemoteType
    <2>1. <<>> \in Seq(Parcels) /\ <<>> \in Seq(Seq(Envelopes)) /\ <<>> \in Seq(Envelopes)
      OBVIOUS
    <2> QED
      BY <1>1, <1>3, <1>4, <2>1 DEF RemoteType
  <1>6. DOMAIN Batched(batches) = {} /\ DOMAIN buffers = Nodes
    BY <1>3 DEF Batched
  <1>7. 1..Len(<<>>) = {}
    OBVIOUS
  <1>8. Sound(Batched(batches)) /\ In(Batched(batches)) = {}
    BY <1>6 DEF Sound, Lists, Once, In
  <1>9. Sound(buffers) /\ In(buffers) = {}
    <2>1. \A n \in Nodes : buffers[n] \in Seq(Envelopes)
      BY <1>5 DEF RemoteType
    <2>2. \A n \in Nodes : 1..Len(buffers[n]) = {}
      BY <1>4, <1>7
    <2> QED
      BY <1>6, <2>1, <2>2 DEF Sound, Lists, Once, In
  <1>10. FamiliesOK
    BY <1>3, <1>4, <1>8, <1>9, EmptyFamily DEF FamiliesOK
  <1>11. \A x \in Links : Channels(channel)[x] = {}
    BY <1>4, EmptyFamily DEF Channels
  <1>12. Sites
    <2>1. In(Items(lock)) = {} /\ In(flush) = {}
      BY <1>3, EmptyFamily
    <2>2. Apart(Channels(channel)) /\ \A e : ~Held(Channels(channel), e)
      BY <1>11 DEF Apart, Held
    <2>3. SitesOK({}, {}, {}, {}, Channels(channel), env)
      BY <1>2, <1>4, <2>2 DEF SitesOK
    <2> QED
      BY <1>8, <1>9, <2>1, <2>3 DEF Sites
  <1>13. ListsOK
    <2>1. \A n \in Nodes : ForNode(buffers[n], n)
      BY <1>4, <1>7 DEF ForNode
    <2> QED
      BY <1>3, <1>7, <2>1 DEF ListsOK
  <1>14. AsksOK(env, pending)
    BY <1>2, <1>3, <1>4 DEF AsksOK, AskOK
  <1> QED
    BY <1>5, <1>10, <1>12, <1>13, <1>14 DEF RemoteInv

LEMMA RemoteInvHolds == Spec => []RemoteInv
  <1>1. Init => RemoteInv
    BY RemoteStarts DEF Init
  <1>2. RemoteInv /\ [Next]_cvars => RemoteInv'
    BY Frame, RemoteStepKeeps
  <1> QED
    BY <1>1, <1>2, PTL DEF Spec

\* RemoteActorRef::ask over send_request, complete_request and the failures of send():
\* the caller of a remote ask never waits for a reply that can no longer reach it, and
\* only cancelled asks leave an entry in the table.
THEOREM RemoteAsksStaySound == Spec => []RemoteAskIsSound
  <1>1. RemoteInv => RemoteAskIsSound
    <2> SUFFICES ASSUME RemoteInv, NEW e \in Envelopes
                 PROVE  /\ env[e].reply = "waiting" => e \in pending \/ env[e].stage \in {"spawned", "replied"}
                        /\ e \in pending => env[e].mode = "ask" /\ env[e].reply \in {"waiting", "cancelled"}
      BY DEF RemoteAskIsSound
    <2>1. AskOK(env[e], e \in pending)
      BY RemoteParts DEF AsksOK
    <2> QED
      BY <2>1 DEF AskOK
  <1> QED
    BY <1>1, RemoteInvHolds, PTL

\* The places P of an envelope in one family: one if it is in it, else none.
Spot(P, here) == IF here THEN \E c : P = {c} ELSE P = {}

LEMMA FamilyPlaces ==
    ASSUME NEW F, Sound(F), NEW T, NEW e \in Envelopes
    PROVE  Spot(UNION {PlacesIn(T[x], F[x], e) : x \in DOMAIN F}, e \in In(F))
  <1> DEFINE P == UNION {PlacesIn(T[x], F[x], e) : x \in DOMAIN F}
  <1>1. \A x \in DOMAIN F : F[x] \in Seq(Envelopes) /\ DOMAIN F[x] = 1..Len(F[x])
    BY DEF Sound, Lists
  <1>2. ASSUME NEW x \in DOMAIN F, NEW c
        PROVE  c \in PlacesIn(T[x], F[x], e) <=> \E j \in 1..Len(F[x]) : F[x][j] = e /\ c = <<T[x], j>>
    BY <1>1 DEF PlacesIn
  <1>3. ASSUME NEW c PROVE c \in P <=> \E x \in DOMAIN F : c \in PlacesIn(T[x], F[x], e)
    OBVIOUS
  <1> HIDE DEF P
  <1>4. ASSUME NEW c
        PROVE  c \in P <=> \E x \in DOMAIN F : \E j \in 1..Len(F[x]) : F[x][j] = e /\ c = <<T[x], j>>
    BY <1>2, <1>3
  <1>5. CASE e \notin In(F)
    <2>1. \A x \in DOMAIN F : \A j \in 1..Len(F[x]) : F[x][j] # e
      BY <1>5 DEF In
    <2>2. P = {}
      BY <1>4, <2>1
    <2> QED
      BY <1>5, <2>2 DEF Spot, P
  <1>6. CASE e \in In(F)
    <2>1. PICK x \in DOMAIN F : \E j \in 1..Len(F[x]) : F[x][j] = e
      BY <1>6 DEF In
    <2>2. PICK j \in 1..Len(F[x]) : F[x][j] = e
      BY <2>1
    <2>3. \A y \in DOMAIN F : \A k \in 1..Len(F[y]) : F[y][k] = e => y = x /\ k = j
      BY <2>2 DEF Sound, Once
    <2> DEFINE c == <<T[x], j>>
    <2>4. c \in P
      BY <1>4, <2>2
    <2>5. ASSUME NEW d \in P PROVE d = c
      BY <1>4, <2>3
    <2> HIDE DEF c
    <2>6. P = {c}
      BY <2>4, <2>5
    <2> QED
      BY <1>6, <2>6 DEF Spot, P
  <1> QED
    BY <1>5, <1>6

\* BatchedTransportSender, its flushes and the sends at the routes lock: nothing that
\* was accepted is lost or doubled between a buffer and a channel.
THEOREM EnvelopesStayConserved == Spec => []EnvelopesAreConserved
  <1>1. RemoteInv => EnvelopesAreConserved
    <2> SUFFICES ASSUME RemoteInv, NEW e \in Envelopes
                 PROVE  Cardinality(Places(e)) = IF env[e].stage \in {"buffered", "sending", "queued"} THEN 1 ELSE 0
      BY DEF EnvelopesAreConserved
    <2> DEFINE L == UNION {PlacesIn(<<"lock", i>>, lock[i].items, e) : i \in DOMAIN lock}
               B == UNION {PlacesIn(<<"batch", p>>, p.items, e) : p \in batches}
               F == UNION {PlacesIn(<<"flush", i>>, flush[i], e) : i \in DOMAIN flush}
               U == UNION {PlacesIn(<<"buffer", n>>, buffers[n], e) : n \in Nodes}
               C(n) == UNION {PlacesIn(<<"channel", n, i>>, channel[n].q[i].items, e) : i \in DOMAIN channel[n].q}
               H == UNION {C(n) : n \in Links}
               l == In(Items(lock))
               b == In(Batched(batches))
               f == In(flush)
               u == In(buffers)
               ch == Channels(channel)
    <2>8. Places(e) = L \cup B \cup F \cup U \cup H
      BY DEF Places
    <2>1. /\ lock \in Seq(Parcels) /\ flush \in Seq(Seq(Envelopes)) /\ buffers \in [Nodes -> Seq(Envelopes)]
          /\ FamiliesOK /\ channel \in [Links -> Channel] /\ SitesOK(l, b, f, u, ch, env)
      BY RemoteParts DEF Sites
    <2>2. Spot(L, e \in l)
      <3> DEFINE G == Items(lock)
                 T == [i \in DOMAIN lock |-> <<"lock", i>>]
      <3>1. DOMAIN G = DOMAIN lock /\ Sound(G) /\ \A i \in DOMAIN lock : G[i] = lock[i].items /\ T[i] = <<"lock", i>>
        BY <2>1 DEF Items, FamiliesOK
      <3> HIDE DEF G, T
      <3>2. Spot(UNION {PlacesIn(T[x], G[x], e) : x \in DOMAIN G}, e \in In(G))
        BY <3>1, FamilyPlaces
      <3>3. UNION {PlacesIn(T[x], G[x], e) : x \in DOMAIN G} = L
        BY <3>1
      <3> QED
        BY <3>2, <3>3 DEF G
    <2>3. Spot(B, e \in b)
      <3> DEFINE G == Batched(batches)
                 T == [p \in batches |-> <<"batch", p>>]
      <3>1. DOMAIN G = batches /\ Sound(G) /\ \A p \in batches : G[p] = p.items /\ T[p] = <<"batch", p>>
        BY <2>1 DEF Batched, FamiliesOK
      <3> HIDE DEF G, T
      <3>2. Spot(UNION {PlacesIn(T[x], G[x], e) : x \in DOMAIN G}, e \in In(G))
        BY <3>1, FamilyPlaces
      <3>3. UNION {PlacesIn(T[x], G[x], e) : x \in DOMAIN G} = B
        BY <3>1
      <3> QED
        BY <3>2, <3>3 DEF G
    <2>4. Spot(F, e \in f)
      <3> DEFINE T == [i \in DOMAIN flush |-> <<"flush", i>>]
      <3>1. Sound(flush) /\ \A i \in DOMAIN flush : T[i] = <<"flush", i>>
        BY <2>1 DEF FamiliesOK
      <3> HIDE DEF T
      <3>2. Spot(UNION {PlacesIn(T[x], flush[x], e) : x \in DOMAIN flush}, e \in In(flush))
        BY <3>1, FamilyPlaces
      <3>3. UNION {PlacesIn(T[x], flush[x], e) : x \in DOMAIN flush} = F
        BY <3>1
      <3> QED
        BY <3>2, <3>3
    <2>5. Spot(U, e \in u)
      <3> DEFINE T == [n \in Nodes |-> <<"buffer", n>>]
      <3>1. Sound(buffers) /\ DOMAIN buffers = Nodes /\ \A n \in Nodes : T[n] = <<"buffer", n>>
        BY <2>1 DEF FamiliesOK
      <3> HIDE DEF T
      <3>2. Spot(UNION {PlacesIn(T[x], buffers[x], e) : x \in DOMAIN buffers}, e \in In(buffers))
        BY <3>1, FamilyPlaces
      <3>3. UNION {PlacesIn(T[x], buffers[x], e) : x \in DOMAIN buffers} = U
        BY <3>1
      <3> QED
        BY <3>2, <3>3
    <2>6. ASSUME NEW n \in Links PROVE Spot(C(n), e \in ch[n])
      <3> DEFINE q == channel[n].q
                 G == Items(q)
                 T == [i \in DOMAIN q |-> <<"channel", n, i>>]
      <3>1. q \in Seq(Parcels) /\ Sound(G) /\ ch[n] = In(G)
        BY <2>1 DEF Channel, FamiliesOK, Channels
      <3>2. DOMAIN G = DOMAIN q /\ \A i \in DOMAIN q : G[i] = q[i].items /\ T[i] = <<"channel", n, i>>
        BY <3>1 DEF Items
      <3> HIDE DEF G, T
      <3>3. Spot(UNION {PlacesIn(T[x], G[x], e) : x \in DOMAIN G}, e \in In(G))
        BY <3>1, FamilyPlaces
      <3>4. UNION {PlacesIn(T[x], G[x], e) : x \in DOMAIN G} = C(n)
        BY <3>2
      <3> HIDE DEF ch, C
      <3> QED
        BY <3>1, <3>3, <3>4
    <2> HIDE DEF C
    <2>7. Spot(H, Held(ch, e))
      <3>1. Apart(ch)
        BY <2>1 DEF SitesOK
      <3> HIDE DEF ch
      <3>2. CASE Held(ch, e)
        <4>1. PICK n \in Links : e \in ch[n]
          BY <3>2 DEF Held
        <4>2. \A m \in Links : m # n => C(m) = {}
          BY <2>6, <3>1, <4>1 DEF Spot, Apart
        <4>3. H = C(n)
          BY <4>2
        <4> QED
          BY <2>6, <3>2, <4>1, <4>3 DEF Spot
      <3>3. CASE ~Held(ch, e)
        <4>1. \A m \in Links : C(m) = {}
          BY <2>6, <3>3 DEF Spot, Held
        <4>2. H = {}
          BY <4>1
        <4> QED
          BY <3>3, <4>2 DEF Spot
      <3> QED
        BY <3>2, <3>3
    <2>9. /\ env[e].stage = "sending" <=> e \in l \cup b \cup f
          /\ env[e].stage = "buffered" <=> e \in u
          /\ env[e].stage = "queued" <=> Held(ch, e)
          /\ l \cap b = {} /\ l \cap f = {} /\ b \cap f = {}
      BY <2>1 DEF SitesOK
    <2> HIDE DEF L, B, F, U, H, l, b, f, u, ch
    <2>10. CASE env[e].stage \in {"buffered", "sending", "queued"}
      <3>1. \E c : Places(e) = {c}
        <4>1. CASE env[e].stage = "buffered"
          BY <2>2, <2>3, <2>4, <2>5, <2>7, <2>8, <2>9, <4>1 DEF Spot
        <4>2. CASE env[e].stage = "queued"
          BY <2>2, <2>3, <2>4, <2>5, <2>7, <2>8, <2>9, <4>2 DEF Spot
        <4>3. CASE env[e].stage = "sending"
          BY <2>2, <2>3, <2>4, <2>5, <2>7, <2>8, <2>9, <4>3 DEF Spot
        <4> QED
          BY <2>10, <4>1, <4>2, <4>3
      <3> QED
        BY <2>10, <3>1, FS_Singleton
    <2>11. CASE env[e].stage \notin {"buffered", "sending", "queued"}
      <3>1. Places(e) = {}
        BY <2>2, <2>3, <2>4, <2>5, <2>7, <2>8, <2>9, <2>11 DEF Spot
      <3> QED
        BY <2>11, <3>1, FS_EmptySet
    <2> QED
      BY <2>10, <2>11
  <1> QED
    BY <1>1, RemoteInvHolds, PTL
-----------------------------------------------------------------------------
(***************************************************************************)
(* Metrics.  Buckets stand for stretches of time that do not overlap, and  *)
(* each holds what was recorded in its own; what no bucket holds any more  *)
(* is too old for the window less one bucket.                              *)
(***************************************************************************)

Bucket == [at : 1..MaxClock, n : [Metered -> Nat]]

\* A bucket takes records for BucketTime, or until it expires, if that is sooner.
Span == IF BucketTime <= MetricWindow THEN BucketTime ELSE MetricWindow + 1

LEMMA SpanIs == Span \in Nat /\ Span > 0 /\ Span <= BucketTime /\ Span <= MetricWindow + 1
                /\ BucketTime \in Nat /\ MetricWindow \in Nat
                /\ \A n \in Int : n < BucketTime /\ n <= MetricWindow => n < Span
  BY MetricsAssumption DEF Span

\* The time that a bucket stands for.
Covers(b, t) == b.at <= t /\ t < b.at + Span
Share(rec, b) == SumOf([t \in 1..MaxClock |-> IF Covers(b, t) THEN rec[t] ELSE 0], MaxClock)

MetricsType ==
    /\ clock \in 1..MaxClock
    /\ buckets \in Seq(Bucket)
    /\ recorded \in [Metered -> [1..MaxClock -> Nat]]
    /\ recorder \in [Recorders -> Metered \cup {"idle", "handling", "failed"}]
    /\ counted \in [Metered -> Nat]

\* Buckets stand for times that lie apart, none of them ahead.
BucketsApart(bs, moment) ==
    /\ \A i, j \in DOMAIN bs : i < j => bs[i].at + Span <= bs[j].at
    /\ \A i \in DOMAIN bs : bs[i].at <= moment

\* No bucket has expired.
Active(bs, moment) == \A i \in DOMAIN bs : moment - bs[i].at <= MetricWindow

\* A bucket holds what was recorded in its time.
BucketsExact(bs, rec) ==
    \A i \in DOMAIN bs, k \in Metered : bs[i].n[k] = Share(rec[k], bs[i])

\* What was recorded is in a bucket, or too old for the narrower window.
Covered(bs, rec, moment) ==
    \A k \in Metered, t \in 1..MaxClock :
        rec[k][t] > 0 => /\ t <= moment
                         /\ \/ moment - t > MetricWindow - (Span - 1)
                            \/ \E i \in DOMAIN bs : Covers(bs[i], t)

\* A recorder that has counted a message or an error and not yet recorded it.
Behind(k) == {r \in Recorders : recorder[r] = k}
CountersLead ==
    \A k \in {"message", "error"} : SumOf(recorded[k], MaxClock) + Cardinality(Behind(k)) <= counted[k]

MetricsInv ==
    /\ MetricsType
    /\ BucketsApart(buckets, clock)
    /\ BucketsExact(buckets, recorded)
    /\ Covered(buckets, recorded, clock)
    /\ CountersLead

LEMMA BucketParts ==
    ASSUME NEW bs \in Seq(Bucket), NEW i \in DOMAIN bs
    PROVE  /\ bs[i] \in Bucket /\ i \in 1..Len(bs) /\ i \in Nat /\ Len(bs) \in Nat
           /\ bs[i].at \in 1..MaxClock /\ bs[i].at \in Nat
           /\ bs[i].n \in [Metered -> Nat]
           /\ \A k \in Metered : bs[i].n[k] \in Nat
  <1>1. bs[i] \in Bucket /\ i \in 1..Len(bs) /\ Len(bs) \in Nat
    BY ElementOfSeq
  <1> QED
    BY <1>1, MetricsAssumption, SpanIs DEF Bucket

\* evict_expired: what it keeps is in order, exact and holds all that is recent.
LEMMA EvictKeeps ==
    ASSUME NEW bs \in Seq(Bucket), NEW rec, NEW moment \in 1..MaxClock,
           BucketsApart(bs, moment), BucketsExact(bs, rec), Covered(bs, rec, moment),
           NEW kept, kept = Retain(bs, {i \in DOMAIN bs : \E j \in 1..i : moment - bs[j].at <= MetricWindow})
    PROVE  kept \in Seq(Bucket) /\ BucketsApart(kept, moment) /\ BucketsExact(kept, rec)
           /\ Covered(kept, rec, moment) /\ Active(kept, moment)
  <1> DEFINE K == {i \in DOMAIN bs : \E j \in 1..i : moment - bs[j].at <= MetricWindow}
  <1>1. kept = Retain(bs, K)
    OBVIOUS
  <1>2. K \subseteq DOMAIN bs /\ DOMAIN bs = 1..Len(bs) /\ Len(bs) \in Nat
    OBVIOUS
  <1>3. /\ \A i \in DOMAIN bs : moment - bs[i].at <= MetricWindow => i \in K
        /\ \A i \in K : \E j \in 1..i : moment - bs[j].at <= MetricWindow
    BY <1>2
  <1> HIDE DEF K
  <1>4. kept \in Seq(Bucket) /\ \E h : IsPick(bs, K, Len(bs), kept, h)
    BY <1>1, RetainPicks
  <1>5. PICK h : IsPick(bs, K, Len(bs), kept, h)
    BY <1>4
  <1>6. /\ \A k \in 1..Len(kept) : h[k] \in K /\ h[k] \in DOMAIN bs /\ kept[k] = bs[h[k]]
        /\ \A k, l \in 1..Len(kept) : k < l => h[k] < h[l]
        /\ \A j \in K : \E k \in 1..Len(kept) : h[k] = j
    <2>1. (1..Len(bs)) \cap K = K
      BY <1>2
    <2> QED
      BY <1>2, <1>5, <2>1 DEF IsPick
  <1>7. DOMAIN kept = 1..Len(kept)
    BY <1>4
  <1>8. BucketsApart(kept, moment)
    <2>1. ASSUME NEW k \in DOMAIN kept, NEW l \in DOMAIN kept, k < l
          PROVE  kept[k].at + Span <= kept[l].at
      <3>1. h[k] \in DOMAIN bs /\ h[l] \in DOMAIN bs /\ h[k] < h[l] /\ kept[k] = bs[h[k]] /\ kept[l] = bs[h[l]]
        BY <1>6, <1>7, <2>1
      <3> QED
        BY <3>1 DEF BucketsApart
    <2>2. \A k \in DOMAIN kept : kept[k].at <= moment
      BY <1>6, <1>7 DEF BucketsApart
    <2> QED
      BY <2>1, <2>2 DEF BucketsApart
  <1>9. BucketsExact(kept, rec)
    <2> SUFFICES ASSUME NEW i \in DOMAIN kept, NEW k \in Metered PROVE kept[i].n[k] = Share(rec[k], kept[i])
      BY DEF BucketsExact
    <2>1. h[i] \in DOMAIN bs /\ kept[i] = bs[h[i]]
      BY <1>6, <1>7
    <2>2. bs[h[i]].n[k] = Share(rec[k], bs[h[i]])
      BY <2>1 DEF BucketsExact
    <2> QED
      BY <2>1, <2>2
  <1>10. Covered(kept, rec, moment)
    <2> SUFFICES ASSUME NEW k \in Metered, NEW t \in 1..MaxClock, rec[k][t] > 0
                 PROVE  /\ t <= moment
                        /\ \/ moment - t > MetricWindow - (Span - 1)
                           \/ \E i \in DOMAIN kept : Covers(kept[i], t)
      BY DEF Covered
    <2>1. /\ t <= moment
          /\ \/ moment - t > MetricWindow - (Span - 1)
             \/ \E i \in DOMAIN bs : Covers(bs[i], t)
      BY DEF Covered
    <2>2. ASSUME NEW i \in DOMAIN bs, Covers(bs[i], t), ~(moment - t > MetricWindow - (Span - 1))
          PROVE  \E l \in DOMAIN kept : Covers(kept[l], t)
      <3>1. bs[i].at \in Nat /\ t < bs[i].at + Span /\ t \in Nat /\ moment \in Nat
        BY <2>2, BucketParts, MetricsAssumption, SpanIs DEF Covers
      <3>2. moment - bs[i].at <= MetricWindow
        BY <2>2, <3>1, MetricsAssumption, SpanIs
      <3>3. PICK l \in 1..Len(kept) : h[l] = i
        BY <1>3, <1>6, <3>2
      <3>4. kept[l] = bs[i]
        BY <1>6, <3>3
      <3> QED
        BY <1>7, <2>2, <3>3, <3>4
    <2> QED
      BY <2>1, <2>2
  <1>11. ASSUME NEW k \in DOMAIN kept PROVE moment - kept[k].at <= MetricWindow
    <2>1. h[k] \in K /\ h[k] \in DOMAIN bs /\ kept[k] = bs[h[k]]
      BY <1>6, <1>7
    <2>2. PICK j \in 1..h[k] : moment - bs[j].at <= MetricWindow
      BY <1>3, <2>1
    <2>3. j \in DOMAIN bs /\ j \in Nat /\ h[k] \in Nat /\ j <= h[k]
      BY <1>2, <2>1, <2>2
    <2>4. bs[j].at \in Nat /\ bs[h[k]].at \in Nat /\ moment \in Nat
      BY <2>1, <2>3, BucketParts, MetricsAssumption, SpanIs
    <2>5. bs[j].at <= bs[h[k]].at
      <3>1. CASE j < h[k]
        <4>1. bs[j].at + Span <= bs[h[k]].at
          BY <2>1, <2>3, <3>1 DEF BucketsApart
        <4> QED
          BY <2>4, <4>1, SpanIs
      <3>2. CASE j = h[k]
        BY <2>4, <3>2
      <3> QED
        BY <2>3, <3>1, <3>2
    <2> QED
      BY <2>1, <2>2, <2>4, <2>5, SpanIs
  <1> QED
    BY <1>4, <1>8, <1>9, <1>10, <1>11 DEF Active

\* A share does not see the counts of the bucket.
LEMMA ShareOfTime ==
    ASSUME NEW rec, NEW b, NEW c, b.at = c.at
    PROVE  Share(rec, b) = Share(rec, c)
  BY DEF Share, Covers

\* current_bucket: the last bucket stands for the present.
LEMMA CurrentKeeps ==
    ASSUME NEW kept \in Seq(Bucket), NEW rec \in [Metered -> [1..MaxClock -> Nat]], NEW moment \in 1..MaxClock,
           BucketsApart(kept, moment), BucketsExact(kept, rec), Covered(kept, rec, moment),
           Active(kept, moment), NEW current,
           current = IF kept # <<>> /\ moment - Last(kept).at < BucketTime THEN kept
                     ELSE Append(kept, [at |-> moment, n |-> [k \in Metered |-> 0]])
    PROVE  /\ current \in Seq(Bucket) /\ Len(current) \in DOMAIN current
           /\ BucketsApart(current, moment) /\ BucketsExact(current, rec) /\ Covered(current, rec, moment)
           /\ Covers(current[Len(current)], moment)
  <1>1. Len(kept) \in Nat /\ DOMAIN kept = 1..Len(kept) /\ moment \in Nat
        /\ Span \in Nat /\ Span > 0 /\ MetricWindow \in Nat /\ BucketTime \in Nat
        /\ Span <= BucketTime /\ Span <= MetricWindow + 1
        /\ \A n \in Int : n < BucketTime /\ n <= MetricWindow => n < Span
    BY SpanIs, MetricsAssumption
  <1>2. CASE kept # <<>> /\ moment - Last(kept).at < BucketTime
    <2>1. current = kept /\ Len(kept) \in DOMAIN kept
      BY <1>1, <1>2, EmptySeq
    <2>2. kept[Len(kept)].at \in Nat /\ kept[Len(kept)].at <= moment
      BY <2>1, BucketParts DEF BucketsApart
    <2>3. moment - kept[Len(kept)].at < BucketTime /\ moment - kept[Len(kept)].at <= MetricWindow
      BY <1>2, <2>1 DEF Active, Last
    <2>4. moment - kept[Len(kept)].at < Span
      <3>1. moment - kept[Len(kept)].at \in Int
        BY <1>1, <2>2
      <3> QED
        BY <2>3, <3>1, SpanIs
    <2>5. Covers(kept[Len(kept)], moment)
      BY <1>1, <2>2, <2>4 DEF Covers
    <2> QED
      BY <2>1, <2>5
  <1>3. CASE ~(kept # <<>> /\ moment - Last(kept).at < BucketTime)
    <2> DEFINE new == [at |-> moment, n |-> [k \in Metered |-> 0]]
    <2>1. new \in Bucket
      BY DEF Bucket
    <2>2. current = Append(kept, new)
      BY <1>3
    <2>3. /\ current \in Seq(Bucket) /\ Len(current) = Len(kept) + 1
          /\ DOMAIN current = 1..(Len(kept) + 1)
          /\ current[Len(kept) + 1] = new
          /\ \A i \in DOMAIN kept : current[i] = kept[i]
      BY <1>1, <2>1, <2>2, AppendProperties
    <2>4. \A i \in DOMAIN kept : kept[i].at + Span <= moment
      <3> SUFFICES ASSUME NEW i \in DOMAIN kept PROVE kept[i].at + Span <= moment
        OBVIOUS
      <3>1. Len(kept) \in DOMAIN kept /\ i <= Len(kept) /\ kept # <<>>
        BY <1>1, EmptySeq
      <3>2. kept[i].at \in Nat /\ kept[Len(kept)].at \in Nat
        BY <3>1, BucketParts
      <3>3. kept[Len(kept)].at + Span <= moment
        BY <1>1, <1>3, <3>1, <3>2 DEF Last
      <3>4. i < Len(kept) => kept[i].at + Span <= kept[Len(kept)].at
        BY <3>1 DEF BucketsApart
      <3> QED
        BY <1>1, <3>1, <3>2, <3>3, <3>4
    <2>5. new.at = moment /\ \A k \in Metered : new.n[k] = 0
      OBVIOUS
    <2> HIDE DEF new
    <2>6. BucketsApart(current, moment)
      <3>1. ASSUME NEW i \in DOMAIN current, NEW j \in DOMAIN current, i < j
            PROVE  current[i].at + Span <= current[j].at
        <4>1. i \in DOMAIN kept /\ current[i] = kept[i]
          BY <1>1, <2>3, <3>1
        <4>2. CASE j = Len(kept) + 1
          BY <2>3, <2>4, <2>5, <4>1, <4>2
        <4>3. CASE j # Len(kept) + 1
          <5>1. j \in DOMAIN kept /\ current[j] = kept[j]
            BY <1>1, <2>3, <4>3
          <5> QED
            BY <3>1, <4>1, <5>1 DEF BucketsApart
        <4> QED
          BY <4>2, <4>3
      <3>2. ASSUME NEW i \in DOMAIN current PROVE current[i].at <= moment
        <4>1. CASE i = Len(kept) + 1
          BY <1>1, <2>3, <2>5, <4>1
        <4>2. CASE i # Len(kept) + 1
          <5>1. i \in DOMAIN kept /\ current[i] = kept[i]
            BY <1>1, <2>3, <4>2
          <5> QED
            BY <5>1 DEF BucketsApart
        <4> QED
          BY <4>1, <4>2
      <3> QED
        BY <3>1, <3>2 DEF BucketsApart
    <2>7. \A k \in Metered, t \in 1..MaxClock : Covers(new, t) => rec[k][t] = 0
      <3> SUFFICES ASSUME NEW k \in Metered, NEW t \in 1..MaxClock, Covers(new, t), rec[k][t] # 0
                   PROVE  FALSE
        OBVIOUS
      <3>1. rec[k][t] \in Nat /\ rec[k][t] > 0 /\ t \in Nat
        BY MetricsAssumption, SpanIs
      <3>2. t <= moment /\ (moment - t > MetricWindow - (Span - 1) \/ \E i \in DOMAIN kept : Covers(kept[i], t))
        BY <3>1 DEF Covered
      <3>3. t = moment
        BY <1>1, <2>5, <3>1, <3>2 DEF Covers
      <3>4. PICK i \in DOMAIN kept : Covers(kept[i], t)
        BY <1>1, <3>1, <3>2, <3>3
      <3>5. kept[i].at \in Nat
        BY BucketParts
      <3> QED
        BY <1>1, <2>4, <3>3, <3>4, <3>5 DEF Covers
    <2>8. \A k \in Metered : Share(rec[k], new) = 0
      <3> SUFFICES ASSUME NEW k \in Metered PROVE Share(rec[k], new) = 0
        OBVIOUS
      <3> DEFINE f == [t \in 1..MaxClock |-> IF Covers(new, t) THEN rec[k][t] ELSE 0]
      <3>1. \A t \in 1..MaxClock : f[t] = 0
        BY <2>7
      <3> HIDE DEF f
      <3>2. SumOf(f, MaxClock) = 0
        BY <3>1, SumZero, MetricsAssumption, SpanIs
      <3> QED
        BY <3>2 DEF f, Share
    <2>9. BucketsExact(current, rec)
      <3> SUFFICES ASSUME NEW i \in DOMAIN current, NEW k \in Metered PROVE current[i].n[k] = Share(rec[k], current[i])
        BY DEF BucketsExact
      <3>1. CASE i = Len(kept) + 1
        BY <2>3, <2>5, <2>8, <3>1
      <3>2. CASE i # Len(kept) + 1
        <4>1. i \in DOMAIN kept /\ current[i] = kept[i]
          BY <1>1, <2>3, <3>2
        <4>2. kept[i].n[k] = Share(rec[k], kept[i])
          BY <4>1 DEF BucketsExact
        <4> QED
          BY <4>1, <4>2
      <3> QED
        BY <3>1, <3>2
    <2>10. Covered(current, rec, moment)
      <3>1. \A i \in DOMAIN kept : i \in DOMAIN current /\ current[i] = kept[i]
        BY <1>1, <2>3
      <3>2. \A t : (\E i \in DOMAIN kept : Covers(kept[i], t)) => (\E i \in DOMAIN current : Covers(current[i], t))
        <4> SUFFICES ASSUME NEW t, NEW i \in DOMAIN kept, Covers(kept[i], t)
                     PROVE  \E j \in DOMAIN current : Covers(current[j], t)
          OBVIOUS
        <4>1. i \in DOMAIN current /\ current[i] = kept[i]
          BY <3>1
        <4>2. Covers(current[i], t)
          BY <4>1
        <4> QED
          BY <4>1, <4>2
      <3> QED
        BY <3>2 DEF Covered
    <2>11. Covers(new, moment)
      BY <1>1, <2>5 DEF Covers
    <2> QED
      BY <1>1, <2>3, <2>6, <2>9, <2>10, <2>11
  <1> QED
    BY <1>2, <1>3

Bumped(b, k) == [b EXCEPT !.n[k] = @ + 1]

LEMMA BumpedBucket ==
    ASSUME NEW b \in Bucket, NEW k \in Metered
    PROVE  /\ Bumped(b, k) \in Bucket /\ Bumped(b, k).at = b.at
           /\ \A l \in Metered : Bumped(b, k).n[l] = IF l = k THEN b.n[l] + 1 ELSE b.n[l]
  BY DEF Bucket, Bumped

LEMMA ReplacedEntry ==
    ASSUME NEW S, NEW s \in Seq(S), NEW m \in DOMAIN s, NEW e \in S, NEW r, r = [s EXCEPT ![m] = e]
    PROVE  /\ r \in Seq(S) /\ DOMAIN r = DOMAIN s /\ Len(r) = Len(s)
           /\ r[m] = e /\ \A i \in DOMAIN s : i # m => r[i] = s[i]
  OBVIOUS

\* Only the n of the last bucket differs, and there only by one of kind k.
SameButLast(bs, bs2, k) ==
    /\ bs2 \in Seq(Bucket) /\ DOMAIN bs2 = DOMAIN bs /\ Len(bs2) = Len(bs)
    /\ \A i \in DOMAIN bs : bs2[i].at = bs[i].at
    /\ \A i \in DOMAIN bs : i # Len(bs) => bs2[i] = bs[i]
    /\ \A l \in Metered : bs2[Len(bs)].n[l] = IF l = k THEN bs[Len(bs)].n[l] + 1 ELSE bs[Len(bs)].n[l]

LEMMA RecordedInLast ==
    ASSUME NEW bs \in Seq(Bucket), NEW k \in Metered, NEW m \in DOMAIN bs, m = Len(bs)
    PROVE  SameButLast(bs, [bs EXCEPT ![m].n[k] = @ + 1], k)
  <1> DEFINE b2 == Bumped(bs[m], k)
             bs2 == [bs EXCEPT ![m] = b2]
  <1>1. bs[m] \in Bucket
    BY BucketParts
  <1>2. /\ b2 \in Bucket /\ b2.at = bs[m].at
        /\ \A l \in Metered : b2.n[l] = IF l = k THEN bs[m].n[l] + 1 ELSE bs[m].n[l]
    BY <1>1, BumpedBucket
  <1>3. bs2 = [bs EXCEPT ![m].n[k] = @ + 1]
    BY DEF Bumped
  <1> HIDE DEF b2
  <1>4. /\ bs2 \in Seq(Bucket) /\ DOMAIN bs2 = DOMAIN bs /\ Len(bs2) = Len(bs)
        /\ bs2[m] = b2 /\ \A i \in DOMAIN bs : i # m => bs2[i] = bs[i]
    BY <1>2, ReplacedEntry
  <1> HIDE DEF bs2
  <1>5. SameButLast(bs, bs2, k)
    BY <1>2, <1>4 DEF SameButLast
  <1> QED
    BY <1>3, <1>5, Zenon

OneRecordMore(rec, rec2, k, moment) ==
    /\ rec2 \in [Metered -> [1..MaxClock -> Nat]]
    /\ \A l \in Metered : l # k => rec2[l] = rec[l]
    /\ \A t \in 1..MaxClock : rec2[k][t] = IF t = moment THEN rec[k][t] + 1 ELSE rec[k][t]

LEMMA RecordIsOneMore ==
    ASSUME NEW rec \in [Metered -> [1..MaxClock -> Nat]], NEW k \in Metered, NEW moment \in 1..MaxClock
    PROVE  OneRecordMore(rec, [rec EXCEPT ![k][moment] = @ + 1], k, moment)
  <1> DEFINE g == [rec[k] EXCEPT ![moment] = @ + 1]
             rec2 == [rec EXCEPT ![k] = g]
  <1>1. rec[k] \in [1..MaxClock -> Nat]
    OBVIOUS
  <1>2. g \in [1..MaxClock -> Nat] /\ \A t \in 1..MaxClock : g[t] = IF t = moment THEN rec[k][t] + 1 ELSE rec[k][t]
    BY <1>1
  <1>3. rec2 = [rec EXCEPT ![k][moment] = @ + 1]
    OBVIOUS
  <1> HIDE DEF g
  <1>4. /\ rec2 \in [Metered -> [1..MaxClock -> Nat]] /\ rec2[k] = g
        /\ \A l \in Metered : l # k => rec2[l] = rec[l]
    BY <1>2
  <1> HIDE DEF rec2
  <1>5. OneRecordMore(rec, rec2, k, moment)
    BY <1>2, <1>4 DEF OneRecordMore
  <1> QED
    BY <1>3, <1>5, Zenon

\* One more record of kind k, in the last bucket and in the history.
LEMMA RecordKeeps ==
    ASSUME NEW bs \in Seq(Bucket), NEW rec \in [Metered -> [1..MaxClock -> Nat]], NEW moment \in 1..MaxClock,
           NEW k \in Metered, Len(bs) \in DOMAIN bs,
           BucketsApart(bs, moment), BucketsExact(bs, rec), Covered(bs, rec, moment), Covers(bs[Len(bs)], moment),
           NEW bs2, SameButLast(bs, bs2, k),
           NEW rec2, OneRecordMore(rec, rec2, k, moment)
    PROVE  /\ bs2 \in Seq(Bucket) /\ rec2 \in [Metered -> [1..MaxClock -> Nat]]
           /\ BucketsApart(bs2, moment) /\ BucketsExact(bs2, rec2) /\ Covered(bs2, rec2, moment)
  <1> DEFINE m == Len(bs)
             b == bs[m]
  <1>1. m \in Nat /\ m \in DOMAIN bs /\ DOMAIN bs = 1..m /\ moment \in Nat /\ Span \in Nat /\ MaxClock \in Nat
    BY MetricsAssumption, SpanIs
  <1>2. b.at \in Nat /\ b.n[k] \in Nat
    BY <1>1, BucketParts
  <1>5. /\ bs2 \in Seq(Bucket) /\ DOMAIN bs2 = DOMAIN bs
        /\ \A i \in DOMAIN bs : i # m => bs2[i] = bs[i]
        /\ \A l \in Metered : bs2[m].n[l] = IF l = k THEN b.n[l] + 1 ELSE b.n[l]
    BY DEF SameButLast
  <1>6. \A i \in DOMAIN bs : bs2[i].at = bs[i].at
    BY DEF SameButLast
  <1>7. /\ rec2 \in [Metered -> [1..MaxClock -> Nat]]
        /\ \A l \in Metered : l # k => rec2[l] = rec[l]
        /\ \A t \in 1..MaxClock : rec2[k][t] = IF t = moment THEN rec[k][t] + 1 ELSE rec[k][t]
    BY DEF OneRecordMore
  <1>8. BucketsApart(bs2, moment)
    BY <1>5, <1>6 DEF BucketsApart
  <1>9. BucketsExact(bs2, rec2)
    <2> SUFFICES ASSUME NEW i \in DOMAIN bs, NEW l \in Metered PROVE bs2[i].n[l] = Share(rec2[l], bs2[i])
      BY <1>5 DEF BucketsExact
    <2>1. bs[i].n[l] = Share(rec[l], bs[i])
      BY DEF BucketsExact
    <2>2. Share(rec2[l], bs2[i]) = Share(rec2[l], bs[i])
      <3>1. bs2[i].at = bs[i].at
        BY <1>6
      <3> QED
        BY <3>1, ShareOfTime, Zenon
    <2>3. CASE l # k
      <3>1. bs2[i].n[l] = bs[i].n[l]
        BY <1>5, <2>3
      <3> QED
        BY <1>7, <2>1, <2>2, <2>3, <3>1
    <2> DEFINE f == [t \in 1..MaxClock |-> IF Covers(bs[i], t) THEN rec[k][t] ELSE 0]
               g == [t \in 1..MaxClock |-> IF Covers(bs[i], t) THEN rec2[k][t] ELSE 0]
    <2>4. Share(rec[k], bs[i]) = SumOf(f, MaxClock) /\ Share(rec2[k], bs[i]) = SumOf(g, MaxClock)
      BY DEF Share
    <2>5. CASE l = k /\ i = m
      <3>1. \A t \in 1..MaxClock : f[t] \in Nat /\ g[t] = IF t = moment THEN f[t] + 1 ELSE f[t]
        BY <1>7, <2>5
      <3> HIDE DEF f, g
      <3>2. SumOf(g, MaxClock) = SumOf(f, MaxClock) + 1
        BY <1>1, <3>1, SumBump
      <3>3. bs2[i].n[l] = bs[i].n[l] + 1
        BY <1>5, <2>5
      <3> QED
        BY <2>1, <2>2, <2>4, <2>5, <3>2, <3>3
    <2>6. CASE l = k /\ i # m
      <3>1. bs[i].at \in Nat /\ i < m
        BY <1>1, <2>6, BucketParts
      <3>2. bs[i].at + Span <= b.at /\ b.at <= moment
        BY <1>1, <3>1 DEF BucketsApart
      <3>3. ~Covers(bs[i], moment)
        BY <1>1, <1>2, <3>1, <3>2 DEF Covers
      <3>4. \A t \in 1..MaxClock : f[t] \in Nat /\ f[t] = g[t]
        BY <1>7, <3>3
      <3> HIDE DEF f, g
      <3>5. SumOf(g, MaxClock) = SumOf(f, MaxClock)
        BY <1>1, <3>4, SumSame
      <3>6. bs2[i].n[l] = bs[i].n[l]
        BY <1>5, <2>6
      <3> QED
        BY <2>1, <2>2, <2>4, <2>6, <3>5, <3>6
    <2> QED
      BY <2>3, <2>5, <2>6
  <1>10. \A i \in DOMAIN bs, t \in 1..MaxClock : Covers(bs[i], t) => Covers(bs2[i], t)
    BY <1>6 DEF Covers
  <1>11. Covered(bs2, rec2, moment)
    <2> SUFFICES ASSUME NEW l \in Metered, NEW t \in 1..MaxClock, rec2[l][t] > 0
                 PROVE  /\ t <= moment
                        /\ \/ moment - t > MetricWindow - (Span - 1)
                           \/ \E i \in DOMAIN bs2 : Covers(bs2[i], t)
      BY DEF Covered
    <2>1. CASE t = moment
      <3>1. Covers(bs2[m], t) /\ m \in DOMAIN bs2
        BY <1>1, <1>5, <1>10, <2>1
      <3>2. t <= moment
        BY <1>1, <2>1
      <3> QED
        BY <3>1, <3>2, Zenon
    <2>2. CASE t # moment
      <3>1. rec[l][t] > 0
        BY <1>7, <2>2
      <3>2. /\ t <= moment
            /\ \/ moment - t > MetricWindow - (Span - 1)
               \/ \E i \in DOMAIN bs : Covers(bs[i], t)
        BY <3>1 DEF Covered
      <3> QED
        BY <1>5, <1>10, <3>2
    <2> QED
      BY <2>1, <2>2
  <1> QED
    BY <1>5, <1>7, <1>8, <1>9, <1>11

\* The active buckets up to the j-th hold what was recorded in their times: each time
\* is that of one bucket at most.
InActive(bs, moment, j, t) ==
    \E i \in DOMAIN bs : i <= j /\ moment - bs[i].at <= MetricWindow /\ Covers(bs[i], t)

LEMMA SharesAdd ==
    ASSUME NEW bs \in Seq(Bucket), NEW rec \in [Metered -> [1..MaxClock -> Nat]], NEW moment \in 1..MaxClock,
           NEW k \in Metered, BucketsApart(bs, moment), BucketsExact(bs, rec)
    PROVE  SumOf([i \in DOMAIN bs |-> IF moment - bs[i].at <= MetricWindow THEN bs[i].n[k] ELSE 0], Len(bs))
           = SumOf([t \in 1..MaxClock |-> IF InActive(bs, moment, Len(bs), t) THEN rec[k][t] ELSE 0], MaxClock)
  <1> DEFINE c == [i \in DOMAIN bs |-> IF moment - bs[i].at <= MetricWindow THEN bs[i].n[k] ELSE 0]
             s(j) == [t \in 1..MaxClock |-> IF InActive(bs, moment, j, t) THEN rec[k][t] ELSE 0]
             m == Len(bs)
             P == {j \in 0..m : SumOf(c, j) = SumOf(s(j), MaxClock)}
  <1>1. m \in Nat /\ DOMAIN bs = 1..m /\ moment \in Nat /\ Span \in Nat /\ MaxClock \in Nat
    BY MetricsAssumption, SpanIs
  <1>2. 0 \in P
    <2>1. \A t \in 1..MaxClock : s(0)[t] = 0
      BY <1>1 DEF InActive
    <2> HIDE DEF s
    <2>2. SumOf(s(0), MaxClock) = 0 /\ SumOf(c, 0) = 0
      BY <1>1, <2>1, SumZero, SumNone
    <2> QED
      BY <1>1, <2>2
  <1>3. ASSUME NEW j \in 0..m, j # m, j \in P PROVE j + 1 \in P
    <2> DEFINE b == bs[j + 1]
               f == [t \in 1..MaxClock |-> IF Covers(b, t) THEN rec[k][t] ELSE 0]
    <2>1. j \in Nat /\ j + 1 \in DOMAIN bs /\ j + 1 \in 0..m
      <3> HIDE DEF m
      <3>1. m \in Nat /\ DOMAIN bs = 1..m
        BY <1>1
      <3>2. j \in 0..m /\ j # m
        BY ONLY <1>3
      <3>3. j \in Nat /\ j + 1 \in 1..m /\ j + 1 \in 0..m
        BY ONLY <3>1, <3>2
      <3> QED
        BY ONLY <3>1, <3>3
    <2>2. SumOf(c, j + 1) = SumOf(c, j) + c[j + 1]
      BY <2>1, SumNext
    <2>3. b.at \in Nat /\ \A i \in DOMAIN bs : bs[i].at \in Nat
      BY <2>1, BucketParts
    <2>4. \A t \in 1..MaxClock : s(j)[t] \in Nat
      OBVIOUS
    <2>5. CASE moment - b.at <= MetricWindow
      <3>1. c[j + 1] = SumOf(f, MaxClock)
        BY <2>1, <2>5 DEF BucketsExact, Share
      <3>2. \A t \in 1..MaxClock : InActive(bs, moment, j + 1, t) <=> InActive(bs, moment, j, t) \/ Covers(b, t)
        <4> SUFFICES ASSUME NEW t \in 1..MaxClock
                     PROVE  InActive(bs, moment, j + 1, t) <=> InActive(bs, moment, j, t) \/ Covers(b, t)
          OBVIOUS
        <4>1. \A i \in DOMAIN bs : i <= j + 1 <=> (i <= j \/ i = j + 1)
          BY <1>1, <2>1
        <4>2. j + 1 <= j + 1
          BY <2>1
        <4> QED
          BY <2>1, <2>5, <4>1, <4>2 DEF InActive
      <3>3. \A t \in 1..MaxClock : ~(InActive(bs, moment, j, t) /\ Covers(b, t))
        <4> SUFFICES ASSUME NEW t \in 1..MaxClock, NEW i \in DOMAIN bs, i <= j, Covers(bs[i], t), Covers(b, t)
                     PROVE  FALSE
          BY DEF InActive
        <4>1. bs[i].at + Span <= b.at
          BY <1>1, <2>1 DEF BucketsApart
        <4> QED
          BY <1>1, <2>3, <4>1 DEF Covers
      <3>4. \A t \in 1..MaxClock : f[t] \in Nat /\ s(j + 1)[t] = s(j)[t] + f[t]
        <4> SUFFICES ASSUME NEW t \in 1..MaxClock PROVE f[t] \in Nat /\ s(j + 1)[t] = s(j)[t] + f[t]
          OBVIOUS
        <4>1. rec[k][t] \in Nat
          OBVIOUS
        <4> QED
          BY <3>2, <3>3, <4>1
      <3> HIDE DEF s, f, c
      <3>5. SumOf(s(j + 1), MaxClock) = SumOf(s(j), MaxClock) + SumOf(f, MaxClock)
        BY <1>1, <2>4, <3>4, SumAdds
      <3> QED
        BY <1>3, <2>1, <2>2, <3>1, <3>5
    <2>6. CASE ~(moment - b.at <= MetricWindow)
      <3>1. c[j + 1] = 0
        BY <2>1, <2>6
      <3>2. \A t \in 1..MaxClock : InActive(bs, moment, j + 1, t) <=> InActive(bs, moment, j, t)
        BY <1>1, <2>1, <2>6 DEF InActive
      <3>3. \A t \in 1..MaxClock : s(j)[t] = s(j + 1)[t]
        BY <3>2
      <3> HIDE DEF s, c
      <3>4. SumOf(s(j), MaxClock) = SumOf(s(j + 1), MaxClock) /\ SumOf(s(j), MaxClock) \in Nat
        BY <1>1, <2>4, <3>3, SumSame
      <3>5. SumOf(c, j) + 0 = SumOf(c, j)
        BY <1>3, <3>4
      <3> QED
        BY <1>3, <2>1, <2>2, <3>1, <3>4, <3>5
    <2> QED
      BY <2>5, <2>6
  <1>4. 0..m \subseteq P
    <2> HIDE DEF P
    <2> QED
      BY <1>1, <1>2, <1>3, UpTo
  <1>5. m \in P
    <2> HIDE DEF P, m
    <2>1. m \in 0..m
      BY ONLY <1>1
    <2> QED
      BY ONLY <1>4, <2>1
  <1> QED
    BY <1>5

\* What the invariant says of a snapshot.
LEMMA SnapshotSharp ==
    ASSUME MetricsInv
    PROVE  WindowIsSharp
  <1> SUFFICES ASSUME NEW k \in Metered
               PROVE  /\ RecordedWithin(k, MetricWindow - (BucketTime - 1)) <= SnapshotWindow[k]
                      /\ SnapshotWindow[k] <= RecordedWithin(k, MetricWindow)
                      /\ k # "latency" => RecordedWithin(k, MaxClock) <= counted[k]
    BY DEF WindowIsSharp
  <1> DEFINE s == [t \in 1..MaxClock |-> IF InActive(buckets, clock, Len(buckets), t) THEN recorded[k][t] ELSE 0]
             w(age) == [t \in 1..MaxClock |-> IF t <= clock /\ clock - t <= age THEN recorded[k][t] ELSE 0]
  <1>1. /\ clock \in 1..MaxClock /\ buckets \in Seq(Bucket) /\ recorded \in [Metered -> [1..MaxClock -> Nat]]
        /\ BucketsApart(buckets, clock) /\ BucketsExact(buckets, recorded) /\ Covered(buckets, recorded, clock)
        /\ counted \in [Metered -> Nat]
    BY DEF MetricsInv, MetricsType
  <1>2. /\ clock \in Nat /\ Span \in Nat /\ Span > 0 /\ MetricWindow \in Nat /\ MaxClock \in Nat
        /\ Len(buckets) \in Nat /\ DOMAIN buckets = 1..Len(buckets)
    BY <1>1, MetricsAssumption, SpanIs
  <1>3. SnapshotWindow[k] = SumOf(s, MaxClock)
    <2>1. SnapshotWindow[k] = SumOf([i \in DOMAIN buckets |->
                                IF clock - buckets[i].at <= MetricWindow THEN buckets[i].n[k] ELSE 0], Len(buckets))
      BY DEF SnapshotWindow, Windowed, IsActive
    <2> QED
      BY <1>1, <2>1, SharesAdd
  <1>4. \A age : RecordedWithin(k, age) = SumOf(w(age), MaxClock)
    BY DEF RecordedWithin
  <1>5. \A t \in 1..MaxClock : recorded[k][t] \in Nat /\ t \in Nat
    <2>1. recorded[k] \in [1..MaxClock -> Nat]
      BY <1>1
    <2> QED
      BY <1>2, <2>1
  <1>6. \A age, t \in 1..MaxClock : w(age)[t] \in Nat /\ s[t] \in Nat /\ w(age)[t] <= recorded[k][t]
    BY <1>5
  <1>7. RecordedWithin(k, MetricWindow - (BucketTime - 1)) <= SnapshotWindow[k]
    <2> DEFINE v == w(MetricWindow - (BucketTime - 1))
    <2>1. \A t \in 1..MaxClock : v[t] \in Nat /\ s[t] \in Nat /\ v[t] <= s[t]
      <3> SUFFICES ASSUME NEW t \in 1..MaxClock PROVE v[t] \in Nat /\ s[t] \in Nat /\ v[t] <= s[t]
        OBVIOUS
      <3>1. recorded[k][t] \in Nat /\ t \in Nat
        BY <1>5
      <3>2. CASE t <= clock /\ clock - t <= MetricWindow - (BucketTime - 1) /\ recorded[k][t] # 0
        <4>1. PICK i \in DOMAIN buckets : Covers(buckets[i], t)
          <5>1. ~(clock - t > MetricWindow - (Span - 1))
            BY <1>2, <3>1, <3>2, SpanIs
          <5> QED
            BY <1>1, <3>1, <3>2, <5>1 DEF Covered
        <4>2. buckets[i].at \in Nat /\ i <= Len(buckets)
          BY <1>1, <1>2, BucketParts
        <4>3. clock - buckets[i].at <= MetricWindow
          <5>1. t < buckets[i].at + Span
            BY <4>1 DEF Covers
          <5> QED
            BY <1>2, <3>1, <3>2, <4>2, <5>1, SpanIs
        <4>4. InActive(buckets, clock, Len(buckets), t)
          BY <4>1, <4>2, <4>3 DEF InActive
        <4>5. s[t] = recorded[k][t]
          BY <4>4
        <4> QED
          BY <3>1, <4>5
      <3>3. CASE ~(t <= clock /\ clock - t <= MetricWindow - (BucketTime - 1) /\ recorded[k][t] # 0)
        <4>1. v[t] = 0 /\ s[t] \in Nat
          BY <3>1, <3>3
        <4> HIDE DEF v, s
        <4> QED
          BY <4>1
      <3> QED
        BY <3>2, <3>3
    <2> HIDE DEF s, v
    <2>2. SumOf(v, MaxClock) <= SumOf(s, MaxClock)
      BY <1>2, <2>1, SumMonotone
    <2> QED
      BY <1>3, <1>4, <2>2 DEF v
  <1>8. SnapshotWindow[k] <= RecordedWithin(k, MetricWindow)
    <2> DEFINE v == w(MetricWindow)
    <2>1. \A t \in 1..MaxClock : v[t] \in Nat /\ s[t] \in Nat /\ s[t] <= v[t]
      <3> SUFFICES ASSUME NEW t \in 1..MaxClock PROVE v[t] \in Nat /\ s[t] \in Nat /\ s[t] <= v[t]
        OBVIOUS
      <3>1. recorded[k][t] \in Nat /\ t \in Nat
        BY <1>5
      <3>2. CASE InActive(buckets, clock, Len(buckets), t) /\ recorded[k][t] # 0
        <4>1. PICK i \in DOMAIN buckets : clock - buckets[i].at <= MetricWindow /\ Covers(buckets[i], t)
          BY <3>2 DEF InActive
        <4>2. buckets[i].at \in Nat
          BY <1>1, BucketParts
        <4>3. t <= clock
          BY <1>1, <3>1, <3>2 DEF Covered
        <4>4. clock - t <= MetricWindow
          BY <1>2, <3>1, <4>1, <4>2 DEF Covers
        <4>5. v[t] = recorded[k][t]
          BY <4>3, <4>4
        <4> QED
          BY <3>1, <4>5
      <3>3. CASE ~(InActive(buckets, clock, Len(buckets), t) /\ recorded[k][t] # 0)
        <4>1. s[t] = 0 /\ v[t] \in Nat
          BY <3>1, <3>3
        <4> HIDE DEF v, s
        <4> QED
          BY <4>1
      <3> QED
        BY <3>2, <3>3
    <2> HIDE DEF s, v
    <2>2. SumOf(s, MaxClock) <= SumOf(v, MaxClock)
      BY <1>2, <2>1, SumMonotone
    <2> QED
      BY <1>3, <1>4, <2>2 DEF v
  <1>9. k # "latency" => RecordedWithin(k, MaxClock) <= counted[k]
    <2> SUFFICES ASSUME k # "latency" PROVE RecordedWithin(k, MaxClock) <= counted[k]
      OBVIOUS
    <2> DEFINE v == w(MaxClock)
    <2>1. \A t \in 1..MaxClock : v[t] \in Nat /\ recorded[k][t] \in Nat /\ v[t] <= recorded[k][t]
      BY <1>5, <1>6
    <2> HIDE DEF v
    <2>2. SumOf(v, MaxClock) <= SumOf(recorded[k], MaxClock)
      BY <1>2, <2>1, SumMonotone
    <2>3. SumOf(v, MaxClock) \in Nat /\ SumOf(recorded[k], MaxClock) \in Nat
      BY <1>2, <2>1, SumIsNat
    <2>4. k \in {"message", "error"}
      BY DEF Metered
    <2>5. SumOf(recorded[k], MaxClock) + Cardinality(Behind(k)) <= counted[k]
      BY <2>4 DEF MetricsInv, CountersLead
    <2>6. Cardinality(Behind(k)) \in Nat
      BY MetricsAssumption, SpanIs, FS_Subset, FS_CardinalityType DEF Behind
    <2>7. counted[k] \in Nat /\ RecordedWithin(k, MaxClock) = SumOf(v, MaxClock)
      BY <1>1, <1>4 DEF v
    <2> QED
      BY <2>2, <2>3, <2>5, <2>6, <2>7
  <1> QED
    BY <1>7, <1>8, <1>9

\* Counting before recording: the recorders that are behind make up the difference.
LEMMA BehindMoves ==
    ASSUME MetricsType, NEW r \in Recorders, NEW x, recorder' = [recorder EXCEPT ![r] = x]
    PROVE  \A k \in {"message", "error"} :
              /\ IsFiniteSet(Behind(k)) /\ Cardinality(Behind(k)) \in Nat
              /\ (recorder[r] = k <=> x = k) => Cardinality(Behind(k)') = Cardinality(Behind(k))
              /\ recorder[r] # k /\ x = k => Cardinality(Behind(k)') = Cardinality(Behind(k)) + 1
              /\ recorder[r] = k /\ x # k => Cardinality(Behind(k)') = Cardinality(Behind(k)) - 1
  <1> SUFFICES ASSUME NEW k \in {"message", "error"}
               PROVE  /\ IsFiniteSet(Behind(k)) /\ Cardinality(Behind(k)) \in Nat
                      /\ (recorder[r] = k <=> x = k) => Cardinality(Behind(k)') = Cardinality(Behind(k))
                      /\ recorder[r] # k /\ x = k => Cardinality(Behind(k)') = Cardinality(Behind(k)) + 1
                      /\ recorder[r] = k /\ x # k => Cardinality(Behind(k)') = Cardinality(Behind(k)) - 1
    OBVIOUS
  <1>1. \A q \in Recorders : recorder'[q] = IF q = r THEN x ELSE recorder[q]
    BY DEF MetricsType
  <1>2. IsFiniteSet(Behind(k)) /\ Cardinality(Behind(k)) \in Nat
    BY MetricsAssumption, SpanIs, FS_Subset, FS_CardinalityType DEF Behind
  <1>3. (recorder[r] = k <=> x = k) => Behind(k)' = Behind(k)
    BY <1>1 DEF Behind
  <1>4. recorder[r] # k /\ x = k => Behind(k)' = Behind(k) \cup {r} /\ r \notin Behind(k)
    BY <1>1 DEF Behind
  <1>5. recorder[r] = k /\ x # k => Behind(k)' = Behind(k) \ {r} /\ r \in Behind(k)
    BY <1>1 DEF Behind
  <1>6. r \notin Behind(k) => Cardinality(Behind(k) \cup {r}) = Cardinality(Behind(k)) + 1
    BY <1>2, FS_AddElement
  <1>7. r \in Behind(k) => Cardinality(Behind(k) \ {r}) = Cardinality(Behind(k)) - 1
    BY <1>2, FS_RemoveElement
  <1> QED
    BY <1>2, <1>3, <1>4, <1>5, <1>6, <1>7

\* record_message and record_error, up to the lock.
LEMMA CountStep ==
    ASSUME MetricsInv, NEW r \in Recorders, NEW k \in {"message", "error"},
           recorder[r] \in {"idle", "failed"}, Count(r, k)
    PROVE  MetricsInv'
  <1>1. /\ counted' = [counted EXCEPT ![k] = @ + 1] /\ recorder' = [recorder EXCEPT ![r] = k]
        /\ clock' = clock /\ buckets' = buckets /\ recorded' = recorded
    BY DEF Count
  <1>2. MetricsType
    BY DEF MetricsInv
  <1>3. MetricsType'
    BY <1>1, <1>2 DEF MetricsType, Metered
  <1>4. CountersLead'
    <2> SUFFICES ASSUME NEW l \in {"message", "error"}
                 PROVE  SumOf(recorded[l], MaxClock) + Cardinality(Behind(l)') <= counted'[l]
      BY <1>1 DEF CountersLead
    <2>1. SumOf(recorded[l], MaxClock) + Cardinality(Behind(l)) <= counted[l]
      BY DEF MetricsInv, CountersLead
    <2>2. SumOf(recorded[l], MaxClock) \in Nat
      <3>1. \A t \in 1..MaxClock : recorded[l][t] \in Nat
        BY <1>2 DEF MetricsType, Metered
      <3> QED
        BY <3>1, SumIsNat, MetricsAssumption, SpanIs
    <2>3. Cardinality(Behind(l)) \in Nat /\ counted[l] \in Nat
      BY <1>1, <1>2, BehindMoves DEF MetricsType, Metered
    <2>4. CASE l = k
      <3>1. Cardinality(Behind(l)') = Cardinality(Behind(l)) + 1
        BY <1>1, <1>2, <2>4, BehindMoves
      <3>2. counted'[l] = counted[l] + 1
        BY <1>1, <1>2, <2>4 DEF MetricsType, Metered
      <3> QED
        BY <2>1, <2>2, <2>3, <3>1, <3>2
    <2>5. CASE l # k
      <3>1. recorder[r] # l
        OBVIOUS
      <3>2. Cardinality(Behind(l)') = Cardinality(Behind(l))
        BY <1>1, <1>2, <2>5, <3>1, BehindMoves
      <3>3. counted'[l] = counted[l]
        BY <1>1, <1>2, <2>5 DEF MetricsType, Metered
      <3> QED
        BY <2>1, <3>2, <3>3
    <2> QED
      BY <2>4, <2>5
  <1> QED
    BY <1>1, <1>3, <1>4 DEF MetricsInv

\* Under the lock: the current bucket takes one more.
LEMMA RecordStep ==
    ASSUME MetricsInv, NEW r \in Recorders, NEW k \in Metered, NEW next \in {"handling", "idle", "failed"},
           k # "latency" => recorder[r] = k, k = "latency" => recorder[r] = "handling", Record(r, k, next)
    PROVE  MetricsInv'
  <1>1. /\ buckets' = [CurrentBuckets EXCEPT ![Len(CurrentBuckets)].n[k] = @ + 1]
        /\ recorder' = [recorder EXCEPT ![r] = next]
        /\ recorded' = [recorded EXCEPT ![k][clock] = @ + 1]
        /\ clock' = clock /\ counted' = counted
    BY DEF Record
  <1>2. /\ MetricsType
        /\ clock \in 1..MaxClock /\ buckets \in Seq(Bucket) /\ recorded \in [Metered -> [1..MaxClock -> Nat]]
        /\ BucketsApart(buckets, clock) /\ BucketsExact(buckets, recorded) /\ Covered(buckets, recorded, clock)
    BY DEF MetricsInv, MetricsType
  <1> DEFINE kept == EvictExpired
             current == CurrentBuckets
  <1>3. kept = Retain(buckets, {i \in DOMAIN buckets : \E j \in 1..i : clock - buckets[j].at <= MetricWindow})
    BY DEF EvictExpired, IsActive
  <1>4. current = IF kept # <<>> /\ clock - Last(kept).at < BucketTime THEN kept
                  ELSE Append(kept, [at |-> clock, n |-> [l \in Metered |-> 0]])
    BY DEF CurrentBuckets
  <1> HIDE DEF kept, current
  <1>5. kept \in Seq(Bucket) /\ BucketsApart(kept, clock) /\ BucketsExact(kept, recorded)
        /\ Covered(kept, recorded, clock) /\ Active(kept, clock)
    BY <1>2, <1>3, EvictKeeps
  <1>6. /\ current \in Seq(Bucket) /\ Len(current) \in DOMAIN current
        /\ BucketsApart(current, clock) /\ BucketsExact(current, recorded) /\ Covered(current, recorded, clock)
        /\ Covers(current[Len(current)], clock)
    BY <1>2, <1>4, <1>5, CurrentKeeps
  <1>7. SameButLast(current, buckets', k)
    <2>1. buckets' = [current EXCEPT ![Len(current)].n[k] = @ + 1]
      BY <1>1 DEF current
    <2>2. SameButLast(current, [current EXCEPT ![Len(current)].n[k] = @ + 1], k)
      BY <1>6, RecordedInLast
    <2> QED
      BY <2>1, <2>2, Zenon
  <1>8. /\ buckets' \in Seq(Bucket) /\ recorded' \in [Metered -> [1..MaxClock -> Nat]]
        /\ BucketsApart(buckets', clock) /\ BucketsExact(buckets', recorded') /\ Covered(buckets', recorded', clock)
    <2>0. recorded' = [recorded EXCEPT ![k][clock] = @ + 1]
      BY <1>1
    <2>1. OneRecordMore(recorded, recorded', k, clock)
      BY <1>2, <2>0, RecordIsOneMore, Zenon
    <2> QED
      BY <1>2, <1>6, <1>7, <2>1, RecordKeeps
  <1>9. MetricsType'
    <2>1. recorder' \in [Recorders -> Metered \cup {"idle", "handling", "failed"}]
      BY <1>1, <1>2 DEF MetricsType
    <2> QED
      BY <1>1, <1>2, <1>8, <2>1 DEF MetricsType
  <1>10. CountersLead'
    <2> SUFFICES ASSUME NEW l \in {"message", "error"}
                 PROVE  SumOf(recorded'[l], MaxClock) + Cardinality(Behind(l)') <= counted[l]
      BY <1>1 DEF CountersLead
    <2>1. SumOf(recorded[l], MaxClock) + Cardinality(Behind(l)) <= counted[l]
      BY DEF MetricsInv, CountersLead
    <2>2. l \in Metered /\ recorded[l] \in [1..MaxClock -> Nat] /\ MaxClock \in Nat
      BY <1>2, MetricsAssumption, SpanIs DEF Metered
    <2>3. \A t \in 1..MaxClock : recorded[l][t] \in Nat
      BY <2>2
    <2>4. SumOf(recorded[l], MaxClock) \in Nat
      BY <2>2, <2>3, SumIsNat
    <2>5. Cardinality(Behind(l)) \in Nat /\ counted[l] \in Nat
      BY <1>1, <1>2, <2>2, BehindMoves DEF MetricsType
    <2>6. next # l
      OBVIOUS
    <2>7. CASE l = k
      <3>1. recorder[r] = l
        BY <2>7
      <3>2. Cardinality(Behind(l)') = Cardinality(Behind(l)) - 1
        BY <1>1, <1>2, <2>6, <3>1, BehindMoves
      <3>3. \A t \in 1..MaxClock : recorded'[l][t] = IF t = clock THEN recorded[l][t] + 1 ELSE recorded[l][t]
        BY <1>1, <1>2, <2>2, <2>7
      <3>4. SumOf(recorded'[l], MaxClock) = SumOf(recorded[l], MaxClock) + 1
        BY <1>2, <2>2, <2>3, <3>3, SumBump
      <3> QED
        BY <2>1, <2>4, <2>5, <3>2, <3>4
    <2>8. CASE l # k
      <3>1. recorder[r] # l
        BY <2>8 DEF Metered
      <3>2. Cardinality(Behind(l)') = Cardinality(Behind(l))
        BY <1>1, <1>2, <2>6, <3>1, BehindMoves
      <3>3. recorded'[l] = recorded[l]
        BY <1>1, <1>2, <2>2, <2>8
      <3> QED
        BY <2>1, <3>2, <3>3
    <2> QED
      BY <2>7, <2>8
  <1> QED
    BY <1>1, <1>8, <1>9, <1>10 DEF MetricsInv

LEMMA CoveredLater ==
    ASSUME NEW bs, NEW rec, NEW moment \in Nat, Covered(bs, rec, moment)
    PROVE  Covered(bs, rec, moment + 1)
  <1> DEFINE later == moment + 1
  <1>1. later \in Nat /\ later > moment /\ MaxClock \in Nat /\ Span \in Nat /\ MetricWindow \in Nat
    BY MetricsAssumption, SpanIs
  <1> HIDE DEF later
  <1>2. Covered(bs, rec, later)
    <2> SUFFICES ASSUME NEW k \in Metered, NEW t \in 1..MaxClock, rec[k][t] > 0
                 PROVE  /\ t <= later
                        /\ \/ later - t > MetricWindow - (Span - 1)
                           \/ \E i \in DOMAIN bs : Covers(bs[i], t)
      BY DEF Covered
    <2>1. /\ t <= moment
          /\ \/ moment - t > MetricWindow - (Span - 1)
             \/ \E i \in DOMAIN bs : Covers(bs[i], t)
      BY DEF Covered
    <2> QED
      BY <1>1, <2>1
  <1> QED
    BY <1>2 DEF later

LEMMA MetricsStep ==
    ASSUME MetricsInv, [MetricsNext]_mvars
    PROVE  MetricsInv'
  <1>1. CASE ClockTick
    <2>1. clock < MaxClock /\ clock' = clock + 1 /\ UNCHANGED <<buckets, counted, recorder, recorded>>
      BY <1>1 DEF ClockTick
    <2>2. MetricsType /\ clock \in Nat /\ MaxClock \in Nat /\ Span \in Nat /\ MetricWindow \in Nat
      BY MetricsAssumption, SpanIs DEF MetricsInv, MetricsType
    <2>3. MetricsType'
      BY <2>1, <2>2 DEF MetricsType
    <2>4. BucketsApart(buckets, clock + 1)
      <3>1. \A i \in DOMAIN buckets : buckets[i].at \in Nat
        BY <2>2, BucketParts DEF MetricsType
      <3> QED
        BY <2>2, <3>1 DEF MetricsInv, BucketsApart
    <2>5. Covered(buckets, recorded, clock + 1)
      BY <2>2, CoveredLater DEF MetricsInv
    <2>6. CountersLead'
      BY <2>1 DEF MetricsInv, CountersLead, Behind
    <2> QED
      BY <2>1, <2>3, <2>4, <2>5, <2>6 DEF MetricsInv
  <1>2. ASSUME NEW r \in Recorders, OnReceive(r) PROVE MetricsInv'
    <2>1. CASE recorder[r] = "idle" /\ Count(r, "message")
      BY <2>1, CountStep
    <2>2. CASE recorder[r] = "message" /\ Record(r, "message", "handling")
      BY <2>2, RecordStep DEF Metered
    <2> QED
      BY <1>2, <2>1, <2>2 DEF OnReceive
  <1>3. ASSUME NEW r \in Recorders, OnComplete(r) PROVE MetricsInv'
    <2>1. ASSUME recorder[r] = "handling", NEW next \in {"idle", "failed"}, Record(r, "latency", next)
          PROVE  MetricsInv'
      BY <2>1, RecordStep DEF Metered
    <2>2. CASE recorder[r] = "failed" /\ Count(r, "error")
      BY <2>2, CountStep
    <2>3. CASE recorder[r] = "error" /\ Record(r, "error", "idle")
      BY <2>3, RecordStep DEF Metered
    <2> QED
      BY <1>3, <2>1, <2>2, <2>3 DEF OnComplete
  <1>4. CASE UNCHANGED mvars
    BY <1>4 DEF mvars, MetricsInv, MetricsType, CountersLead, Behind
  <1> QED
    BY <1>1, <1>2, <1>3, <1>4 DEF MetricsNext

LEMMA MetricsStart ==
    ASSUME MetricsInit
    PROVE  MetricsInv
  <1>1. /\ clock = 1 /\ buckets = <<>> /\ recorded = [k \in Metered |-> [t \in 1..MaxClock |-> 0]]
        /\ recorder = [r \in Recorders |-> "idle"] /\ counted = [k \in Metered |-> 0]
        /\ MaxClock \in Nat \ {0}
    BY MetricsAssumption, SpanIs DEF MetricsInit
  <1>2. MetricsType
    BY <1>1 DEF MetricsType
  <1>3. DOMAIN buckets = {}
    BY <1>1
  <1>4. BucketsApart(buckets, clock) /\ BucketsExact(buckets, recorded)
    BY <1>3 DEF BucketsApart, BucketsExact
  <1>5. \A k \in Metered : \A t \in 1..MaxClock : recorded[k][t] = 0
    BY <1>1
  <1>6. Covered(buckets, recorded, clock)
    BY <1>5 DEF Covered
  <1>7. CountersLead
    <2> SUFFICES ASSUME NEW k \in {"message", "error"}
                 PROVE  SumOf(recorded[k], MaxClock) + Cardinality(Behind(k)) <= counted[k]
      BY DEF CountersLead
    <2>1. k \in Metered /\ counted[k] = 0
      BY <1>1 DEF Metered
    <2>2. SumOf(recorded[k], MaxClock) = 0
      BY <1>1, <1>5, <2>1, SumZero
    <2>3. Behind(k) = {}
      BY <1>1 DEF Behind
    <2> QED
      BY <2>1, <2>2, <2>3, FS_EmptySet
  <1> QED
    BY <1>2, <1>4, <1>6, <1>7 DEF MetricsInv

\* ActorMetricsHandle::snapshot: for any window and bucket_duration, however the
\* recorders of a pool, idle times and evictions follow one another, a snapshot counts
\* nothing older than the window, misses nothing younger than the window less one bucket,
\* and the counters never lag behind the buckets.
THEOREM WindowStaysSharp == Spec => []WindowIsSharp
  <1>1. Init => MetricsInv
    BY MetricsStart DEF Init
  <1>2. MetricsInv /\ [Next]_cvars => MetricsInv'
    BY Frame, MetricsStep
  <1>3. MetricsInv => WindowIsSharp
    BY SnapshotSharp
  <1> QED
    BY <1>1, <1>2, <1>3, PTL DEF Spec
=============================================================================
