------------------------- MODULE PersistenceProofs -------------------------
(***************************************************************************)
(* Theorems about Persistence, for every set of events, every kind of      *)
(* actor and recovery policy, and any number of attempts, snapshots and    *)
(* restarts.                                                               *)
(***************************************************************************)
EXTENDS Persistence, RetainProofs

Entry == [seq : Nat, event : Events]
SnapshotEntry == [seq : Nat, state : Seq(Events)]

(***************************************************************************)
(* The journal and the log: the journal holds the last events of the log,  *)
(* numbered by their place in it.                                          *)
(***************************************************************************)

\* The number of events deleted from journal j of log g.
Deleted(j, g) == Len(g) - Len(j)

Aligned(j, g) ==
    /\ Deleted(j, g) \in Nat
    /\ \A i \in DOMAIN j : j[i].seq = Deleted(j, g) + i /\ j[i].event = g[Deleted(j, g) + i]

\* The latest of the snapshots ss covers what journal j no longer holds of log g.
Covered(ss, j, g) ==
    IF ss = <<>> THEN Deleted(j, g) = 0
    ELSE /\ Last(ss).seq \in Deleted(j, g)..Len(g)
         /\ Last(ss).state = SubSeq(g, 1, Last(ss).seq)

\* Where recovery starts from.
FromSequence(ss) == IF ss = <<>> THEN 0 ELSE Last(ss).seq
FromState(ss) == IF ss = <<>> THEN <<>> ELSE Last(ss).state

\* What a recovery from snapshots ss and journal j restores.
Restorable(ss, j) ==
    Elems(FromState(ss)) \cup {j[i].event : i \in {i \in DOMAIN j : j[i].seq > FromSequence(ss)}}

-----------------------------------------------------------------------------
(***************************************************************************)
(* The inductive invariant.                                                *)
(***************************************************************************)

\* A recovery under way has read the latest snapshot or nothing yet.
RecoveryInv ==
    /\ (phase = "loading" /\ snapshots = <<>>) => memory = <<>> /\ last_sequence_id = 0
    /\ phase = "replaying" =>
          /\ kind = "EventSourced"
          /\ memory = FromState(snapshots) /\ last_sequence_id = FromSequence(snapshots)

JournalInv ==
    (kind = "EventSourced" /\ ~diverged) =>
        /\ Aligned(journal, log) /\ Covered(snapshots, journal, log)
        /\ (phase = "running" /\ ~stale) => memory = log /\ last_sequence_id = Len(log)

AckInv ==
    /\ (kind = "EventSourced" /\ ~skipped) =>
          /\ acked \subseteq Restorable(snapshots, journal)
          /\ phase = "running" => acked \subseteq Elems(memory) /\ last_sequence_id >= FromSequence(snapshots)
    /\ (kind = "DurableState" /\ ~skipped) =>
          /\ acked \subseteq (IF states = None THEN {} ELSE Elems(states))
          /\ phase = "running" => acked \subseteq Elems(memory)

IInv == TypeOK /\ RecoveryInv /\ JournalInv /\ AckInv

-----------------------------------------------------------------------------
(***************************************************************************)
(* Lemmas about sequences and about the operators of the storage.          *)
(***************************************************************************)

LEMMA ElemsOfConcat ==
    ASSUME NEW S, NEW a \in Seq(S), NEW b \in Seq(S)
    PROVE  Elems(a \o b) = Elems(a) \cup Elems(b)
  <1>1. /\ Len(a) \in Nat /\ Len(b) \in Nat /\ DOMAIN a = 1..Len(a) /\ DOMAIN b = 1..Len(b)
        /\ DOMAIN (a \o b) = 1..(Len(a) + Len(b))
        /\ \A i \in 1..(Len(a) + Len(b)) : (a \o b)[i] = IF i <= Len(a) THEN a[i] ELSE b[i - Len(a)]
    <2>1. /\ a \o b \in Seq(S) /\ Len(a \o b) = Len(a) + Len(b)
          /\ \A i \in 1..(Len(a) + Len(b)) : (a \o b)[i] = IF i <= Len(a) THEN a[i] ELSE b[i - Len(a)]
      BY ConcatProperties
    <2>2. DOMAIN (a \o b) = 1..Len(a \o b)
      BY <2>1, LenProperties
    <2> QED
      BY <2>1, <2>2, LenProperties
  <1>2. Elems(a \o b) \subseteq Elems(a) \cup Elems(b)
    <2> SUFFICES ASSUME NEW i \in 1..(Len(a) + Len(b)) PROVE (a \o b)[i] \in Elems(a) \cup Elems(b)
      BY <1>1 DEF Elems
    <2>1. CASE i <= Len(a)
      <3>1. i \in DOMAIN a /\ (a \o b)[i] = a[i]
        BY <1>1, <2>1
      <3> QED
        BY <3>1 DEF Elems
    <2>2. CASE ~(i <= Len(a))
      <3>1. i - Len(a) \in DOMAIN b /\ (a \o b)[i] = b[i - Len(a)]
        BY <1>1, <2>2
      <3> QED
        BY <3>1 DEF Elems
    <2> QED
      BY <2>1, <2>2
  <1>3. ASSUME NEW i \in DOMAIN a PROVE a[i] \in Elems(a \o b)
    <2>1. i \in DOMAIN (a \o b) /\ (a \o b)[i] = a[i]
      BY <1>1
    <2> QED
      BY <2>1 DEF Elems
  <1>4. ASSUME NEW i \in DOMAIN b PROVE b[i] \in Elems(a \o b)
    <2>1. i + Len(a) \in DOMAIN (a \o b) /\ (i + Len(a)) - Len(a) = i /\ ~(i + Len(a) <= Len(a))
      BY <1>1
    <2>2. (a \o b)[i + Len(a)] = b[i]
      BY <1>1, <2>1
    <2> QED
      BY <2>1, <2>2 DEF Elems
  <1>5. Elems(a) \subseteq Elems(a \o b)
    BY <1>3 DEF Elems
  <1>6. Elems(b) \subseteq Elems(a \o b)
    BY <1>4 DEF Elems
  <1> QED
    BY <1>2, <1>5, <1>6

LEMMA NumberedType ==
    ASSUME NEW batch \in Seq(Events), NEW n \in Nat
    PROVE  /\ Numbered(batch, n) \in Seq(Entry) /\ Len(Numbered(batch, n)) = Len(batch)
           /\ \A i \in 1..Len(batch) : /\ Numbered(batch, n)[i].seq = n + i
                                       /\ Numbered(batch, n)[i].event = batch[i]
  <1>1. Len(batch) \in Nat /\ DOMAIN batch = 1..Len(batch) /\ \A i \in 1..Len(batch) : batch[i] \in Events
    BY LenProperties, ElementOfSeq
  <1>2. Numbered(batch, n) = [i \in 1..Len(batch) |-> [seq |-> n + i, event |-> batch[i]]]
    BY <1>1 DEF Numbered
  <1>3. \A i \in 1..Len(batch) : [seq |-> n + i, event |-> batch[i]] \in Entry
    BY <1>1 DEF Entry
  <1>4. Numbered(batch, n) \in Seq(Entry)
    BY <1>1, <1>2, <1>3, IsASeq
  <1> QED
    BY <1>1, <1>2, <1>4, LenProperties

SamePrefixes(gg, g) == \A n \in 0..Len(g) : SubSeq(gg, 1, n) = SubSeq(g, 1, n)

Grown(jj, gg, j, g, batch) ==
    /\ Len(gg) = Len(g) + Len(batch)
    /\ Aligned(jj, gg) /\ Deleted(jj, gg) = Deleted(j, g)
    /\ SamePrefixes(gg, g)

\* A batch that continues the log keeps the journal aligned with it.
LEMMA AlignedPersist ==
    ASSUME NEW j \in Seq(Entry), NEW g \in Seq(Events), Aligned(j, g),
           NEW batch \in Seq(Events),
           NEW jj, jj = j \o Numbered(batch, Len(g)), NEW gg, gg = g \o batch
    PROVE  Grown(jj, gg, j, g, batch)
  <1> DEFINE x == Numbered(batch, Len(g))
             d == Deleted(j, g)
  <1>1. Len(g) \in Nat /\ Len(j) \in Nat /\ Len(batch) \in Nat
    BY LenProperties
  <1>2. /\ x \in Seq(Entry) /\ Len(x) = Len(batch)
        /\ \A i \in 1..Len(batch) : x[i].seq = Len(g) + i /\ x[i].event = batch[i]
    BY <1>1, NumberedType
  <1> HIDE DEF x
  <1>3. /\ jj \in Seq(Entry) /\ Len(jj) = Len(j) + Len(batch)
        /\ \A i \in 1..(Len(j) + Len(batch)) : jj[i] = IF i <= Len(j) THEN j[i] ELSE x[i - Len(j)]
    <2>1. x \in Seq(Entry)
      BY <1>2
    <2>2. /\ j \o x \in Seq(Entry) /\ Len(j \o x) = Len(j) + Len(x)
          /\ \A i \in 1..(Len(j) + Len(x)) : (j \o x)[i] = IF i <= Len(j) THEN j[i] ELSE x[i - Len(j)]
      BY <2>1, ConcatProperties
    <2>3. jj = j \o x /\ Len(x) = Len(batch)
      BY <1>2 DEF x
    <2> QED
      BY <2>2, <2>3, Zenon
  <1>4. /\ gg \in Seq(Events) /\ Len(gg) = Len(g) + Len(batch)
        /\ \A i \in 1..(Len(g) + Len(batch)) : gg[i] = IF i <= Len(g) THEN g[i] ELSE batch[i - Len(g)]
    BY ConcatProperties
  <1>5. d \in Nat /\ d = Len(g) - Len(j)
        /\ \A i \in 1..Len(j) : j[i].seq = d + i /\ j[i].event = g[d + i]
    BY DEF Aligned, Deleted
  <1>6. Deleted(jj, gg) = d
    BY <1>1, <1>3, <1>4, <1>5 DEF Deleted
  <1> HIDE DEF d
  <1>7. ASSUME NEW i \in 1..(Len(j) + Len(batch)) PROVE jj[i].seq = d + i /\ jj[i].event = gg[d + i]
    <2>0. d + i \in 1..(Len(g) + Len(batch))
      BY <1>1, <1>5
    <2>1. CASE i <= Len(j)
      <3>1. i \in 1..Len(j) /\ d + i <= Len(g)
        BY <1>1, <1>5, <2>1
      <3>2. jj[i] = j[i] /\ gg[d + i] = g[d + i]
        BY <1>3, <1>4, <2>0, <2>1, <3>1
      <3> QED
        BY <1>5, <3>1, <3>2
    <2>2. CASE ~(i <= Len(j))
      <3>1. i - Len(j) \in 1..Len(batch) /\ ~(d + i <= Len(g)) /\ (d + i) - Len(g) = i - Len(j)
            /\ Len(g) + (i - Len(j)) = d + i
        BY <1>1, <1>5, <2>2
      <3>2. jj[i] = x[i - Len(j)] /\ gg[d + i] = batch[i - Len(j)]
        BY <1>3, <1>4, <2>0, <2>2, <3>1
      <3> QED
        BY <1>2, <3>1, <3>2
    <2> QED
      BY <2>1, <2>2
  <1>8. Aligned(jj, gg)
    <2>1. DOMAIN jj = 1..(Len(j) + Len(batch))
      BY <1>3, LenProperties
    <2> QED
      BY <1>5, <1>6, <1>7, <2>1 DEF Aligned
  <1>9. ASSUME NEW n \in 0..Len(g) PROVE SubSeq(gg, 1, n) = SubSeq(g, 1, n)
    <2>1. \A i \in 1..n : g[i] \in Events /\ gg[i] \in Events /\ gg[i] = g[i]
      <3>1. \A i \in 1..n : i \in 1..Len(g) /\ i \in 1..Len(gg) /\ i <= Len(g)
        BY <1>1, <1>4
      <3> QED
        BY <1>4, <3>1, ElementOfSeq
    <2>2. n \in Int /\ 1 \in Int /\ n \in Nat /\ n - 1 + 1 = n /\ \A i \in 1..n : 1 + i - 1 = i
      BY <1>1
    <2>3. /\ SubSeq(g, 1, n) \in Seq(Events) /\ Len(SubSeq(g, 1, n)) = (IF 1 <= n THEN n - 1 + 1 ELSE 0)
          /\ \A i \in 1..(n - 1 + 1) : SubSeq(g, 1, n)[i] = g[1 + i - 1]
      BY <2>1, <2>2, SubSeqProperties
    <2>4. /\ SubSeq(gg, 1, n) \in Seq(Events) /\ Len(SubSeq(gg, 1, n)) = (IF 1 <= n THEN n - 1 + 1 ELSE 0)
          /\ \A i \in 1..(n - 1 + 1) : SubSeq(gg, 1, n)[i] = gg[1 + i - 1]
      BY <2>1, <2>2, SubSeqProperties
    <2>5. /\ Len(SubSeq(g, 1, n)) = n /\ Len(SubSeq(gg, 1, n)) = n
          /\ \A i \in 1..n : SubSeq(gg, 1, n)[i] = SubSeq(g, 1, n)[i]
      BY <2>1, <2>2, <2>3, <2>4
    <2> QED
      BY <2>3, <2>4, <2>5, SeqEqual
  <1> QED
    BY <1>3, <1>4, <1>6, <1>8, <1>9 DEF d, SamePrefixes, Grown

After(r, g, n) ==
    /\ r \in Seq(Entry) /\ Len(r) = Len(g) - n /\ Aligned(r, g)
    /\ \A i \in 1..Len(r) : r[i].seq = n + i /\ r[i].event = g[n + i]

\* The entries after sequence number n of an aligned journal are its last ones.
LEMMA AlignedAfter ==
    ASSUME NEW j \in Seq(Entry), NEW g \in Seq(Events), Aligned(j, g),
           NEW n \in Deleted(j, g)..Len(g),
           NEW keep, \A i \in DOMAIN j : i \in keep <=> j[i].seq > n,
           NEW r, r = Retain(j, keep)
    PROVE  After(r, g, n)
  <1> DEFINE d == Deleted(j, g)
             c == n - d
  <1>1. Len(g) \in Nat /\ Len(j) \in Nat /\ DOMAIN j = 1..Len(j)
    BY LenProperties
  <1>2. d \in Nat /\ d = Len(g) - Len(j)
        /\ \A i \in 1..Len(j) : j[i].seq = d + i /\ j[i].event = g[d + i]
    BY DEF Aligned, Deleted
  <1>3. n \in d..Len(g)
    OBVIOUS
  <1> HIDE DEF d
  <1>4. c \in 0..Len(j) /\ c = n - d /\ n \in Nat
    BY <1>1, <1>2, <1>3
  <1> HIDE DEF c
  <1>5. \A i \in 1..Len(j) : i \in keep <=> i > c
    <2> TAKE i \in 1..Len(j)
    <2>1. i \in keep <=> d + i > n
      BY <1>1, <1>2
    <2> QED
      BY <1>2, <1>4, <2>1
  <1>6. r = SubSeq(j, c + 1, Len(j))
    BY <1>4, <1>5, RetainSuffix
  <1>7. \A i \in (c + 1)..Len(j) : i \in 1..Len(j) /\ j[i] \in Entry
    <2>1. \A i \in (c + 1)..Len(j) : i \in 1..Len(j)
      BY <1>1, <1>4
    <2> QED
      BY <2>1, ElementOfSeq
  <1>8. /\ r \in Seq(Entry) /\ Len(r) = (IF c + 1 <= Len(j) THEN Len(j) - (c + 1) + 1 ELSE 0)
        /\ \A i \in 1..(Len(j) - (c + 1) + 1) : r[i] = j[(c + 1) + i - 1]
    <2>1. c + 1 \in Int /\ Len(j) \in Int
      BY <1>1, <1>4
    <2> QED
      BY <1>6, <1>7, <2>1, SubSeqProperties
  <1>9. Len(r) = Len(g) - n /\ Len(r) \in Nat
    BY <1>1, <1>2, <1>3, <1>4, <1>8
  <1>10. ASSUME NEW i \in 1..Len(r) PROVE r[i].seq = n + i /\ r[i].event = g[n + i]
    <2>1. /\ i \in 1..(Len(j) - (c + 1) + 1) /\ (c + 1) + i - 1 = c + i /\ c + i \in 1..Len(j)
          /\ d + (c + i) = n + i
      BY <1>1, <1>2, <1>3, <1>4, <1>9
    <2>2. r[i] = j[c + i]
      BY <1>8, <2>1
    <2> QED
      BY <1>2, <2>1, <2>2
  <1>11. Aligned(r, g)
    <2>1. Deleted(r, g) = n
      BY <1>1, <1>4, <1>9 DEF Deleted
    <2>2. DOMAIN r = 1..Len(r)
      BY <1>8, LenProperties
    <2> QED
      BY <1>4, <1>10, <2>1, <2>2 DEF Aligned
  <1> QED
    BY <1>8, <1>9, <1>10, <1>11 DEF After

\* Replaying them on the state up to n restores the log.
LEMMA ReplayRestores ==
    ASSUME NEW g \in Seq(Events), NEW n \in 0..Len(g), NEW r \in Seq(Entry), Len(r) = Len(g) - n,
           \A i \in 1..Len(r) : r[i].seq = n + i /\ r[i].event = g[n + i]
    PROVE  /\ SubSeq(g, 1, n) \o [i \in DOMAIN r |-> r[i].event] = g
           /\ (IF r = <<>> THEN n ELSE Last(r).seq) = Len(g)
  <1> DEFINE a == SubSeq(g, 1, n)
             b == [i \in DOMAIN r |-> r[i].event]
  <1>1. Len(g) \in Nat /\ Len(r) \in Nat /\ n \in Nat /\ DOMAIN r = 1..Len(r)
    BY LenProperties
  <1>2. \A i \in 1..Len(g) : g[i] \in Events
    BY ElementOfSeq
  <1>3. /\ a \in Seq(Events) /\ Len(a) = n /\ \A i \in 1..n : a[i] = g[i]
    <2>1. n \in Int /\ 1 \in Int /\ n - 1 + 1 = n /\ \A i \in 1..n : 1 + i - 1 = i /\ i \in 1..Len(g)
      BY <1>1
    <2>2. /\ a \in Seq(Events) /\ Len(a) = (IF 1 <= n THEN n - 1 + 1 ELSE 0)
          /\ \A i \in 1..(n - 1 + 1) : a[i] = g[1 + i - 1]
      BY <1>2, <2>1, SubSeqProperties
    <2> HIDE DEF a
    <2>3. Len(a) = n
      <3>1. Len(a) = (IF 1 <= n THEN n - 1 + 1 ELSE 0)
        BY <2>2
      <3> QED
        BY <1>1, <3>1
    <2>4. \A i \in 1..n : a[i] = g[i]
      BY <2>1, <2>2, Zenon
    <2> QED
      BY <2>2, <2>3, <2>4
  <1>4. b \in Seq(Events) /\ Len(b) = Len(r) /\ \A i \in 1..Len(r) : b[i] = g[n + i]
    <2>1. b = [i \in 1..Len(r) |-> r[i].event]
      BY <1>1
    <2>2. \A i \in 1..Len(r) : r[i].event \in Events
      <3>1. \A i \in 1..Len(r) : r[i] \in Entry
        BY ElementOfSeq
      <3>2. \A e \in Entry : e.event \in Events
        BY DEF Entry
      <3> QED
        BY <3>1, <3>2
    <2>3. b \in Seq(Events)
      BY <1>1, <2>1, <2>2, IsASeq
    <2>4. Len(b) = Len(r)
      BY <1>1, <2>1, <2>3, LenProperties
    <2> QED
      BY <2>1, <2>3, <2>4
  <1> HIDE DEF a, b
  <1>5. /\ a \o b \in Seq(Events) /\ Len(a \o b) = Len(a) + Len(b)
        /\ \A i \in 1..(Len(a) + Len(b)) : (a \o b)[i] = IF i <= Len(a) THEN a[i] ELSE b[i - Len(a)]
    <2>1. a \in Seq(Events) /\ b \in Seq(Events)
      BY <1>3, <1>4
    <2> QED
      BY <2>1, ConcatProperties
  <1>6. Len(a \o b) = Len(g)
    BY <1>1, <1>3, <1>4, <1>5
  <1>7. ASSUME NEW i \in 1..Len(g) PROVE (a \o b)[i] = g[i]
    <2>0. i \in 1..(Len(a) + Len(b))
      BY <1>1, <1>3, <1>4
    <2>1. CASE i <= n
      BY <1>3, <1>5, <2>0, <2>1
    <2>2. CASE ~(i <= n)
      <3>1. i - n \in 1..Len(r) /\ n + (i - n) = i
        BY <1>1, <2>2
      <3>2. (a \o b)[i] = b[i - n]
        BY <1>3, <1>5, <2>0, <2>2
      <3> QED
        BY <1>4, <3>1, <3>2
    <2> QED
      BY <2>1, <2>2
  <1>8. a \o b = g
    BY <1>5, <1>6, <1>7, SeqEqual
  <1>9. (IF r = <<>> THEN n ELSE Last(r).seq) = Len(g)
    <2>1. CASE r = <<>>
      <3>1. Len(r) = 0
        BY <2>1, EmptySeq
      <3> QED
        BY <1>1, <2>1, <3>1
    <2>2. CASE r # <<>>
      <3>1. Len(r) # 0
        BY <2>2, EmptySeq
      <3>2. Len(r) \in 1..Len(r)
        BY <1>1, <3>1
      <3>3. Last(r).seq = n + Len(r)
        BY <3>2 DEF Last
      <3> QED
        BY <1>1, <2>2, <3>3
    <2> QED
      BY <2>1, <2>2
  <1> QED
    BY <1>8, <1>9 DEF a, b

\* Where recovery starts from, by type.
LEMMA FromType ==
    ASSUME NEW ss \in Seq(SnapshotEntry)
    PROVE  FromSequence(ss) \in Nat /\ FromState(ss) \in Seq(Events)
  <1>1. CASE ss = <<>>
    BY <1>1, EmptySeq DEF FromSequence, FromState
  <1>2. CASE ss # <<>>
    <2>1. Len(ss) \in Nat /\ Len(ss) # 0
      BY <1>2, EmptySeq, LenProperties
    <2>2. Len(ss) \in 1..Len(ss)
      BY <2>1
    <2>3. Last(ss) \in SnapshotEntry
      BY <2>2, ElementOfSeq DEF Last
    <2>4. Last(ss).seq \in Nat /\ Last(ss).state \in Seq(Events)
      BY <2>3 DEF SnapshotEntry
    <2> QED
      BY <1>2, <2>4 DEF FromSequence, FromState
  <1> QED
    BY <1>1, <1>2

\* A batch written under numbers after the latest snapshot can be restored, and
\* what could be restored still can.
LEMMA RestorablePersist ==
    ASSUME NEW ss, FromSequence(ss) \in Nat, NEW j \in Seq(Entry), NEW batch \in Seq(Events),
           NEW n \in Nat, NEW jj, jj = j \o Numbered(batch, n)
    PROVE  /\ jj \in Seq(Entry)
           /\ Restorable(ss, j) \subseteq Restorable(ss, jj)
           /\ n >= FromSequence(ss) => Elems(batch) \subseteq Restorable(ss, jj)
  <1> DEFINE x == Numbered(batch, n)
             f == FromSequence(ss)
  <1>1. Len(j) \in Nat /\ Len(batch) \in Nat /\ DOMAIN j = 1..Len(j) /\ DOMAIN batch = 1..Len(batch)
    BY LenProperties
  <1>2. /\ x \in Seq(Entry) /\ Len(x) = Len(batch)
        /\ \A i \in 1..Len(batch) : x[i].seq = n + i /\ x[i].event = batch[i]
    BY NumberedType
  <1>3. jj = j \o x
    OBVIOUS
  <1> HIDE DEF x
  <1>4. /\ jj \in Seq(Entry) /\ Len(jj) = Len(j) + Len(x)
        /\ \A i \in 1..(Len(j) + Len(x)) : jj[i] = IF i <= Len(j) THEN j[i] ELSE x[i - Len(j)]
    <2>1. x \in Seq(Entry)
      BY <1>2
    <2>2. /\ j \o x \in Seq(Entry) /\ Len(j \o x) = Len(j) + Len(x)
          /\ \A i \in 1..(Len(j) + Len(x)) : (j \o x)[i] = IF i <= Len(j) THEN j[i] ELSE x[i - Len(j)]
      BY <2>1, ConcatProperties
    <2> QED
      BY <1>3, <2>2, Zenon
  <1>5. DOMAIN jj = 1..(Len(j) + Len(batch))
    BY <1>2, <1>4, LenProperties
  <1>6. ASSUME NEW i \in DOMAIN j, j[i].seq > f
        PROVE  j[i].event \in {jj[k].event : k \in {k \in DOMAIN jj : jj[k].seq > f}}
    <2>1. i \in DOMAIN jj /\ jj[i] = j[i]
      BY <1>1, <1>2, <1>4, <1>5
    <2> QED
      BY <1>6, <2>1
  <1>7. Restorable(ss, j) \subseteq Restorable(ss, jj)
    BY <1>6 DEF Restorable
  <1>8. ASSUME n >= f, NEW i \in 1..Len(batch)
        PROVE  batch[i] \in {jj[k].event : k \in {k \in DOMAIN jj : jj[k].seq > f}}
    <2>1. /\ Len(j) + i \in 1..(Len(j) + Len(batch)) /\ ~(Len(j) + i <= Len(j)) /\ (Len(j) + i) - Len(j) = i
          /\ n + i > f
      BY <1>1, <1>8
    <2>2. Len(j) + i \in DOMAIN jj /\ jj[Len(j) + i] = x[i]
      BY <1>2, <1>4, <1>5, <2>1
    <2>3. jj[Len(j) + i].seq > f /\ jj[Len(j) + i].event = batch[i]
      BY <1>2, <2>1, <2>2
    <2> QED
      BY <2>2, <2>3
  <1>9. n >= f => Elems(batch) \subseteq Restorable(ss, jj)
    BY <1>1, <1>8 DEF Restorable, Elems
  <1> QED
    BY <1>4, <1>7, <1>9

\* Deleting what the latest snapshot covers loses nothing.
LEMMA RestorableDelete ==
    ASSUME NEW ss, NEW j \in Seq(Entry),
           NEW r, r = Retain(j, {i \in DOMAIN j : j[i].seq > FromSequence(ss)})
    PROVE  r \in Seq(Entry) /\ Restorable(ss, j) \subseteq Restorable(ss, r)
  <1> DEFINE keep == {i \in DOMAIN j : j[i].seq > FromSequence(ss)}
  <1>1. keep \subseteq DOMAIN j
    OBVIOUS
  <1>2. /\ r \in Seq(Entry)
        /\ \A k \in keep : \E i \in DOMAIN r : r[i] = j[k]
    <2>1. r = Retain(j, keep)
      OBVIOUS
    <2> HIDE DEF keep
    <2>2. keep \subseteq 1..Len(j)
      BY <1>1, LenProperties
    <2>3. /\ r \in Seq(Entry)
          /\ \A i \in 1..Len(r) : \E k \in keep : r[i] = j[k]
          /\ \A k \in keep : \E i \in 1..Len(r) : r[i] = j[k]
      <3>1. r \in Seq(Entry) /\ SameEntries(j, keep, r)
        BY <2>1, <2>2, RetainRange
      <3> QED
        BY <3>1, Zenon DEF SameEntries
    <2>4. DOMAIN r = 1..Len(r)
      BY <2>3, LenProperties
    <2> QED
      BY <2>3, <2>4, Zenon
  <1>3. ASSUME NEW k \in DOMAIN j, j[k].seq > FromSequence(ss)
        PROVE  j[k].event \in {r[i].event : i \in {i \in DOMAIN r : r[i].seq > FromSequence(ss)}}
    <2>1. PICK i \in DOMAIN r : r[i] = j[k]
      BY <1>2, <1>3
    <2> QED
      BY <1>3, <2>1
  <1> QED
    BY <1>2, <1>3 DEF Restorable

Replayed(ss, j, n, m, r) ==
    /\ r \in Seq(Entry)
    /\ m \o [i \in DOMAIN r |-> r[i].event] \in Seq(Events)
    /\ Restorable(ss, j) \subseteq Elems(m \o [i \in DOMAIN r |-> r[i].event])
    /\ (IF r = <<>> THEN n ELSE Last(r).seq) \in Nat
    /\ (IF r = <<>> THEN n ELSE Last(r).seq) >= n

\* Recovery restores what can be restored, and resumes after the latest snapshot.
LEMMA RestorableReplay ==
    ASSUME NEW ss \in Seq(SnapshotEntry), NEW j \in Seq(Entry),
           NEW n, n = FromSequence(ss), NEW m, m = FromState(ss),
           NEW r, r = Retain(j, {i \in DOMAIN j : j[i].seq >= n + 1})
    PROVE  Replayed(ss, j, n, m, r)
  <1> DEFINE keep == {i \in DOMAIN j : j[i].seq >= n + 1}
             b == [i \in DOMAIN r |-> r[i].event]
  <1>0. n \in Nat /\ m \in Seq(Events)
    BY FromType
  <1>1. keep \subseteq DOMAIN j
    OBVIOUS
  <1>2. /\ r \in Seq(Entry)
        /\ \A i \in DOMAIN r : \E k \in keep : r[i] = j[k]
        /\ \A k \in keep : \E i \in DOMAIN r : r[i] = j[k]
    <2>1. r = Retain(j, keep)
      OBVIOUS
    <2> HIDE DEF keep
    <2>2. keep \subseteq 1..Len(j)
      BY <1>1, LenProperties
    <2>3. /\ r \in Seq(Entry)
          /\ \A i \in 1..Len(r) : \E k \in keep : r[i] = j[k]
          /\ \A k \in keep : \E i \in 1..Len(r) : r[i] = j[k]
      <3>1. r \in Seq(Entry) /\ SameEntries(j, keep, r)
        BY <2>1, <2>2, RetainRange
      <3> QED
        BY <3>1, Zenon DEF SameEntries
    <2>4. DOMAIN r = 1..Len(r)
      BY <2>3, LenProperties
    <2> QED
      BY <2>3, <2>4, Zenon
  <1>3. \A i \in DOMAIN r : r[i].seq >= n + 1
    BY <1>2
  <1>4. Len(r) \in Nat /\ DOMAIN r = 1..Len(r) /\ \A i \in DOMAIN r : r[i] \in Entry
    BY <1>2, LenProperties, ElementOfSeq
  <1>5. \A e \in Entry : e.event \in Events /\ e.seq \in Nat
    BY DEF Entry
  <1>6. b \in Seq(Events) /\ DOMAIN b = DOMAIN r /\ \A i \in DOMAIN r : b[i] = r[i].event
    <2>1. b = [i \in 1..Len(r) |-> r[i].event]
      BY <1>4
    <2>2. \A i \in 1..Len(r) : r[i].event \in Events
      BY <1>4, <1>5
    <2>3. b \in Seq(Events)
      BY <1>4, <2>1, <2>2, IsASeq
    <2> QED
      BY <2>3
  <1>7. m \o b \in Seq(Events) /\ Elems(m \o b) = Elems(m) \cup Elems(b)
    <2> HIDE DEF b
    <2> QED
      BY <1>0, <1>6, ConcatProperties, ElemsOfConcat
  <1>8. ASSUME NEW k \in DOMAIN j, j[k].seq > n PROVE j[k].event \in Elems(b)
    <2>1. j[k].seq \in Nat
      BY <1>5, ElementOfSeq, LenProperties
    <2>2. k \in keep
      BY <1>0, <1>8, <2>1
    <2>3. PICK i \in DOMAIN r : r[i] = j[k]
      BY <1>2, <2>2
    <2> HIDE DEF b
    <2> QED
      BY <1>6, <2>3 DEF Elems
  <1>9. Restorable(ss, j) \subseteq Elems(m \o b)
    <2> HIDE DEF b
    <2> QED
      BY <1>7, <1>8 DEF Restorable
  <1>10. /\ (IF r = <<>> THEN n ELSE Last(r).seq) \in Nat
         /\ (IF r = <<>> THEN n ELSE Last(r).seq) >= n
    <2>1. CASE r = <<>>
      BY <1>0, <2>1
    <2>2. CASE r # <<>>
      <3>1. Len(r) # 0
        BY <1>2, <2>2, EmptySeq
      <3>2. Len(r) \in DOMAIN r
        BY <1>4, <3>1
      <3>3. Last(r).seq \in Nat /\ Last(r).seq >= n + 1
        BY <1>3, <1>4, <1>5, <3>2 DEF Last
      <3> QED
        BY <1>0, <2>2, <3>3
    <2> QED
      BY <2>1, <2>2
  <1> QED
    BY <1>2, <1>7, <1>9, <1>10, Zenon DEF Replayed

\* The latest snapshot is kept.
LEMMA SnapshotsKept ==
    ASSUME NEW ss \in Seq(SnapshotEntry), ss # <<>>,
           NEW r, r = Retain(ss, {i \in DOMAIN ss : ss[i].seq >= Last(ss).seq})
    PROVE  /\ r \in Seq(SnapshotEntry) /\ r # <<>> /\ Last(r) = Last(ss)
           /\ FromSequence(r) = FromSequence(ss) /\ FromState(r) = FromState(ss)
  <1> DEFINE keep == {i \in DOMAIN ss : ss[i].seq >= Last(ss).seq}
  <1>1. Len(ss) \in Nat /\ Len(ss) # 0 /\ DOMAIN ss = 1..Len(ss)
    BY EmptySeq, LenProperties
  <1>2. Len(ss) \in DOMAIN ss
    BY <1>1
  <1>3. Last(ss).seq \in Nat
    <2>1. FromSequence(ss) \in Nat
      BY FromType
    <2> QED
      BY <2>1 DEF FromSequence
  <1>4. Len(ss) \in keep
    BY <1>2, <1>3 DEF Last
  <1>5. r = Retain(ss, keep)
    OBVIOUS
  <1> HIDE DEF keep
  <1>6. r \in Seq(SnapshotEntry) /\ r # <<>> /\ r[Len(r)] = ss[Len(ss)]
    BY <1>4, <1>5, RetainLast
  <1> QED
    BY <1>6 DEF Last, FromSequence, FromState

Latest(r, n, m) ==
    /\ r \in Seq(SnapshotEntry) /\ r # <<>>
    /\ Last(r).seq = n /\ Last(r).state = m /\ FromSequence(r) = n /\ FromState(r) = m

\* A new snapshot is the latest.
LEMMA SnapshotSaved ==
    ASSUME NEW ss \in Seq(SnapshotEntry), NEW n \in Nat, NEW m \in Seq(Events),
           NEW r, r = Append(ss, [seq |-> n, state |-> m])
    PROVE  Latest(r, n, m)
  <1> DEFINE s == [seq |-> n, state |-> m]
  <1>1. s \in SnapshotEntry /\ s.seq = n /\ s.state = m /\ r = Append(ss, s)
    BY DEF SnapshotEntry
  <1> HIDE DEF s
  <1>2. r \in Seq(SnapshotEntry) /\ Len(r) = Len(ss) + 1 /\ r[Len(ss) + 1] = s
    <2>1. Append(ss, s) \in Seq(SnapshotEntry) /\ Len(Append(ss, s)) = Len(ss) + 1
          /\ Append(ss, s)[Len(ss) + 1] = s
      BY <1>1, AppendProperties
    <2> QED
      BY <1>1, <2>1, Zenon
  <1>3. Len(ss) \in Nat
    BY LenProperties
  <1>4. r # <<>>
    BY <1>2, <1>3, EmptySeq
  <1>5. Last(r) = s
    BY <1>2 DEF Last
  <1> QED
    BY <1>1, <1>2, <1>4, <1>5 DEF FromSequence, FromState, Latest

-----------------------------------------------------------------------------
(***************************************************************************)
(* The invariant is inductive.                                             *)
(***************************************************************************)

LEMMA KindType == \A k \in Kinds : k = "EventSourced" \/ k = "DurableState"
  BY PersistenceAssumption

LEMMA InitIInv == Init => IInv
  <1> SUFFICES ASSUME Init PROVE IInv
    OBVIOUS
  <1>0. \A S : <<>> \in Seq(S) /\ Len(<<>>) = 0 /\ DOMAIN <<>> = {}
    OBVIOUS
  <1>1. TypeOK
    BY <1>0 DEF Init, TypeOK
  <1>2. RecoveryInv
    BY DEF Init, RecoveryInv
  <1>3. JournalInv
    <2>1. Deleted(<<>>, <<>>) = 0
      BY <1>0 DEF Deleted
    <2>2. Aligned(<<>>, <<>>) /\ Covered(<<>>, <<>>, <<>>)
      BY <1>0, <2>1 DEF Aligned, Covered
    <2> QED
      BY <2>2 DEF Init, JournalInv
  <1>4. AckInv
    BY DEF Init, AckInv
  <1> QED
    BY <1>1, <1>2, <1>3, <1>4 DEF IInv

\* What the invariant says of each variable.
LEMMA Parts ==
    ASSUME TypeOK
    PROVE  /\ kind \in Kinds /\ policy \in Policies
           /\ journal \in Seq(Entry) /\ snapshots \in Seq(SnapshotEntry)
           /\ states \in Seq(Events) \cup {None}
           /\ memory \in Seq(Events) /\ log \in Seq(Events)
           /\ last_sequence_id \in Nat /\ attempt \in Nat /\ restarts \in Nat
           /\ stale \in BOOLEAN /\ diverged \in BOOLEAN /\ skipped \in BOOLEAN
           /\ acked \subseteq Events
           /\ phase \in {"down", "loading", "replaying", "running", "stopped"}
  BY DEF TypeOK, Entry, SnapshotEntry

LEMMA TypeNext ==
    ASSUME kind' \in Kinds, policy' \in Policies,
           journal' \in Seq(Entry), snapshots' \in Seq(SnapshotEntry),
           states' \in Seq(Events) \cup {None},
           memory' \in Seq(Events), log' \in Seq(Events),
           last_sequence_id' \in Nat, attempt' \in Nat, restarts' \in Nat,
           stale' \in BOOLEAN, diverged' \in BOOLEAN, skipped' \in BOOLEAN,
           acked' \subseteq Events,
           phase' \in {"down", "loading", "replaying", "running", "stopped"}
    PROVE  TypeOK'
  BY DEF TypeOK, Entry, SnapshotEntry

\* persist and persist_batch.
LEMMA PersistKeeps ==
    ASSUME IInv, NEW batch \in Seq(Events), NEW outcome \in Outcomes, PersistBatch(batch, outcome)
    PROVE  IInv'
  <1>0. /\ TypeOK /\ RecoveryInv /\ JournalInv /\ AckInv
    BY DEF IInv
  <1>1. /\ journal \in Seq(Entry) /\ snapshots \in Seq(SnapshotEntry)
        /\ memory \in Seq(Events) /\ log \in Seq(Events) /\ last_sequence_id \in Nat
        /\ acked \subseteq Events /\ stale \in BOOLEAN /\ diverged \in BOOLEAN
    BY <1>0, Parts
  <1>2. /\ kind' = kind /\ policy' = policy /\ snapshots' = snapshots /\ states' = states
        /\ phase' = phase /\ attempt' = attempt /\ restarts' = restarts /\ skipped' = skipped
        /\ phase = "running" /\ kind = "EventSourced"
    BY DEF PersistBatch
  <1>3. CASE outcome = "failed"
    <2>1. /\ memory' = memory /\ last_sequence_id' = last_sequence_id /\ acked' = acked
          /\ stale' = stale /\ journal' = journal /\ log' = log /\ diverged' = diverged
      BY <1>3 DEF PersistBatch
    <2> QED
      BY <1>0, <1>2, <2>1 DEF IInv, TypeOK, RecoveryInv, JournalInv, AckInv, Restorable,
         FromState, FromSequence, Covered, Aligned, Deleted, Last, Elems
  <1>4. CASE outcome # "failed"
    <2>1. /\ journal' = journal \o Numbered(batch, last_sequence_id)
          /\ log' = log \o batch /\ diverged' = (diverged \/ stale)
      BY <1>4 DEF PersistBatch, WriteEvents
    <2>2. \/ /\ outcome = "ok" /\ memory' = memory \o batch
             /\ last_sequence_id' = last_sequence_id + Len(batch)
             /\ acked' = acked \cup Elems(batch) /\ stale' = stale
          \/ /\ outcome = "doubt" /\ stale' = TRUE /\ memory' = memory
             /\ last_sequence_id' = last_sequence_id /\ acked' = acked
      BY <1>4 DEF PersistBatch
    <2>3. Len(batch) \in Nat /\ Elems(batch) \subseteq Events
      BY LenProperties, ElementOfSeq DEF Elems
    <2>4. FromSequence(snapshots) \in Nat
      BY <1>1, FromType
    <2>5. /\ journal' \in Seq(Entry)
          /\ Restorable(snapshots, journal) \subseteq Restorable(snapshots, journal')
          /\ last_sequence_id >= FromSequence(snapshots) =>
                Elems(batch) \subseteq Restorable(snapshots, journal')
      BY <1>1, <2>1, <2>4, RestorablePersist
    <2>6. log' \in Seq(Events) /\ memory \o batch \in Seq(Events)
          /\ Elems(memory \o batch) = Elems(memory) \cup Elems(batch)
      BY <1>1, <2>1, ConcatProperties, ElemsOfConcat
    <2>7. TypeOK'
      <3>1. memory' \in Seq(Events) /\ last_sequence_id' \in Nat /\ stale' \in BOOLEAN
            /\ diverged' \in BOOLEAN /\ acked' \subseteq Events
        <4>1. diverged' \in BOOLEAN
          BY <2>1, Zenon
        <4>2. stale' \in BOOLEAN
          BY <1>1, <2>2, Zenon
        <4>3. memory' \in Seq(Events)
          BY <1>1, <2>2, <2>6
        <4>4. last_sequence_id' \in Nat
          BY <1>1, <2>2, <2>3
        <4>5. acked' \subseteq Events
          BY <1>1, <2>2, <2>3
        <4> QED
          BY <4>1, <4>2, <4>3, <4>4, <4>5
      <3> QED
        BY <1>0, <1>2, <2>5, <2>6, <3>1, Parts, TypeNext
    <2>8. RecoveryInv'
      BY <1>2 DEF RecoveryInv
    <2>9. JournalInv'
      <3> SUFFICES ASSUME ~diverged, ~stale
                   PROVE  /\ Aligned(journal', log') /\ Covered(snapshots, journal', log')
                          /\ ~stale' => memory' = log' /\ last_sequence_id' = Len(log')
        BY <1>2, <2>1 DEF JournalInv, Aligned, Covered, Deleted, Last
      <3>1. /\ Aligned(journal, log) /\ Covered(snapshots, journal, log)
            /\ memory = log /\ last_sequence_id = Len(log)
        BY <1>0, <1>2 DEF JournalInv
      <3>2. /\ Len(log') = Len(log) + Len(batch)
            /\ Aligned(journal', log') /\ Deleted(journal', log') = Deleted(journal, log)
            /\ \A n \in 0..Len(log) : SubSeq(log', 1, n) = SubSeq(log, 1, n)
        <4>1. journal' = journal \o Numbered(batch, Len(log)) /\ log' = log \o batch
          BY <2>1, <3>1
        <4>2. /\ Len(log') = Len(log) + Len(batch)
              /\ Aligned(journal', log') /\ Deleted(journal', log') = Deleted(journal, log)
              /\ SamePrefixes(log', log)
          <5>1. journal \in Seq(Entry) /\ log \in Seq(Events) /\ Aligned(journal, log) /\ batch \in Seq(Events)
            BY <1>1, <3>1
          <5>2. Grown(journal', log', journal, log, batch)
            BY <4>1, <5>1, AlignedPersist
          <5> QED
            BY <5>2 DEF Grown
        <4> QED
          BY <4>2 DEF SamePrefixes
      <3>3. Covered(snapshots, journal', log')
        <4>1. CASE snapshots = <<>>
          BY <3>1, <3>2, <4>1 DEF Covered
        <4>2. CASE snapshots # <<>>
          <5>1. /\ Last(snapshots).seq \in Deleted(journal, log)..Len(log)
                /\ Last(snapshots).state = SubSeq(log, 1, Last(snapshots).seq)
            BY <3>1, <4>2 DEF Covered
          <5>2. Deleted(journal, log) \in Nat /\ Len(log) \in Nat
            BY <1>1, <3>1, LenProperties DEF Aligned
          <5>3. /\ Last(snapshots).seq \in 0..Len(log)
                /\ Last(snapshots).seq \in Deleted(journal', log')..Len(log')
            BY <2>3, <3>2, <5>1, <5>2
          <5> QED
            BY <3>2, <4>2, <5>1, <5>3 DEF Covered
        <4> QED
          BY <4>1, <4>2
      <3>4. ~stale' => memory' = log' /\ last_sequence_id' = Len(log')
        BY <2>1, <2>2, <3>1, <3>2
      <3> QED
        BY <3>2, <3>3, <3>4
    <2>10. AckInv'
      <3> SUFFICES ASSUME ~skipped
                   PROVE  /\ acked' \subseteq Restorable(snapshots, journal')
                          /\ acked' \subseteq Elems(memory')
                          /\ last_sequence_id' >= FromSequence(snapshots)
        BY <1>2 DEF AckInv, Restorable, FromState, FromSequence, Elems, Last
      <3>1. /\ acked \subseteq Restorable(snapshots, journal) /\ acked \subseteq Elems(memory)
            /\ last_sequence_id >= FromSequence(snapshots)
        BY <1>0, <1>2 DEF AckInv
      <3>2. acked' \subseteq Restorable(snapshots, journal')
        BY <2>2, <2>5, <3>1
      <3>3. acked' \subseteq Elems(memory')
        BY <2>2, <2>6, <3>1
      <3>4. last_sequence_id' >= FromSequence(snapshots)
        BY <1>1, <2>2, <2>3, <2>4, <3>1
      <3> QED
        BY <3>2, <3>3, <3>4
    <2> QED
      BY <2>7, <2>8, <2>9, <2>10 DEF IInv
  <1> QED
    BY <1>3, <1>4

LEMMA SnapshotKeeps ==
    ASSUME IInv, Snapshot
    PROVE  IInv'
  <1>0. /\ TypeOK /\ RecoveryInv /\ JournalInv /\ AckInv
    BY DEF IInv
  <1>1. /\ journal \in Seq(Entry) /\ snapshots \in Seq(SnapshotEntry)
        /\ memory \in Seq(Events) /\ log \in Seq(Events) /\ last_sequence_id \in Nat
        /\ stale \in BOOLEAN /\ diverged \in BOOLEAN
    BY <1>0, Parts
  <1>2. /\ kind' = kind /\ policy' = policy /\ journal' = journal /\ states' = states
        /\ phase' = phase /\ attempt' = attempt /\ restarts' = restarts /\ skipped' = skipped
        /\ memory' = memory /\ last_sequence_id' = last_sequence_id /\ log' = log
        /\ acked' = acked /\ stale' = stale /\ diverged' = (diverged \/ stale)
        /\ phase = "running" /\ kind = "EventSourced"
        /\ snapshots' = Append(snapshots, [seq |-> last_sequence_id, state |-> memory])
    BY DEF Snapshot, SaveSnapshot
  <1>3. /\ snapshots' \in Seq(SnapshotEntry) /\ snapshots' # <<>>
        /\ Last(snapshots').seq = last_sequence_id /\ Last(snapshots').state = memory
        /\ FromSequence(snapshots') = last_sequence_id /\ FromState(snapshots') = memory
    <2>1. snapshots' = Append(snapshots, [seq |-> last_sequence_id, state |-> memory])
      BY <1>2
    <2> QED
      <3>1. snapshots \in Seq(SnapshotEntry) /\ last_sequence_id \in Nat /\ memory \in Seq(Events)
        BY <1>1
      <3>2. Latest(snapshots', last_sequence_id, memory)
        BY <2>1, <3>1, SnapshotSaved
      <3> QED
        BY <3>2 DEF Latest
  <1>4. TypeOK'
    BY <1>0, <1>1, <1>2, <1>3, Parts, TypeNext
  <1>5. RecoveryInv'
    BY <1>2 DEF RecoveryInv
  <1>6. JournalInv'
    <2> SUFFICES ASSUME ~diverged, ~stale
                 PROVE  /\ Aligned(journal, log) /\ Covered(snapshots', journal, log)
                        /\ memory = log /\ last_sequence_id = Len(log)
      BY <1>2 DEF JournalInv, Aligned, Covered, Deleted, Last
    <2>1. Aligned(journal, log) /\ memory = log /\ last_sequence_id = Len(log)
      BY <1>0, <1>2 DEF JournalInv
    <2>2. last_sequence_id \in Deleted(journal, log)..Len(log)
      BY <1>1, <2>1, LenProperties DEF Aligned, Deleted
    <2>3. SubSeq(log, 1, Len(log)) = log
      BY <1>1, SubSeqFull
    <2> QED
      BY <1>3, <2>1, <2>2, <2>3 DEF Covered
  <1>7. AckInv'
    <2> SUFFICES ASSUME ~skipped
                 PROVE  /\ acked \subseteq Restorable(snapshots', journal)
                        /\ acked \subseteq Elems(memory)
                        /\ last_sequence_id >= FromSequence(snapshots')
      BY <1>2 DEF AckInv, Restorable, FromState, FromSequence, Elems, Last
    <2>1. acked \subseteq Elems(memory)
      BY <1>0, <1>2 DEF AckInv
    <2>2. acked \subseteq Restorable(snapshots', journal)
      BY <1>3, <2>1 DEF Restorable
    <2> QED
      BY <1>1, <1>3, <2>1, <2>2
  <1> QED
    BY <1>4, <1>5, <1>6, <1>7 DEF IInv

LEMMA DeleteEventsKeeps ==
    ASSUME IInv, DeleteEventsTo
    PROVE  IInv'
  <1>0. /\ TypeOK /\ RecoveryInv /\ JournalInv /\ AckInv
    BY DEF IInv
  <1>1. /\ journal \in Seq(Entry) /\ snapshots \in Seq(SnapshotEntry) /\ log \in Seq(Events)
        /\ kind \in Kinds
    BY <1>0, Parts
  <1>2. /\ kind' = kind /\ policy' = policy /\ snapshots' = snapshots /\ states' = states
        /\ phase' = phase /\ attempt' = attempt /\ restarts' = restarts /\ skipped' = skipped
        /\ memory' = memory /\ last_sequence_id' = last_sequence_id /\ log' = log
        /\ acked' = acked /\ stale' = stale /\ diverged' = diverged
        /\ phase = "running" /\ snapshots # <<>>
    BY DEF DeleteEventsTo, history
  <1>3. journal' = Retain(journal, {i \in DOMAIN journal : journal[i].seq > FromSequence(snapshots)})
    BY <1>2 DEF DeleteEventsTo, LatestSnapshot, FromSequence
  <1>4. /\ journal' \in Seq(Entry)
        /\ Restorable(snapshots, journal) \subseteq Restorable(snapshots, journal')
    BY <1>1, <1>3, RestorableDelete
  <1>5. TypeOK'
    BY <1>0, <1>2, <1>4, Parts, TypeNext
  <1>6. RecoveryInv'
    BY <1>2 DEF RecoveryInv
  <1>7. JournalInv'
    <2> SUFFICES ASSUME kind = "EventSourced", ~diverged
                 PROVE  /\ Aligned(journal', log) /\ Covered(snapshots, journal', log)
                        /\ ~stale => memory = log /\ last_sequence_id = Len(log)
      BY <1>2 DEF JournalInv, Aligned, Covered, Deleted, Last
    <2>1. /\ Aligned(journal, log) /\ Covered(snapshots, journal, log)
          /\ ~stale => memory = log /\ last_sequence_id = Len(log)
      BY <1>0, <1>2 DEF JournalInv
    <2> DEFINE n == FromSequence(snapshots)
               keep == {i \in DOMAIN journal : journal[i].seq > n}
    <2>2. n \in Deleted(journal, log)..Len(log) /\ n = Last(snapshots).seq
      BY <1>2, <2>1 DEF Covered, FromSequence
    <2>3. journal' = Retain(journal, keep) /\ \A i \in DOMAIN journal : i \in keep <=> journal[i].seq > n
      BY <1>3
    <2> HIDE DEF n, keep
    <2>4. /\ Len(journal') = Len(log) - n /\ Aligned(journal', log)
      <3>1. After(journal', log, n)
        BY <1>1, <2>1, <2>2, <2>3, AlignedAfter
      <3> QED
        BY <3>1 DEF After
    <2>5. n \in Deleted(journal', log)..Len(log)
      <3>1. Len(log) \in Nat /\ n \in Int
        BY <1>1, <2>1, <2>2, LenProperties DEF Aligned
      <3> QED
        BY <2>2, <2>4, <3>1 DEF Deleted
    <2>6. Covered(snapshots, journal', log)
      BY <1>2, <2>1, <2>2, <2>5 DEF Covered
    <2> QED
      BY <2>1, <2>4, <2>6
  <1>8. AckInv'
    <2>1. AckInv
      BY <1>0
    <2>2. CASE kind = "EventSourced"
      <3> SUFFICES ASSUME ~skipped
                   PROVE  /\ acked \subseteq Restorable(snapshots, journal')
                          /\ acked \subseteq Elems(memory)
                          /\ last_sequence_id >= FromSequence(snapshots)
        BY <1>2, <2>2 DEF AckInv, Restorable, FromState, FromSequence, Elems, Last
      <3>1. /\ acked \subseteq Restorable(snapshots, journal) /\ acked \subseteq Elems(memory)
            /\ last_sequence_id >= FromSequence(snapshots)
        BY <1>2, <2>1, <2>2 DEF AckInv
      <3> QED
        BY <1>4, <3>1
    <2>3. CASE kind = "DurableState"
      BY <1>2, <2>1, <2>3 DEF AckInv, Elems
    <2> QED
      BY <1>1, <2>2, <2>3, KindType
  <1> QED
    BY <1>5, <1>6, <1>7, <1>8 DEF IInv

LEMMA DeleteSnapshotsKeeps ==
    ASSUME IInv, DeleteSnapshotsBefore
    PROVE  IInv'
  <1>0. /\ TypeOK /\ RecoveryInv /\ JournalInv /\ AckInv
    BY DEF IInv
  <1>1. snapshots \in Seq(SnapshotEntry)
    BY <1>0, Parts
  <1>2. /\ kind' = kind /\ policy' = policy /\ journal' = journal /\ states' = states
        /\ phase' = phase /\ attempt' = attempt /\ restarts' = restarts /\ skipped' = skipped
        /\ memory' = memory /\ last_sequence_id' = last_sequence_id /\ log' = log
        /\ acked' = acked /\ stale' = stale /\ diverged' = diverged
        /\ phase = "running" /\ snapshots # <<>>
        /\ snapshots' = Retain(snapshots, {i \in DOMAIN snapshots : snapshots[i].seq >= Last(snapshots).seq})
    BY DEF DeleteSnapshotsBefore, history, LatestSnapshot
  <1>3. /\ snapshots' \in Seq(SnapshotEntry) /\ snapshots' # <<>> /\ Last(snapshots') = Last(snapshots)
        /\ FromSequence(snapshots') = FromSequence(snapshots)
        /\ FromState(snapshots') = FromState(snapshots)
    BY <1>1, <1>2, SnapshotsKept
  <1>4. TypeOK'
    BY <1>0, <1>2, <1>3, Parts, TypeNext
  <1>5. RecoveryInv'
    BY <1>2 DEF RecoveryInv
  <1>6. JournalInv'
    <2> SUFFICES ASSUME kind = "EventSourced", ~diverged
                 PROVE  /\ Aligned(journal, log) /\ Covered(snapshots', journal, log)
                        /\ ~stale => memory = log /\ last_sequence_id = Len(log)
      BY <1>2 DEF JournalInv, Aligned, Covered, Deleted, Last
    <2>1. /\ Aligned(journal, log) /\ Covered(snapshots, journal, log)
          /\ ~stale => memory = log /\ last_sequence_id = Len(log)
      BY <1>0, <1>2 DEF JournalInv
    <2>2. Covered(snapshots', journal, log)
      BY <1>2, <1>3, <2>1 DEF Covered
    <2> QED
      BY <2>1, <2>2
  <1>7. AckInv'
    <2>1. Restorable(snapshots', journal) = Restorable(snapshots, journal)
      BY <1>3 DEF Restorable
    <2>2. FromSequence(snapshots)' = FromSequence(snapshots')
      BY DEF FromSequence, Last
    <2>3. Restorable(snapshots, journal)' = Restorable(snapshots, journal)
      BY <1>2, <2>1 DEF Restorable, FromState, FromSequence, Elems, Last
    <2> QED
      BY <1>0, <1>2, <1>3, <2>2, <2>3 DEF AckInv, Elems
  <1> QED
    BY <1>4, <1>5, <1>6, <1>7 DEF IInv

\* Change, save_state and delete_state of a DurableState actor.
LEMMA DurableKeeps ==
    ASSUME IInv,
           \/ \E e \in Events : Change(e)
           \/ \E outcome \in Outcomes : SaveState(outcome)
           \/ DeleteState
    PROVE  IInv'
  <1>0. TypeOK /\ RecoveryInv /\ JournalInv /\ AckInv
    BY DEF IInv
  <1>1. /\ memory \in Seq(Events) /\ states \in Seq(Events) \cup {None} /\ kind \in Kinds
        /\ acked \subseteq Events
    BY <1>0, Parts
  <1>2. /\ kind' = kind /\ policy' = policy /\ journal' = journal /\ snapshots' = snapshots
        /\ phase' = phase /\ attempt' = attempt /\ restarts' = restarts /\ skipped' = skipped
        /\ last_sequence_id' = last_sequence_id /\ log' = log /\ stale' = stale
        /\ diverged' = diverged /\ phase = "running"
    BY DEF Change, SaveState, DeleteState, storage, history
  <1>3. CASE \E e \in Events : Change(e)
    <2>1. PICK e \in Events : Change(e)
      BY <1>3
    <2>2. /\ memory' = Append(memory, e) /\ states' = states /\ acked' = acked
          /\ kind = "DurableState"
      BY <2>1 DEF Change, storage, history
    <2>3. memory' \in Seq(Events) /\ Elems(memory) \subseteq Elems(memory')
      <3>1. /\ memory' \in Seq(Events) /\ Len(memory') = Len(memory) + 1
            /\ \A i \in 1..Len(memory) : memory'[i] = memory[i]
        <4>1. /\ Append(memory, e) \in Seq(Events) /\ Len(Append(memory, e)) = Len(memory) + 1
              /\ \A i \in 1..Len(memory) : Append(memory, e)[i] = memory[i]
          BY <1>1, AppendProperties
        <4> QED
          BY <2>2, <4>1, Zenon
      <3>2. Len(memory) \in Nat /\ DOMAIN memory = 1..Len(memory) /\ DOMAIN memory' = 1..(Len(memory) + 1)
        BY <1>1, <3>1, LenProperties
      <3>3. \A i \in DOMAIN memory : i \in DOMAIN memory' /\ memory'[i] = memory[i]
        BY <3>1, <3>2
      <3> QED
        BY <3>1, <3>3 DEF Elems
    <2>4. TypeOK'
      BY <1>0, <1>2, <2>2, <2>3, Parts, TypeNext
    <2>5. RecoveryInv' /\ JournalInv'
      BY <1>2, <2>2 DEF RecoveryInv, JournalInv
    <2>6. AckInv'
      <3>1. ~skipped => acked \subseteq (IF states = None THEN {} ELSE Elems(states))
                        /\ acked \subseteq Elems(memory)
        BY <1>0, <1>2, <2>2 DEF AckInv
      <3>2. ~skipped => acked \subseteq Elems(memory')
        BY <2>3, <3>1
      <3> QED
        BY <1>2, <2>2, <3>1, <3>2 DEF AckInv, Elems
    <2> QED
      BY <2>4, <2>5, <2>6 DEF IInv
  <1>4. CASE \E outcome \in Outcomes : SaveState(outcome)
    <2>1. PICK outcome \in Outcomes : SaveState(outcome)
      BY <1>4
    <2>2. /\ memory' = memory /\ kind = "DurableState"
          /\ states' = IF outcome = "failed" THEN states ELSE memory
          /\ acked' = IF outcome = "ok" THEN Elems(memory) ELSE acked
      BY <2>1 DEF SaveState
    <2>3. Elems(memory) \subseteq Events /\ memory # None
      BY <1>1, ElementOfSeq, LenProperties, PersistenceAssumption DEF Elems
    <2>4. TypeOK'
      <3>1. states' \in Seq(Events) \cup {None} /\ acked' \subseteq Events
        BY <1>1, <2>2, <2>3
      <3> QED
        BY <1>0, <1>2, <2>2, <3>1, Parts, TypeNext
    <2>5. RecoveryInv' /\ JournalInv'
      BY <1>2, <2>2 DEF RecoveryInv, JournalInv
    <2>6. AckInv'
      <3>1. ~skipped => acked \subseteq (IF states = None THEN {} ELSE Elems(states))
                        /\ acked \subseteq Elems(memory)
        BY <1>0, <1>2, <2>2 DEF AckInv
      <3>2. ~skipped => /\ acked' \subseteq Elems(memory)
                        /\ acked' \subseteq (IF states' = None THEN {} ELSE Elems(states'))
        <4>1. CASE outcome = "failed"
          BY <2>2, <3>1, <4>1
        <4>2. CASE outcome # "failed"
          <5>1. states' = memory /\ states' # None
            BY <2>2, <2>3, <4>2
          <5> QED
            BY <2>2, <3>1, <5>1
        <4> QED
          BY <4>1, <4>2
      <3> QED
        BY <1>2, <2>2, <3>2 DEF AckInv, Elems
    <2> QED
      BY <2>4, <2>5, <2>6 DEF IInv
  <1>5. CASE DeleteState
    <2>1. memory' = memory /\ states' = None /\ acked' = {}
      BY <1>5 DEF DeleteState
    <2>2. TypeOK'
      BY <1>0, <1>2, <2>1, Parts, TypeNext
    <2>3. RecoveryInv'
      BY <1>2 DEF RecoveryInv
    <2>4. JournalInv'
      BY <1>0, <1>2, <2>1 DEF JournalInv, Aligned, Covered, Deleted, Last
    <2>5. AckInv'
      BY <1>0, <1>1, <1>2, <2>1, KindType DEF AckInv, FromSequence, Last
    <2> QED
      BY <2>2, <2>3, <2>4, <2>5 DEF IInv
  <1> QED
    BY <1>3, <1>4, <1>5

\* A crash, a restart, and a recovery that fails.
LEMMA PhaseKeeps ==
    ASSUME IInv, Crash \/ Restart \/ RecoveryFails
    PROVE  IInv'
  <1>0. TypeOK /\ RecoveryInv /\ JournalInv /\ AckInv
    BY DEF IInv
  <1>1. kind \in Kinds /\ restarts \in Nat /\ attempt \in Nat /\ diverged \in BOOLEAN
        /\ stale \in BOOLEAN /\ skipped \in BOOLEAN
    BY <1>0, Parts
  <1>2. /\ kind' = kind /\ policy' = policy /\ journal' = journal /\ snapshots' = snapshots
        /\ states' = states /\ log' = log /\ acked' = acked /\ diverged' = diverged
    BY DEF Crash, Restart, RecoveryFails, storage, history
  <1>3. Restorable(snapshots, journal)' = Restorable(snapshots, journal)
    BY <1>2 DEF Restorable, FromState, FromSequence, Elems, Last
  <1>4. /\ Aligned(journal, log)' <=> Aligned(journal, log)
        /\ Covered(snapshots, journal, log)' <=> Covered(snapshots, journal, log)
    BY <1>2 DEF Aligned, Covered, Deleted, Last
  <1>5. CASE Crash \/ Restart
    <2>1. /\ phase' \in {"down", "loading"} /\ memory' = <<>> /\ last_sequence_id' = 0
          /\ skipped' = skipped /\ attempt' \in Nat
      BY <1>5 DEF Crash, Restart, history
    <2>2. stale' \in BOOLEAN /\ restarts' \in Nat
      <3>1. CASE Crash
        BY <1>1, <3>1 DEF Crash, history
      <3>2. CASE Restart
        <4>1. stale' = FALSE /\ restarts' = restarts + 1
          BY <3>2 DEF Restart
        <4>2. restarts' \in Nat
          BY <1>1, <4>1
        <4> QED
          BY <4>1, <4>2, Zenon
      <3> QED
        BY <1>5, <3>1, <3>2
    <2>3. TypeOK'
      <3>1. memory' \in Seq(Events) /\ last_sequence_id' \in Nat
        BY <2>1, EmptySeq
      <3>2. phase' \in {"down", "loading", "replaying", "running", "stopped"}
        BY <2>1
      <3>3. skipped' \in BOOLEAN /\ diverged' \in BOOLEAN
        BY <1>1, <1>2, <2>1
      <3> QED
        BY <1>0, <1>2, <2>1, <2>2, <3>1, <3>2, <3>3, Parts, TypeNext
    <2>4. RecoveryInv'
      BY <2>1 DEF RecoveryInv
    <2>5. JournalInv'
      BY <1>0, <1>2, <1>4, <2>1 DEF JournalInv
    <2>6. AckInv'
      BY <1>0, <1>2, <1>3, <2>1 DEF AckInv, Elems
    <2> QED
      BY <2>3, <2>4, <2>5, <2>6 DEF IInv
  <1>6. CASE RecoveryFails
    <2>1. /\ memory' = memory /\ last_sequence_id' = last_sequence_id /\ restarts' = restarts
          /\ phase \in {"loading", "replaying"}
      BY <1>6 DEF RecoveryFails
    <2>2. \/ /\ phase' = "stopped" /\ attempt' = attempt /\ stale' = stale /\ skipped' = skipped
          \/ /\ phase' = "loading" /\ attempt' = attempt + 1 /\ stale' = stale /\ skipped' = skipped
          \/ /\ phase' = "running" /\ stale' = TRUE /\ skipped' = TRUE /\ attempt' = attempt
      BY <1>6 DEF RecoveryFails
    <2>3. TypeOK'
      <3>1. attempt' \in Nat
        BY <1>1, <2>2
      <3>2. phase' \in {"down", "loading", "replaying", "running", "stopped"}
        BY <2>2
      <3>3. skipped' \in BOOLEAN /\ diverged' \in BOOLEAN /\ stale' \in BOOLEAN
        BY <1>1, <1>2, <2>2, Zenon
      <3> QED
        BY <1>0, <1>2, <2>1, <3>1, <3>2, <3>3, Parts, TypeNext
    <2>4. RecoveryInv'
      <3>1. phase' = "loading" /\ snapshots = <<>> => memory = <<>> /\ last_sequence_id = 0
        BY <1>0, <2>1 DEF RecoveryInv, FromState, FromSequence
      <3> QED
        BY <1>2, <2>1, <2>2, <3>1 DEF RecoveryInv
    <2>5. JournalInv'
      BY <1>0, <1>2, <1>4, <2>2 DEF JournalInv
    <2>6. AckInv'
      BY <1>0, <1>2, <1>3, <2>2 DEF AckInv, Elems
    <2> QED
      BY <2>3, <2>4, <2>5, <2>6 DEF IInv
  <1> QED
    BY <1>5, <1>6

LEMMA LoadKeeps ==
    ASSUME IInv, LoadSnapshot \/ LoadState
    PROVE  IInv'
  <1>0. TypeOK /\ RecoveryInv /\ JournalInv /\ AckInv
    BY DEF IInv
  <1>1. /\ kind \in Kinds /\ memory \in Seq(Events) /\ last_sequence_id \in Nat
        /\ snapshots \in Seq(SnapshotEntry) /\ states \in Seq(Events) \cup {None}
    BY <1>0, Parts
  <1>2. /\ kind' = kind /\ policy' = policy /\ journal' = journal /\ snapshots' = snapshots
        /\ states' = states /\ log' = log /\ acked' = acked /\ diverged' = diverged
        /\ stale' = stale /\ skipped' = skipped /\ restarts' = restarts /\ attempt' = attempt
        /\ phase = "loading"
    BY DEF LoadSnapshot, LoadState, storage, history
  <1>3. Restorable(snapshots, journal)' = Restorable(snapshots, journal)
    BY <1>2 DEF Restorable, FromState, FromSequence, Elems, Last
  <1>4. /\ Aligned(journal, log)' <=> Aligned(journal, log)
        /\ Covered(snapshots, journal, log)' <=> Covered(snapshots, journal, log)
    BY <1>2 DEF Aligned, Covered, Deleted, Last
  <1>5. CASE LoadSnapshot
    <2>1. /\ phase' = "replaying" /\ kind = "EventSourced"
          /\ memory' = FromState(snapshots) /\ last_sequence_id' = FromSequence(snapshots)
      BY <1>0, <1>2, <1>5 DEF LoadSnapshot, LatestSnapshot, RecoveryInv, FromState, FromSequence
    <2>2. memory' \in Seq(Events) /\ last_sequence_id' \in Nat
      BY <1>1, <2>1, FromType
    <2>3. TypeOK'
      BY <1>0, <1>2, <2>1, <2>2, Parts, TypeNext
    <2>4. RecoveryInv'
      BY <1>2, <2>1 DEF RecoveryInv, FromState, FromSequence, Last
    <2>5. JournalInv'
      BY <1>0, <1>2, <1>4, <2>1 DEF JournalInv
    <2>6. AckInv'
      BY <1>0, <1>2, <1>3, <2>1 DEF AckInv
    <2> QED
      BY <2>3, <2>4, <2>5, <2>6 DEF IInv
  <1>6. CASE LoadState
    <2>1. /\ phase' = "running" /\ kind = "DurableState" /\ last_sequence_id' = last_sequence_id
          /\ memory' = IF states = None THEN memory ELSE states
      BY <1>6 DEF LoadState
    <2>2. memory' \in Seq(Events)
      BY <1>1, <2>1
    <2>3. TypeOK'
      BY <1>0, <1>2, <2>1, <2>2, Parts, TypeNext
    <2>4. RecoveryInv' /\ JournalInv'
      BY <1>2, <2>1 DEF RecoveryInv, JournalInv
    <2>5. AckInv'
      <3>1. ~skipped => acked \subseteq (IF states = None THEN {} ELSE Elems(states))
        BY <1>0, <2>1 DEF AckInv
      <3>2. ~skipped => acked \subseteq Elems(memory')
        BY <2>1, <3>1
      <3> QED
        BY <1>2, <2>1, <3>1, <3>2 DEF AckInv, Elems
    <2> QED
      BY <2>3, <2>4, <2>5 DEF IInv
  <1> QED
    BY <1>5, <1>6

LEMMA ReplayKeeps ==
    ASSUME IInv, ReplayEvents
    PROVE  IInv'
  <1>0. TypeOK /\ RecoveryInv /\ JournalInv /\ AckInv
    BY DEF IInv
  <1>1. /\ journal \in Seq(Entry) /\ log \in Seq(Events) /\ snapshots \in Seq(SnapshotEntry)
        /\ last_sequence_id \in Nat /\ memory \in Seq(Events)
    BY <1>0, Parts
  <1>2. /\ kind' = kind /\ policy' = policy /\ journal' = journal /\ snapshots' = snapshots
        /\ states' = states /\ log' = log /\ acked' = acked /\ diverged' = diverged
        /\ stale' = stale /\ skipped' = skipped /\ restarts' = restarts /\ attempt' = attempt
        /\ phase = "replaying" /\ phase' = "running"
    BY DEF ReplayEvents, storage, history
  <1>3. /\ kind = "EventSourced"
        /\ memory = FromState(snapshots) /\ last_sequence_id = FromSequence(snapshots)
    BY <1>0, <1>2 DEF RecoveryInv
  <1> DEFINE n == last_sequence_id
             r == ReadEvents(n + 1)
  <1>4. /\ memory' = memory \o [i \in DOMAIN r |-> r[i].event]
        /\ last_sequence_id' = IF r = <<>> THEN n ELSE Last(r).seq
    BY DEF ReplayEvents
  <1>5. r = Retain(journal, {i \in DOMAIN journal : journal[i].seq >= n + 1})
    BY DEF ReadEvents
  <1> HIDE DEF r
  <1>6. /\ r \in Seq(Entry) /\ memory' \in Seq(Events)
        /\ Restorable(snapshots, journal) \subseteq Elems(memory')
        /\ last_sequence_id' \in Nat /\ last_sequence_id' >= FromSequence(snapshots)
    <2>1. Replayed(snapshots, journal, n, memory, r)
      BY <1>1, <1>3, <1>5, RestorableReplay
    <2> QED
      BY <1>3, <1>4, <2>1, Zenon DEF Replayed
  <1>7. TypeOK'
    BY <1>0, <1>2, <1>6, Parts, TypeNext
  <1>8. RecoveryInv'
    BY <1>2 DEF RecoveryInv
  <1>9. JournalInv'
    <2> SUFFICES ASSUME ~diverged
                 PROVE  /\ Aligned(journal, log) /\ Covered(snapshots, journal, log)
                        /\ memory' = log /\ last_sequence_id' = Len(log)
      BY <1>2 DEF JournalInv, Aligned, Covered, Deleted, Last
    <2>1. Aligned(journal, log) /\ Covered(snapshots, journal, log)
      BY <1>0, <1>3 DEF JournalInv
    <2>2. Deleted(journal, log) \in Nat /\ Len(log) \in Nat
      BY <1>1, <2>1, LenProperties DEF Aligned
    <2>3. n \in Deleted(journal, log)..Len(log) /\ memory = SubSeq(log, 1, n)
      <3>1. CASE snapshots = <<>>
        <4>1. n = 0 /\ memory = <<>> /\ Deleted(journal, log) = 0
          BY <1>3, <2>1, <3>1 DEF FromState, FromSequence, Covered
        <4>2. SubSeq(log, 1, 0) = <<>>
          BY SubSeqEmpty
        <4> QED
          BY <2>2, <4>1, <4>2
      <3>2. CASE snapshots # <<>>
        BY <1>3, <2>1, <3>2 DEF FromState, FromSequence, Covered
      <3> QED
        BY <3>1, <3>2
    <2> DEFINE keep == {i \in DOMAIN journal : journal[i].seq >= n + 1}
    <2>4. r = Retain(journal, keep) /\ \A i \in DOMAIN journal : i \in keep <=> journal[i].seq > n
      <3>1. \A i \in DOMAIN journal : journal[i].seq \in Nat
        <4>1. \A i \in DOMAIN journal : journal[i] \in Entry
          BY <1>1, ElementOfSeq, LenProperties
        <4>2. \A e \in Entry : e.seq \in Nat
          BY DEF Entry
        <4> QED
          BY <4>1, <4>2
      <3> QED
        BY <1>1, <1>5, <3>1
    <2> HIDE DEF keep, n
    <2>5. /\ Len(r) = Len(log) - n
          /\ \A i \in 1..Len(r) : r[i].seq = n + i /\ r[i].event = log[n + i]
      <3>1. After(r, log, n)
        BY <1>1, <2>1, <2>3, <2>4, AlignedAfter
      <3> QED
        BY <3>1, Zenon DEF After
    <2>6. n \in 0..Len(log)
      BY <2>2, <2>3
    <2>7. /\ SubSeq(log, 1, n) \o [i \in DOMAIN r |-> r[i].event] = log
          /\ (IF r = <<>> THEN n ELSE Last(r).seq) = Len(log)
      BY <1>1, <1>6, <2>5, <2>6, ReplayRestores
    <2> QED
      BY <1>4, <2>1, <2>3, <2>7, Zenon DEF n
  <1>10. AckInv'
    <2>1. Restorable(snapshots, journal)' = Restorable(snapshots, journal)
      BY <1>2 DEF Restorable, FromState, FromSequence, Elems, Last
    <2>2. FromSequence(snapshots)' = FromSequence(snapshots)
      BY <1>2 DEF FromSequence, Last
    <2>3. ~skipped => acked \subseteq Restorable(snapshots, journal)
      BY <1>0, <1>3 DEF AckInv
    <2>4. ~skipped => acked \subseteq Elems(memory')
      BY <1>6, <2>3
    <2> QED
      BY <1>2, <1>3, <1>6, <2>1, <2>2, <2>3, <2>4 DEF AckInv, Elems
  <1> QED
    BY <1>7, <1>8, <1>9, <1>10 DEF IInv

LEMMA NextIInv == IInv /\ [Next]_vars => IInv'
  <1> SUFFICES ASSUME IInv, [Next]_vars PROVE IInv'
    OBVIOUS
  <1>1. ASSUME NEW batch \in Batches, NEW outcome \in Outcomes, PersistBatch(batch, outcome)
        PROVE  IInv'
    <2>1. batch \in Seq(Events)
      <3>1. (\E e \in Events : batch = <<e>>) \/ (\E e, f \in Events : batch = <<e, f>>)
        BY DEF Batches
      <3>2. \A e \in Events : <<e>> \in Seq(Events)
        OBVIOUS
      <3>3. \A e, f \in Events : <<e, f>> \in Seq(Events)
        OBVIOUS
      <3> QED
        BY <3>1, <3>2, <3>3, Zenon
    <2> QED
      BY <1>1, <2>1, PersistKeeps
  <1>2. CASE UNCHANGED vars
    <2>1. /\ TypeOK' <=> TypeOK
          /\ RecoveryInv' <=> RecoveryInv
          /\ JournalInv' <=> JournalInv
          /\ AckInv' <=> AckInv
      BY <1>2 DEF vars, TypeOK, RecoveryInv, JournalInv, AckInv, Restorable, FromState,
         FromSequence, Covered, Aligned, Deleted, Last, Elems
    <2> QED
      BY <2>1 DEF IInv
  <1>3. CASE Snapshot
    BY <1>3, SnapshotKeeps
  <1>4. CASE DeleteEventsTo
    BY <1>4, DeleteEventsKeeps
  <1>5. CASE DeleteSnapshotsBefore
    BY <1>5, DeleteSnapshotsKeeps
  <1>6. CASE (\E e \in Events : Fresh(e) /\ Change(e))
             \/ (\E outcome \in Outcomes : SaveState(outcome)) \/ DeleteState
    BY <1>6, DurableKeeps
  <1>7. CASE Crash \/ Restart
    BY <1>7, PhaseKeeps
  <1>8. CASE RecoveryStep
    <2>1. LoadSnapshot \/ LoadState \/ ReplayEvents \/ RecoveryFails
      BY <1>8 DEF RecoveryStep, RecoverEventSourcedFails, RecoverDurableStateFails
    <2> QED
      BY <2>1, LoadKeeps, ReplayKeeps, PhaseKeeps
  <1> QED
    BY <1>1, <1>2, <1>3, <1>4, <1>5, <1>6, <1>7, <1>8 DEF Next

LEMMA InvariantHolds == Spec => []IInv
  <1> QED
    BY InitIInv, NextIInv, PTL DEF Spec

-----------------------------------------------------------------------------

\* recover_event_sourced: whatever was snapshotted, deleted, retried, in doubt or
\* crashed before it, a recovered actor that has not fallen behind its journal is in
\* the state all events ever written lead to, in order and each once.
THEOREM RecoveryStaysExact == Spec => []RecoveryIsExact
  <1>1. IInv => RecoveryIsExact
    BY DEF IInv, JournalInv, RecoveryIsExact
  <1> QED
    BY <1>1, InvariantHolds, PTL

\* persist, persist_batch and save_state: what they reported as done is in the memory
\* of every later incarnation that recovered, even after sequence numbers were reused
\* by an actor whose write was in doubt.
THEOREM AckedStaysDurable == Spec => []AckedSurvives
  <1>1. IInv => AckedSurvives
    <2> SUFFICES ASSUME IInv, phase = "running", ~skipped PROVE acked \subseteq Elems(memory)
      BY DEF AckedSurvives
    <2>1. kind = "EventSourced" \/ kind = "DurableState"
      BY KindType DEF IInv, TypeOK
    <2> QED
      BY <2>1 DEF IInv, AckInv
  <1> QED
    BY <1>1, InvariantHolds, PTL
=============================================================================
