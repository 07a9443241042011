---------------------------- MODULE RetainProofs ----------------------------
(***************************************************************************)
(* What Retain and SumOf return, and the principle of the least natural    *)
(* number, which stands in for induction over numbers and the length of    *)
(* sequences.                                                              *)
(***************************************************************************)
EXTENDS Retain, Sums, Integers, FiniteSets, FiniteSetTheorems, SequenceTheorems, WellFoundedInduction, TLAPS

\* Every non-empty set of natural numbers has a least element.
LEMMA LeastNat ==
    ASSUME NEW T, T \subseteq Nat, T # {}
    PROVE  \E x \in T : \A y \in T : x <= y
  <1> DEFINE R == {ss \in Nat \X Nat : ss[1] < ss[2]}
  <1>1. IsWellFoundedOn(R, Nat)
    BY NatLessThanWellFounded DEF OpToRel
  <1> HIDE DEF R
  <1>2. PICK x \in T : \A y \in T : <<y, x>> \notin R
    BY <1>1, WFMin
  <1>3. \A y \in T : ~(y < x)
    BY <1>2 DEF R
  <1> QED
    BY <1>3

\* Induction up to n: a set that holds 0, and with each number below n the next one,
\* holds every number up to n.
LEMMA UpTo ==
    ASSUME NEW n \in Nat, NEW P, 0 \in P, \A i \in 0..n : (i # n /\ i \in P) => i + 1 \in P
    PROVE  0..n \subseteq P
  <1> DEFINE T == (0..n) \ P
  <1> SUFFICES ASSUME T # {} PROVE FALSE
    OBVIOUS
  <1>1. T \subseteq Nat
    OBVIOUS
  <1>2. PICK x \in T : \A y \in T : x <= y
    <2> HIDE DEF T
    <2> QED
      BY <1>1, LeastNat
  <1>3. x \in 0..n /\ x \notin P /\ x # 0
    BY <1>2
  <1>4. x - 1 \in 0..n /\ x - 1 # n /\ x - 1 \notin T
    BY <1>2, <1>3
  <1>5. x - 1 \in P
    BY <1>4
  <1>6. (x - 1) + 1 \in P
    BY <1>4, <1>5
  <1> QED
    BY <1>3, <1>6

-----------------------------------------------------------------------------
KeepStep(s, keep, i, before) ==
    IF i = 0 THEN <<>> ELSE IF i \in keep THEN Append(before, s[i]) ELSE before

IsKept(s, keep, n, f) == f = [i \in 0..n |-> KeepStep(s, keep, i, f[i - 1])]

\* The recursion of Retain is well-founded.
LEMMA KeptExists ==
    ASSUME NEW s, NEW keep, NEW m \in Nat
    PROVE  \E f : IsKept(s, keep, m, f)
  <1> DEFINE P == {n \in 0..m : \E f : IsKept(s, keep, n, f)}
  <1>1. 0 \in P
    <2> DEFINE f == [i \in 0..0 |-> <<>>]
    <2>1. \A i \in 0..0 : i = 0
      OBVIOUS
    <2>2. IsKept(s, keep, 0, f)
      BY <2>1 DEF IsKept, KeepStep
    <2> QED
      BY <2>2
  <1>2. ASSUME NEW n \in 0..m, n # m, n \in P PROVE n + 1 \in P
    <2>1. PICK f : IsKept(s, keep, n, f)
      BY <1>2
    <2> DEFINE g == [i \in 0..(n + 1) |-> IF i = n + 1 THEN KeepStep(s, keep, i, f[n]) ELSE f[i]]
    <2>2. \A i \in 0..n : f[i] = KeepStep(s, keep, i, f[i - 1])
      BY <2>1 DEF IsKept
    <2>3. \A i \in 0..(n + 1) : g[i] = KeepStep(s, keep, i, g[i - 1])
      <3> SUFFICES ASSUME NEW i \in 0..(n + 1) PROVE g[i] = KeepStep(s, keep, i, g[i - 1])
        OBVIOUS
      <3>1. CASE i = n + 1
        <4>1. g[i - 1] = f[n]
          BY <3>1
        <4> QED
          BY <3>1, <4>1
      <3>2. CASE i # n + 1 /\ i # 0
        <4>1. i \in 0..n /\ i - 1 \in 0..(n + 1) /\ i - 1 # n + 1
          BY <3>2
        <4>2. g[i - 1] = f[i - 1] /\ g[i] = f[i]
          BY <3>2, <4>1
        <4> QED
          BY <2>2, <4>1, <4>2
      <3>3. CASE i = 0
        <4>1. g[i] = f[0] /\ f[0] = KeepStep(s, keep, 0, f[0 - 1])
          BY <2>2, <3>3
        <4> QED
          BY <3>3, <4>1 DEF KeepStep
      <3> QED
        BY <3>1, <3>2, <3>3
    <2>4. IsKept(s, keep, n + 1, g)
      BY <2>3 DEF IsKept
    <2> QED
      BY <1>2, <2>4
  <1>3. 0..m \subseteq P
    <2> HIDE DEF P
    <2> QED
      BY <1>1, <1>2, UpTo
  <1> QED
    BY <1>3

LEMMA RetainUnfold ==
    ASSUME NEW S, NEW s \in Seq(S), NEW keep
    PROVE  \E f : IsKept(s, keep, Len(s), f) /\ Retain(s, keep) = f[Len(s)]
  <1>1. Len(s) \in Nat
    OBVIOUS
  <1> DEFINE IsIt(f) == f = [i \in 0..Len(s) |->
                  IF i = 0 THEN <<>>
                  ELSE IF i \in keep THEN Append(f[i - 1], s[i]) ELSE f[i - 1]]
  <1> DEFINE g == CHOOSE f : IsIt(f)
  <1>2. PICK f : IsKept(s, keep, Len(s), f)
    BY <1>1, KeptExists
  <1>3. IsIt(f)
    BY <1>2 DEF IsKept, KeepStep
  <1>4. Retain(s, keep) = g[Len(s)]
    BY DEF Retain
  <1>5. IsIt(g)
    <2> HIDE DEF IsIt
    <2> QED
      BY <1>3
  <1>6. IsKept(s, keep, Len(s), g)
    <2> HIDE DEF g
    <2> QED
      BY <1>5 DEF IsKept, KeepStep
  <1> QED
    <2> HIDE DEF g
    <2> QED
      BY <1>4, <1>6

-----------------------------------------------------------------------------
\* r holds the entries of s at the positions of keep up to i, in order: h says where
\* each comes from.
IsPick(s, keep, i, r, h) ==
    /\ h \in [1..Len(r) -> (1..i) \cap keep]
    /\ \A k \in 1..Len(r) : r[k] = s[h[k]]
    /\ \A k, l \in 1..Len(r) : k < l => h[k] < h[l]
    /\ \A j \in (1..i) \cap keep : \E k \in 1..Len(r) : h[k] = j

\* One step of Retain.
LEMMA PickStep ==
    ASSUME NEW S, NEW s \in Seq(S), NEW keep, NEW i \in 0..Len(s), i # Len(s),
           NEW r \in Seq(S), NEW h, IsPick(s, keep, i, r, h),
           NEW q, q = KeepStep(s, keep, i + 1, r)
    PROVE  q \in Seq(S) /\ \E g : IsPick(s, keep, i + 1, q, g)
  <1>1. i + 1 # 0 /\ i + 1 \in 1..Len(s) /\ i \in Nat
    OBVIOUS
  <1>2. CASE i + 1 \notin keep
    <2>1. q = r
      BY <1>1, <1>2 DEF KeepStep
    <2>2. (1..(i + 1)) \cap keep = (1..i) \cap keep
      BY <1>1, <1>2
    <2>3. IsPick(s, keep, i + 1, q, h)
      BY <2>1, <2>2, Zenon DEF IsPick
    <2> QED
      BY <2>1, <2>3
  <1>3. CASE i + 1 \in keep
    <2>1. q = Append(r, s[i + 1])
      BY <1>1, <1>3 DEF KeepStep
    <2>2. s[i + 1] \in S
      BY <1>1, ElementOfSeq
    <2>3. /\ q \in Seq(S) /\ Len(q) = Len(r) + 1 /\ q[Len(r) + 1] = s[i + 1]
          /\ \A k \in 1..Len(r) : q[k] = r[k]
      <3>1. /\ Append(r, s[i + 1]) \in Seq(S) /\ Len(Append(r, s[i + 1])) = Len(r) + 1
            /\ \A k \in 1..Len(r) : Append(r, s[i + 1])[k] = r[k]
            /\ Append(r, s[i + 1])[Len(r) + 1] = s[i + 1]
        BY <2>2, AppendProperties
      <3> QED
        BY <2>1, <3>1, Zenon
    <2>4. Len(r) \in Nat
      OBVIOUS
    <2> DEFINE g == [k \in 1..(Len(r) + 1) |-> IF k = Len(r) + 1 THEN i + 1 ELSE h[k]]
    <2>5. \A k \in 1..Len(r) : h[k] \in (1..i) \cap keep /\ k \in 1..(Len(r) + 1) /\ k # Len(r) + 1
      BY <2>4 DEF IsPick
    <2>6. g[Len(r) + 1] = i + 1 /\ \A k \in 1..Len(r) : g[k] = h[k]
      BY <2>4, <2>5
    <2>7. g \in [1..(Len(r) + 1) -> (1..(i + 1)) \cap keep]
      <3> SUFFICES ASSUME NEW k \in 1..(Len(r) + 1) PROVE g[k] \in (1..(i + 1)) \cap keep
        OBVIOUS
      <3>1. CASE k = Len(r) + 1
        BY <1>1, <1>3, <2>6, <3>1
      <3>2. CASE k # Len(r) + 1
        <4>1. k \in 1..Len(r)
          BY <2>4, <3>2
        <4> QED
          BY <1>1, <2>5, <2>6, <4>1
      <3> QED
        BY <3>1, <3>2
    <2>8. \A k \in 1..(Len(r) + 1) : q[k] = s[g[k]]
      <3> HIDE DEF g
      <3> SUFFICES ASSUME NEW k \in 1..(Len(r) + 1) PROVE q[k] = s[g[k]]
        OBVIOUS
      <3>1. k = Len(r) + 1 \/ k \in 1..Len(r)
        BY <2>4
      <3> QED
        BY <2>3, <2>6, <3>1 DEF IsPick
    <2>9. ASSUME NEW k \in 1..(Len(r) + 1), NEW l \in 1..(Len(r) + 1), k < l PROVE g[k] < g[l]
      <3> HIDE DEF g
      <3>1. k \in 1..Len(r)
        BY <2>4, <2>9
      <3>2. l = Len(r) + 1 \/ l \in 1..Len(r)
        BY <2>4
      <3>3. CASE l = Len(r) + 1
        BY <1>1, <2>5, <2>6, <3>1, <3>3
      <3>4. CASE l \in 1..Len(r)
        BY <2>6, <2>9, <3>1, <3>4 DEF IsPick
      <3> QED
        BY <3>2, <3>3, <3>4
    <2>10. ASSUME NEW j \in (1..(i + 1)) \cap keep PROVE \E k \in 1..(Len(r) + 1) : g[k] = j
      <3> HIDE DEF g
      <3>1. CASE j = i + 1
        BY <2>4, <2>6, <3>1
      <3>2. CASE j # i + 1
        <4>1. j \in (1..i) \cap keep
          BY <1>1, <3>2
        <4>2. PICK k \in 1..Len(r) : h[k] = j
          BY <4>1 DEF IsPick
        <4> QED
          BY <2>5, <2>6, <4>2
      <3> QED
        BY <3>1, <3>2
    <2> HIDE DEF g
    <2>11. IsPick(s, keep, i + 1, q, g)
      BY <2>3, <2>7, <2>8, <2>9, <2>10 DEF IsPick
    <2> QED
      BY <2>3, <2>11
  <1> QED
    BY <1>2, <1>3

\* Retain returns the kept entries, in order, each once, and nothing else.
LEMMA RetainPicks ==
    ASSUME NEW S, NEW s \in Seq(S), NEW keep
    PROVE  Retain(s, keep) \in Seq(S) /\ \E h : IsPick(s, keep, Len(s), Retain(s, keep), h)
  <1>1. Len(s) \in Nat
    OBVIOUS
  <1>2. PICK f : IsKept(s, keep, Len(s), f) /\ Retain(s, keep) = f[Len(s)]
    BY RetainUnfold
  <1>3. \A i \in 0..Len(s) : f[i] = KeepStep(s, keep, i, f[i - 1])
    BY <1>2 DEF IsKept
  <1> DEFINE P == {i \in 0..Len(s) : f[i] \in Seq(S) /\ \E h : IsPick(s, keep, i, f[i], h)}
  <1>4. 0 \in P
    <2>1. f[0] = <<>>
      BY <1>1, <1>3 DEF KeepStep
    <2>2. f[0] \in Seq(S) /\ Len(f[0]) = 0
      BY <2>1, EmptySeq
    <2>3. 1..0 = {}
      OBVIOUS
    <2> DEFINE h == [k \in {} |-> 0]
    <2>4. IsPick(s, keep, 0, f[0], h)
      BY <2>2, <2>3 DEF IsPick
    <2> QED
      BY <1>1, <2>2, <2>4
  <1>5. ASSUME NEW i \in 0..Len(s), i # Len(s), i \in P PROVE i + 1 \in P
    <2>1. i + 1 \in 0..Len(s) /\ (i + 1) - 1 = i
      BY <1>1, <1>5
    <2>2. f[i + 1] = KeepStep(s, keep, i + 1, f[i])
      BY <1>3, <2>1
    <2>3. PICK h : IsPick(s, keep, i, f[i], h)
      BY <1>5
    <2>4. f[i] \in Seq(S)
      BY <1>5
    <2>5. f[i + 1] \in Seq(S) /\ \E g : IsPick(s, keep, i + 1, f[i + 1], g)
      BY <1>5, <2>2, <2>3, <2>4, PickStep
    <2> QED
      BY <2>1, <2>5
  <1>6. 0..Len(s) \subseteq P
    <2> HIDE DEF P
    <2> QED
      BY <1>1, <1>4, <1>5, UpTo
  <1>7. Len(s) \in P
    BY <1>1, <1>6
  <1> QED
    BY <1>2, <1>7

\* ... so that their number is the number of positions kept,
LEMMA RetainLen ==
    ASSUME NEW S, NEW s \in Seq(S), NEW keep, keep \subseteq DOMAIN s
    PROVE  IsFiniteSet(keep) /\ Len(Retain(s, keep)) = Cardinality(keep)
  <1> DEFINE r == Retain(s, keep)
  <1>1. r \in Seq(S) /\ \E h : IsPick(s, keep, Len(s), r, h)
    BY RetainPicks
  <1> HIDE DEF r
  <1>2. PICK h : IsPick(s, keep, Len(s), r, h)
    BY <1>1
  <1>3. Len(r) \in Nat /\ Len(s) \in Nat /\ keep \subseteq 1..Len(s)
    BY <1>1
  <1>4. (1..Len(s)) \cap keep = keep
    BY <1>3
  <1>5. h \in [1..Len(r) -> keep] /\ \A j \in keep : \E k \in 1..Len(r) : h[k] = j
    BY <1>2, <1>4 DEF IsPick
  <1>6. \A k, l \in 1..Len(r) : h[k] = h[l] => k = l
    <2> SUFFICES ASSUME NEW k \in 1..Len(r), NEW l \in 1..Len(r), h[k] = h[l], k # l PROVE FALSE
      OBVIOUS
    <2>1. k < l \/ l < k
      BY <1>3
    <2>2. h[k] \in 1..Len(s) /\ h[l] \in 1..Len(s)
      BY <1>3, <1>5
    <2>3. h[k] < h[l] \/ h[l] < h[k]
      BY <1>2, <2>1 DEF IsPick
    <2> QED
      BY <1>3, <2>2, <2>3
  <1>7. h \in Bijection(1..Len(r), keep)
    BY <1>5, <1>6 DEF Bijection, Injection, Surjection, IsInjective
  <1>8. IsFiniteSet(1..Len(r)) /\ Cardinality(1..Len(r)) = Len(r)
    <2> DEFINE n == Len(r)
    <2>1. n \in Nat /\ 1 \in Int /\ n \in Int
      BY <1>3
    <2> HIDE DEF n
    <2>2. IsFiniteSet(1..n) /\ Cardinality(1..n) = IF 1 > n THEN 0 ELSE n - 1 + 1
      BY <2>1, FS_Interval
    <2>3. Cardinality(1..n) = n
      BY <2>1, <2>2
    <2> QED
      BY <2>2, <2>3 DEF n
  <1>9. IsFiniteSet(keep) /\ Cardinality(keep) = Cardinality(1..Len(r))
    BY <1>7, <1>8, FS_Bijection DEF ExistsBijection
  <1> QED
    BY <1>8, <1>9 DEF r

\* ... and their set is the set of the entries kept.
SameEntries(s, keep, r) ==
    /\ \A k \in 1..Len(r) : \E j \in keep : r[k] = s[j]
    /\ \A j \in keep : \E k \in 1..Len(r) : r[k] = s[j]

LEMMA RetainRange ==
    ASSUME NEW S, NEW s \in Seq(S), NEW keep, keep \subseteq 1..Len(s), NEW r, r = Retain(s, keep)
    PROVE  r \in Seq(S) /\ SameEntries(s, keep, r)
  <1>1. r \in Seq(S) /\ \E h : IsPick(s, keep, Len(s), r, h)
    BY RetainPicks
  <1>2. PICK h : IsPick(s, keep, Len(s), r, h)
    BY <1>1
  <1>3. \A k \in 1..Len(r) : h[k] \in keep
    BY <1>2 DEF IsPick
  <1>4. \A j \in keep : j \in (1..Len(s)) \cap keep
    OBVIOUS
  <1>5. \A k \in 1..Len(r) : r[k] = s[h[k]]
    BY <1>2 DEF IsPick
  <1>6. \A j \in keep : \E k \in 1..Len(r) : h[k] = j
    BY <1>2, <1>4 DEF IsPick
  <1>7. \A k \in 1..Len(r) : \E j \in keep : r[k] = s[j]
    BY <1>3, <1>5, Zenon
  <1>8. ASSUME NEW j \in keep PROVE \E k \in 1..Len(r) : r[k] = s[j]
    <2>1. PICK k \in 1..Len(r) : h[k] = j
      BY <1>6
    <2>2. r[k] = s[j]
      BY <1>5, <2>1
    <2> QED
      BY <2>2
  <1> QED
    BY <1>1, <1>7, <1>8 DEF SameEntries

\* The last entry kept is the last one.
LEMMA RetainLast ==
    ASSUME NEW S, NEW s \in Seq(S), NEW keep, Len(s) \in keep, s # <<>>, NEW r, r = Retain(s, keep)
    PROVE  r \in Seq(S) /\ r # <<>> /\ r[Len(r)] = s[Len(s)]
  <1>1. PICK f : IsKept(s, keep, Len(s), f) /\ r = f[Len(s)]
    BY RetainUnfold
  <1>2. r \in Seq(S) /\ \E h : IsPick(s, keep, Len(s), r, h)
    BY RetainPicks
  <1>3. PICK h : IsPick(s, keep, Len(s), r, h)
    BY <1>2
  <1>4. Len(s) \in Nat /\ Len(s) # 0 /\ Len(r) \in Nat
    BY <1>2, EmptySeq
  <1>5. Len(s) \in (1..Len(s)) \cap keep
    BY <1>4
  <1>6. PICK k \in 1..Len(r) : h[k] = Len(s)
    BY <1>3, <1>5 DEF IsPick
  <1>7. Len(r) \in 1..Len(r) /\ Len(r) # 0
    BY <1>4
  <1>8. h[Len(r)] \in 1..Len(s)
    BY <1>3, <1>7 DEF IsPick
  <1>9. k < Len(r) => h[k] < h[Len(r)]
    BY <1>3, <1>6, <1>7 DEF IsPick
  <1>10. k = Len(r)
    BY <1>4, <1>6, <1>7, <1>8, <1>9
  <1>11. r[Len(r)] = s[Len(s)]
    BY <1>3, <1>6, <1>7, <1>10 DEF IsPick
  <1> QED
    BY <1>2, <1>7, <1>11, EmptySeq

\* Keeping all entries from c + 1 on leaves the rest of the sequence.
LEMMA RetainSuffix ==
    ASSUME NEW S, NEW s \in Seq(S), NEW c \in 0..Len(s), NEW keep,
           \A i \in 1..Len(s) : i \in keep <=> i > c
    PROVE  Retain(s, keep) = SubSeq(s, c + 1, Len(s))
  <1>1. Len(s) \in Nat /\ c \in Nat
    OBVIOUS
  <1>2. PICK f : IsKept(s, keep, Len(s), f) /\ Retain(s, keep) = f[Len(s)]
    BY RetainUnfold
  <1>3. \A i \in 0..Len(s) : f[i] = KeepStep(s, keep, i, f[i - 1])
    BY <1>2 DEF IsKept
  <1> DEFINE P == {i \in 0..Len(s) : f[i] = SubSeq(s, c + 1, i)}
  <1>4. 0 \in P
    <2>1. f[0] = <<>>
      BY <1>1, <1>3 DEF KeepStep
    <2>2. SubSeq(s, c + 1, 0) = <<>>
      BY <1>1, SubSeqEmpty
    <2>3. 0 \in 0..Len(s) /\ f[0] = SubSeq(s, c + 1, 0)
      BY <1>1, <2>1, <2>2
    <2> QED
      BY <2>3
  <1>5. ASSUME NEW i \in 0..Len(s), i # Len(s), i \in P PROVE i + 1 \in P
    <2>1. i + 1 \in 1..Len(s) /\ (i + 1) - 1 = i /\ i + 1 \in 0..Len(s) /\ i + 1 # 0
      BY <1>1, <1>5
    <2>2. f[i + 1] = KeepStep(s, keep, i + 1, f[i])
      BY <1>3, <2>1
    <2>3. f[i] = SubSeq(s, c + 1, i)
      BY <1>5
    <2>4. CASE i + 1 <= c
      <3>1. i + 1 \notin keep
        BY <1>1, <2>1, <2>4
      <3>2. SubSeq(s, c + 1, i + 1) = <<>> /\ SubSeq(s, c + 1, i) = <<>>
        BY <1>1, <2>4
      <3> QED
        BY <2>1, <2>2, <2>3, <3>1, <3>2 DEF KeepStep
    <2>5. CASE i + 1 > c
      <3>1. i + 1 \in keep
        BY <1>1, <2>1, <2>5
      <3>2. SubSeq(s, c + 1, i + 1) = Append(SubSeq(s, c + 1, i), s[i + 1])
        BY <1>1, <2>1, <2>5
      <3> QED
        BY <2>1, <2>2, <2>3, <3>1, <3>2 DEF KeepStep
    <2> QED
      BY <1>1, <2>4, <2>5
  <1>6. 0..Len(s) \subseteq P
    <2> HIDE DEF P
    <2> QED
      BY <1>1, <1>4, <1>5, UpTo
  <1>7. Len(s) \in P
    BY <1>1, <1>6
  <1> QED
    BY <1>2, <1>7

-----------------------------------------------------------------------------
\* g is the function of the partial sums of f up to n.
IsSum(f, n, g) ==
    /\ DOMAIN g = 0..n /\ g = [i \in 0..n |-> g[i]]
    /\ \A i \in 0..n : g[i] = IF i = 0 THEN 0 ELSE g[i - 1] + f[i]

LEMMA SumExists ==
    ASSUME NEW f, NEW m \in Nat
    PROVE  \E g : IsSum(f, m, g)
  <1> DEFINE P == {n \in 0..m : \E g : IsSum(f, n, g)}
  <1>1. 0 \in P
    <2> DEFINE g == [i \in 0..0 |-> 0]
    <2>1. \A i \in 0..0 : i = 0
      OBVIOUS
    <2>2. IsSum(f, 0, g)
      BY <2>1 DEF IsSum
    <2> QED
      BY <2>2
  <1>2. ASSUME NEW n \in 0..m, n # m, n \in P PROVE n + 1 \in P
    <2>1. PICK g : IsSum(f, n, g)
      BY <1>2
    <2> DEFINE h == [i \in 0..(n + 1) |-> IF i = n + 1 THEN g[n] + f[i] ELSE g[i]]
    <2>2. \A i \in 0..n : g[i] = IF i = 0 THEN 0 ELSE g[i - 1] + f[i]
      BY <2>1 DEF IsSum
    <2>3. \A i \in 0..(n + 1) : h[i] = IF i = 0 THEN 0 ELSE h[i - 1] + f[i]
      <3> SUFFICES ASSUME NEW i \in 0..(n + 1) PROVE h[i] = IF i = 0 THEN 0 ELSE h[i - 1] + f[i]
        OBVIOUS
      <3>1. CASE i = n + 1
        <4>1. h[i - 1] = g[n] /\ i # 0
          BY <3>1
        <4> QED
          BY <3>1, <4>1
      <3>2. CASE i # n + 1 /\ i # 0
        <4>1. i \in 0..n /\ i - 1 \in 0..(n + 1) /\ i - 1 # n + 1
          BY <3>2
        <4>2. h[i - 1] = g[i - 1] /\ h[i] = g[i]
          BY <3>2, <4>1
        <4> QED
          BY <2>2, <3>2, <4>1, <4>2
      <3>3. CASE i = 0
        <4>1. h[i] = g[0]
          BY <3>3
        <4> QED
          BY <2>2, <3>3, <4>1
      <3> QED
        BY <3>1, <3>2, <3>3
    <2>4. IsSum(f, n + 1, h)
      BY <2>3 DEF IsSum
    <2> QED
      BY <1>2, <2>4
  <1>3. 0..m \subseteq P
    <2> HIDE DEF P
    <2> QED
      BY <1>1, <1>2, UpTo
  <1> QED
    BY <1>3

LEMMA SumUnfold ==
    ASSUME NEW f, NEW n \in Nat
    PROVE  \E g : IsSum(f, n, g) /\ SumOf(f, n) = g[n]
  <1> DEFINE IsIt(g) == g = [i \in 0..n |-> IF i = 0 THEN 0 ELSE g[i - 1] + f[i]]
  <1> DEFINE c == CHOOSE g : IsIt(g)
  <1>1. PICK g : IsSum(f, n, g)
    BY SumExists
  <1>2. IsIt(g)
    <2>1. g = [i \in 0..n |-> g[i]] /\ \A i \in 0..n : g[i] = IF i = 0 THEN 0 ELSE g[i - 1] + f[i]
      BY <1>1 DEF IsSum
    <2> QED
      BY <2>1
  <1>3. SumOf(f, n) = c[n]
    BY DEF SumOf
  <1>4. IsIt(c)
    <2> HIDE DEF IsIt
    <2> QED
      BY <1>2
  <1>5. IsSum(f, n, c)
    <2> HIDE DEF c
    <2> QED
      BY <1>4 DEF IsSum
  <1> QED
    <2> HIDE DEF c
    <2> QED
      BY <1>3, <1>5

\* The sum of no numbers, and of one more.
LEMMA SumNone ==
    ASSUME NEW f
    PROVE  SumOf(f, 0) = 0
  <1>1. PICK g : IsSum(f, 0, g) /\ SumOf(f, 0) = g[0]
    BY SumUnfold
  <1> QED
    BY <1>1 DEF IsSum

LEMMA SumNext ==
    ASSUME NEW f, NEW n \in Nat
    PROVE  SumOf(f, n + 1) = SumOf(f, n) + f[n + 1]
  <1>1. PICK g : IsSum(f, n, g) /\ SumOf(f, n) = g[n]
    BY SumUnfold
  <1>2. PICK h : IsSum(f, n + 1, h) /\ SumOf(f, n + 1) = h[n + 1]
    BY SumUnfold
  <1>3. \A i \in 0..n : g[i] = IF i = 0 THEN 0 ELSE g[i - 1] + f[i]
    BY <1>1 DEF IsSum
  <1>4. \A i \in 0..(n + 1) : h[i] = IF i = 0 THEN 0 ELSE h[i - 1] + f[i]
    BY <1>2 DEF IsSum
  <1> DEFINE P == {i \in 0..n : g[i] = h[i]}
  <1>5. 0 \in P
    BY <1>3, <1>4
  <1>6. ASSUME NEW i \in 0..n, i # n, i \in P PROVE i + 1 \in P
    <2>1. i + 1 \in 0..n /\ i + 1 \in 0..(n + 1) /\ i + 1 # 0 /\ (i + 1) - 1 = i
      BY <1>6
    <2>2. g[i + 1] = g[i] + f[i + 1] /\ h[i + 1] = h[i] + f[i + 1]
      BY <1>3, <1>4, <2>1
    <2> QED
      BY <1>6, <2>1, <2>2
  <1>7. 0..n \subseteq P
    <2> HIDE DEF P
    <2> QED
      BY <1>5, <1>6, UpTo
  <1>8. h[n + 1] = h[n] + f[n + 1]
    BY <1>4
  <1> QED
    BY <1>1, <1>2, <1>7, <1>8

LEMMA SumIsNat ==
    ASSUME NEW f, NEW m \in Nat, \A i \in 1..m : f[i] \in Nat
    PROVE  SumOf(f, m) \in Nat
  <1> DEFINE P == {n \in 0..m : SumOf(f, n) \in Nat}
  <1>1. 0 \in P
    BY SumNone
  <1>2. ASSUME NEW n \in 0..m, n # m, n \in P PROVE n + 1 \in P
    <2>1. n \in Nat /\ n + 1 \in 1..m /\ n + 1 \in 0..m
      BY <1>2
    <2> QED
      BY <1>2, <2>1, SumNext
  <1>3. 0..m \subseteq P
    <2> HIDE DEF P
    <2> QED
      BY <1>1, <1>2, UpTo
  <1>4. m \in P
    BY <1>3
  <1> QED
    BY <1>4

\* Sums grow with their summands,
LEMMA SumMonotone ==
    ASSUME NEW f, NEW g, NEW m \in Nat,
           \A i \in 1..m : f[i] \in Nat /\ g[i] \in Nat /\ f[i] <= g[i]
    PROVE  SumOf(f, m) <= SumOf(g, m)
  <1> DEFINE P == {n \in 0..m : SumOf(f, n) \in Nat /\ SumOf(g, n) \in Nat /\ SumOf(f, n) <= SumOf(g, n)}
  <1>1. 0 \in P
    BY SumNone
  <1>2. ASSUME NEW n \in 0..m, n # m, n \in P PROVE n + 1 \in P
    <2>1. n \in Nat /\ n + 1 \in 1..m /\ n + 1 \in 0..m
      BY <1>2
    <2>2. SumOf(f, n + 1) = SumOf(f, n) + f[n + 1] /\ SumOf(g, n + 1) = SumOf(g, n) + g[n + 1]
      BY <2>1, SumNext
    <2> QED
      BY <1>2, <2>1, <2>2
  <1>3. 0..m \subseteq P
    <2> HIDE DEF P
    <2> QED
      BY <1>1, <1>2, UpTo
  <1>4. m \in P
    BY <1>3
  <1> QED
    BY <1>4

\* ... are equal when these are,
LEMMA SumSame ==
    ASSUME NEW f, NEW g, NEW m \in Nat, \A i \in 1..m : f[i] \in Nat /\ f[i] = g[i]
    PROVE  SumOf(f, m) = SumOf(g, m) /\ SumOf(f, m) \in Nat
  <1>1. SumOf(f, m) <= SumOf(g, m) /\ SumOf(g, m) <= SumOf(f, m)
    BY SumMonotone
  <1>2. SumOf(f, m) \in Nat /\ SumOf(g, m) \in Nat
    BY SumIsNat
  <1> QED
    BY <1>1, <1>2

\* ... and are added summand by summand.
LEMMA SumAdds ==
    ASSUME NEW f, NEW g, NEW h, NEW m \in Nat,
           \A i \in 1..m : f[i] \in Nat /\ g[i] \in Nat /\ h[i] = f[i] + g[i]
    PROVE  SumOf(h, m) = SumOf(f, m) + SumOf(g, m)
  <1> DEFINE P == {n \in 0..m : /\ SumOf(f, n) \in Nat /\ SumOf(g, n) \in Nat
                                /\ SumOf(h, n) = SumOf(f, n) + SumOf(g, n)}
  <1>1. 0 \in P
    BY SumNone
  <1>2. ASSUME NEW n \in 0..m, n # m, n \in P PROVE n + 1 \in P
    <2>1. n \in Nat /\ n + 1 \in 1..m /\ n + 1 \in 0..m
      BY <1>2
    <2>2. /\ SumOf(f, n + 1) = SumOf(f, n) + f[n + 1] /\ SumOf(g, n + 1) = SumOf(g, n) + g[n + 1]
          /\ SumOf(h, n + 1) = SumOf(h, n) + h[n + 1]
      BY <2>1, SumNext
    <2> QED
      BY <1>2, <2>1, <2>2
  <1>3. 0..m \subseteq P
    <2> HIDE DEF P
    <2> QED
      BY <1>1, <1>2, UpTo
  <1>4. m \in P
    BY <1>3
  <1> QED
    BY <1>4

LEMMA SumZero ==
    ASSUME NEW f, NEW m \in Nat, \A i \in 1..m : f[i] = 0
    PROVE  SumOf(f, m) = 0
  <1> DEFINE P == {n \in 0..m : SumOf(f, n) = 0}
  <1>1. 0 \in P
    BY SumNone
  <1>2. ASSUME NEW n \in 0..m, n # m, n \in P PROVE n + 1 \in P
    <2>1. n \in Nat /\ n + 1 \in 1..m /\ n + 1 \in 0..m
      BY <1>2
    <2> QED
      BY <1>2, <2>1, SumNext
  <1>3. 0..m \subseteq P
    <2> HIDE DEF P
    <2> QED
      BY <1>1, <1>2, UpTo
  <1>4. m \in P
    BY <1>3
  <1> QED
    BY <1>4

\* One summand more by one is a sum more by one.
LEMMA SumBump ==
    ASSUME NEW f, NEW g, NEW m \in Nat, NEW p \in 1..m,
           \A i \in 1..m : f[i] \in Nat /\ g[i] = IF i = p THEN f[i] + 1 ELSE f[i]
    PROVE  SumOf(g, m) = SumOf(f, m) + 1
  <1> DEFINE one == [i \in 1..m |-> IF i = p THEN 1 ELSE 0]
  <1> DEFINE P == {n \in 0..m : SumOf(one, n) = IF p <= n THEN 1 ELSE 0}
  <1>1. 0 \in P
    BY SumNone
  <1>2. ASSUME NEW n \in 0..m, n # m, n \in P PROVE n + 1 \in P
    <2>1. n \in Nat /\ n + 1 \in 1..m /\ n + 1 \in 0..m
      BY <1>2
    <2>2. SumOf(one, n + 1) = SumOf(one, n) + one[n + 1]
      BY <2>1, SumNext
    <2>3. one[n + 1] = IF n + 1 = p THEN 1 ELSE 0
      BY <2>1
    <2> HIDE DEF one
    <2> QED
      BY <1>2, <2>1, <2>2, <2>3
  <1>3. 0..m \subseteq P
    <2> HIDE DEF P
    <2> QED
      BY <1>1, <1>2, UpTo
  <1>4. m \in P
    BY <1>3
  <1>5. SumOf(one, m) = 1
    BY <1>4
  <1>6. \A i \in 1..m : one[i] \in Nat /\ g[i] = f[i] + one[i]
    OBVIOUS
  <1> HIDE DEF one
  <1> QED
    BY <1>5, <1>6, SumAdds
=============================================================================
