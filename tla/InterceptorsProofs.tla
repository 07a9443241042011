------------------------- MODULE InterceptorsProofs -------------------------
(***************************************************************************)
(* Theorems about Interceptors, for every rate, window, threshold,         *)
(* cooldown and mailbox bound.                                             *)
(***************************************************************************)
EXTENDS Interceptors, RetainProofs

(***************************************************************************)
(* The running totals of a history.                                        *)
(***************************************************************************)

IsTotal(h, n, f) == f = [k \in 0..n |-> h[k] + (IF k = 0 THEN 0 ELSE f[k - 1])]

LEMMA TotalExists ==
    ASSUME NEW h, NEW m \in Nat
    PROVE  \E f : IsTotal(h, m, f)
  <1> DEFINE P == {n \in 0..m : \E f : IsTotal(h, n, f)}
  <1>1. 0 \in P
    <2> DEFINE f == [k \in 0..0 |-> h[k] + 0]
    <2>1. \A k \in 0..0 : k = 0
      OBVIOUS
    <2>2. IsTotal(h, 0, f)
      BY <2>1 DEF IsTotal
    <2> QED
      BY <2>2
  <1>2. ASSUME NEW n \in 0..m, n # m, n \in P PROVE n + 1 \in P
    <2>1. PICK f : IsTotal(h, n, f)
      BY <1>2
    <2> DEFINE g == [k \in 0..(n + 1) |-> IF k = n + 1 THEN h[k] + f[n] ELSE f[k]]
    <2>2. \A k \in 0..n : f[k] = h[k] + (IF k = 0 THEN 0 ELSE f[k - 1])
      BY <2>1 DEF IsTotal
    <2>3. \A k \in 0..(n + 1) : g[k] = h[k] + (IF k = 0 THEN 0 ELSE g[k - 1])
      <3> SUFFICES ASSUME NEW k \in 0..(n + 1)
                   PROVE  g[k] = h[k] + (IF k = 0 THEN 0 ELSE g[k - 1])
        OBVIOUS
      <3>1. CASE k = n + 1
        <4>1. g[k - 1] = f[n] /\ k # 0
          BY <3>1
        <4> QED
          BY <3>1, <4>1
      <3>2. CASE k # n + 1 /\ k # 0
        <4>1. k \in 0..n /\ k - 1 \in 0..(n + 1) /\ k - 1 # n + 1
          BY <3>2
        <4>2. g[k - 1] = f[k - 1] /\ g[k] = f[k]
          BY <3>2, <4>1
        <4> QED
          BY <2>2, <3>2, <4>1, <4>2
      <3>3. CASE k = 0
        BY <2>2, <3>3
      <3> QED
        BY <3>1, <3>2, <3>3
    <2>4. IsTotal(h, n + 1, g)
      BY <2>3 DEF IsTotal
    <2> QED
      BY <1>2, <2>4
  <1>3. 0..m \subseteq P
    <2> HIDE DEF P
    <2> QED
      BY <1>1, <1>2, UpTo
  <1> QED
    BY <1>3

\* The recursion of Total.
LEMMA TotalUnfold ==
    ASSUME NEW m \in Nat, NEW h \in [0..m -> Nat]
    PROVE  /\ Total(h)[0] = h[0]
           /\ \A k \in 1..m : Total(h)[k] = h[k] + Total(h)[k - 1]
           /\ \A k \in 0..m : Total(h)[k] \in Nat
  <1> DEFINE IsIt(f) == f = [k \in DOMAIN h |-> h[k] + (IF k = 0 THEN 0 ELSE f[k - 1])]
             g == CHOOSE f : IsIt(f)
  <1>1. PICK f : IsTotal(h, m, f)
    BY TotalExists
  <1>2. IsIt(f)
    BY <1>1 DEF IsTotal
  <1>3. Total(h) = g
    BY DEF Total
  <1>4. IsIt(g)
    <2> HIDE DEF IsIt
    <2> QED
      BY <1>2
  <1> HIDE DEF g
  <1>5. \A k \in 0..m : g[k] = h[k] + (IF k = 0 THEN 0 ELSE g[k - 1])
    BY <1>4
  <1>6. g[0] = h[0]
    BY <1>5
  <1>7. \A k \in 1..m : g[k] = h[k] + g[k - 1]
    BY <1>5
  <1> DEFINE P == {k \in 0..m : g[k] \in Nat}
  <1>8. 0 \in P
    BY <1>6
  <1>9. ASSUME NEW k \in 0..m, k # m, k \in P PROVE k + 1 \in P
    <2>1. k + 1 \in 1..m /\ (k + 1) - 1 = k
      BY <1>9
    <2>2. g[k + 1] = h[k + 1] + g[k]
      BY <1>7, <2>1
    <2> QED
      BY <1>9, <2>1, <2>2
  <1>10. 0..m \subseteq P
    <2> HIDE DEF P
    <2> QED
      BY <1>8, <1>9, UpTo
  <1> QED
    BY <1>3, <1>6, <1>7, <1>10

\* Totals grow with the stretch of time.
LEMMA TotalGrows ==
    ASSUME NEW m \in Nat, NEW h \in [0..m -> Nat], NEW i \in 0..m, NEW j \in i..m
    PROVE  Total(h)[i] <= Total(h)[j]
  <1> DEFINE S == Total(h)
  <1>1. /\ \A k \in 1..m : S[k] = h[k] + S[k - 1]
        /\ \A k \in 0..m : S[k] \in Nat
    BY TotalUnfold
  <1> HIDE DEF S
  <1> DEFINE P == {k \in 0..m : i <= k => S[i] <= S[k]}
  <1>2. 0 \in P
    BY <1>1
  <1>3. ASSUME NEW k \in 0..m, k # m, k \in P PROVE k + 1 \in P
    <2>1. k + 1 \in 1..m /\ (k + 1) - 1 = k /\ k + 1 \in 0..m
      BY <1>3
    <2>2. S[k + 1] = h[k + 1] + S[k] /\ h[k + 1] \in Nat /\ S[k] \in Nat
      BY <1>1, <2>1
    <2>3. S[i] \in Nat
      BY <1>1
    <2>4. CASE i = k + 1
      BY <2>1, <2>3, <2>4
    <2>5. CASE i # k + 1
      <3>1. i <= k + 1 => i <= k
        BY <2>5
      <3>2. i <= k + 1 => S[i] <= S[k + 1]
        BY <1>3, <2>2, <2>3, <3>1
      <3> QED
        BY <2>1, <3>2
    <2> QED
      BY <2>4, <2>5
  <1>4. 0..m \subseteq P
    <2> HIDE DEF P
    <2> QED
      BY <1>2, <1>3, UpTo
  <1> QED
    BY <1>4 DEF S

\* One more event now counts once in every total.
LEMMA TotalOfOneMore ==
    ASSUME NEW m \in Nat, NEW h \in [0..m -> Nat], NEW g \in [0..m -> Nat],
           g[0] = h[0] + 1, \A k \in 1..m : g[k] = h[k]
    PROVE  \A k \in 0..m : Total(g)[k] = Total(h)[k] + 1
  <1>1. g \in [0..m -> Nat] /\ g[0] = h[0] + 1 /\ \A k \in 1..m : g[k] = h[k]
    OBVIOUS
  <1> DEFINE S == Total(h)
             U == Total(g)
  <1>2. /\ S[0] = h[0]
        /\ \A k \in 1..m : S[k] = h[k] + S[k - 1]
        /\ \A k \in 0..m : S[k] \in Nat
    BY TotalUnfold
  <1>3. /\ U[0] = g[0]
        /\ \A k \in 1..m : U[k] = g[k] + U[k - 1]
    BY <1>1, TotalUnfold
  <1> HIDE DEF S, U
  <1> DEFINE P == {k \in 0..m : U[k] = S[k] + 1}
  <1>4. 0 \in P
    BY <1>1, <1>2, <1>3
  <1>5. ASSUME NEW k \in 0..m, k # m, k \in P PROVE k + 1 \in P
    <2>1. k + 1 \in 1..m /\ (k + 1) - 1 = k /\ k + 1 \in 0..m
      BY <1>5
    <2>2. S[k + 1] = h[k + 1] + S[k] /\ U[k + 1] = h[k + 1] + U[k]
      BY <1>1, <1>2, <1>3, <2>1
    <2>3. h[k + 1] \in Nat /\ S[k] \in Nat /\ U[k] = S[k] + 1
      BY <1>2, <1>5, <2>1
    <2>4. U[k + 1] = S[k + 1] + 1
      <3> DEFINE x == h[k + 1]  y == S[k]
      <3>1. x \in Nat /\ y \in Nat
        BY <2>3
      <3>2. S[k + 1] = x + y /\ U[k + 1] = x + (y + 1)
        BY <2>2, <2>3
      <3> HIDE DEF x, y
      <3> QED
        BY <3>1, <3>2
    <2> QED
      BY <2>1, <2>4
  <1>6. 0..m \subseteq P
    <2> HIDE DEF P
    <2> QED
      BY <1>4, <1>5, UpTo
  <1> QED
    BY <1>1, <1>6 DEF S, U

\* A tick moves every total on by one.
LEMMA TotalOfShift ==
    ASSUME NEW m \in Nat, NEW h \in [0..m -> Nat], NEW g, g = Shift(h)
    PROVE  /\ g \in [0..m -> Nat] /\ g[0] = 0 /\ \A k \in 1..m : g[k] = h[k - 1]
           /\ Total(g)[0] = 0 /\ \A k \in 1..m : Total(g)[k] = Total(h)[k - 1]
  <1>0. g = [k \in 0..m |-> IF k = 0 THEN 0 ELSE h[k - 1]]
    BY DEF Shift
  <1>1. /\ g \in [0..m -> Nat] /\ g[0] = 0 /\ \A k \in 1..m : g[k] = h[k - 1]
    BY <1>0
  <1> DEFINE S == Total(h)
             U == Total(g)
  <1>2. /\ S[0] = h[0]
        /\ \A k \in 1..m : S[k] = h[k] + S[k - 1]
        /\ \A k \in 0..m : S[k] \in Nat
    BY TotalUnfold
  <1>3. /\ U[0] = g[0]
        /\ \A k \in 1..m : U[k] = g[k] + U[k - 1]
    BY <1>1, TotalUnfold
  <1> HIDE DEF S, U
  <1> DEFINE P == {k \in 0..m : U[k] = IF k = 0 THEN 0 ELSE S[k - 1]}
  <1>4. 0 \in P
    BY <1>1, <1>3
  <1>5. ASSUME NEW k \in 0..m, k # m, k \in P PROVE k + 1 \in P
    <2>1. k + 1 \in 1..m /\ (k + 1) - 1 = k /\ k + 1 \in 0..m /\ k + 1 # 0
      BY <1>5
    <2>2. U[k + 1] = h[k] + U[k] /\ h[k] \in Nat
      BY <1>1, <1>3, <2>1
    <2>3. U[k + 1] = S[k]
      <3>1. CASE k = 0
        BY <1>2, <1>5, <2>2, <3>1
      <3>2. CASE k # 0
        <4>1. k \in 1..m
          BY <1>5, <3>2
        <4>2. S[k] = h[k] + S[k - 1] /\ U[k] = S[k - 1]
          BY <1>2, <1>5, <3>2, <4>1
        <4> QED
          BY <2>2, <4>2
      <3> QED
        BY <3>1, <3>2
    <2> QED
      BY <2>1, <2>3
  <1>6. 0..m \subseteq P
    <2> HIDE DEF P
    <2> QED
      BY <1>4, <1>5, UpTo
  <1>7. \A k \in 1..m : U[k] = S[k - 1]
    BY <1>6
  <1> QED
    BY <1>1, <1>3, <1>7 DEF S, U

-----------------------------------------------------------------------------
(***************************************************************************)
(* The limiters.  What a window let pass is bounded by its count, and what *)
(* is left in sight of the window before it is less than that window let   *)
(* pass: its first message is older than Window.                           *)
(***************************************************************************)

LimiterOK(l, h) ==
    /\ l.count = 0 => l.age = 0 /\ Total(h)[Window] = 0
    /\ (l.count # 0 /\ l.age <= Window) =>
          /\ Total(h)[l.age] <= l.count
          /\ Total(h)[l.age] <= 2 * MaxRate
          /\ h[l.age] >= 1
          /\ Total(h)[Window] < Total(h)[l.age] + 2 * MaxRate
    /\ l.age > Window => h[0] = 0 /\ Total(h)[Window] < 2 * MaxRate

WireOK(w, h) ==
    /\ w.age < WireWindow =>
          /\ Total(h)[w.age] <= w.count
          /\ Total(h)[w.age] <= MaxPerWindow
          /\ Total(h)[WireWindow - 1] <= Total(h)[w.age] + MaxPerWindow
    /\ w.age >= WireWindow => h[0] = 0 /\ Total(h)[WireWindow - 1] <= MaxPerWindow

LimiterType == [count : 0..(2 * MaxRate + 1), age : 0..(Window + 1)]
WireType == [count : 0..(MaxPerWindow + 1), age : 0..WireWindow]

LEMMA LeastOf ==
    ASSUME NEW i \in Nat, NEW j \in Nat
    PROVE  Least(i, j) \in 0..j /\ Least(i, j) <= i /\ (i < j => Least(i, j) = i)
           /\ (i >= j => Least(i, j) = j)
  BY DEF Least

\* ActorRateLimiter::on_send keeps the bound.
LEMMA SendKeepsLimiter ==
    ASSUME limiter \in LimiterType, sent \in [0..Window -> Nat], LimiterOK(limiter, sent),
           NEW l, l = CountSend,
           NEW g, g = IF LimiterDisposition(l.count) = "Reject" THEN sent
                      ELSE [sent EXCEPT ![0] = @ + 1]
    PROVE  l \in LimiterType /\ g \in [0..Window -> Nat] /\ LimiterOK(l, g)
  <1> DEFINE one == [sent EXCEPT ![0] = @ + 1]
  <1>0. MaxRate \in Nat \ {0} /\ Window \in Nat
    BY InterceptorsAssumption
  <1>1. /\ one \in [0..Window -> Nat] /\ one[0] = sent[0] + 1 /\ \A k \in 1..Window : one[k] = sent[k]
        /\ \A k \in 0..Window : Total(one)[k] = Total(sent)[k] + 1
    <2>1. one \in [0..Window -> Nat] /\ one[0] = sent[0] + 1 /\ \A k \in 1..Window : one[k] = sent[k]
      BY <1>0
    <2> HIDE DEF one
    <2> QED
      BY <1>0, <2>1, TotalOfOneMore
  <1>2. Total(sent)[0] = sent[0] /\ \A k \in 0..Window : Total(sent)[k] \in Nat
    BY <1>0, TotalUnfold
  <1>3. limiter.count \in 0..(2 * MaxRate + 1) /\ limiter.age \in 0..(Window + 1)
    BY DEF LimiterType
  <1>4. \A k \in 0..Window : Total(sent)[k] <= Total(sent)[Window]
    BY <1>0, TotalGrows
  <1> DEFINE S == Total(sent)
             U == Total(one)
  <1>5. CASE limiter.age > Window
    <2>1. l = [count |-> 1, age |-> 0] /\ l.count = 1 /\ l.age = 0
      BY <1>5 DEF CountSend
    <2>2. g = one
      BY <1>0, <2>1 DEF LimiterDisposition
    <2>3. sent[0] = 0 /\ S[Window] < 2 * MaxRate
      BY <1>5 DEF LimiterOK
    <2>4. U[0] = 1 /\ one[0] = 1 /\ U[Window] = S[Window] + 1
      <3> HIDE DEF one
      <3> QED
        BY <1>0, <1>1, <1>2, <2>3
    <2>5. S[Window] \in Nat
      BY <1>0, <1>2
    <2> HIDE DEF one, S, U
    <2>6. U[Window] < U[0] + 2 * MaxRate
      BY <1>0, <2>3, <2>4, <2>5
    <2>7. LimiterOK(l, one)
      BY <1>0, <2>1, <2>4, <2>6 DEF LimiterOK, U
    <2> QED
      <3>1. 1 \in 0..(2 * MaxRate + 1) /\ 0 \in 0..(Window + 1)
        BY <1>0
      <3>2. l \in LimiterType
        BY <2>1, <3>1 DEF LimiterType
      <3> QED
        BY <1>1, <2>2, <2>7, <3>2
  <1>6. CASE ~(limiter.age > Window)
    <2> DEFINE a == limiter.age
               c == Least(limiter.count + 1, 2 * MaxRate + 1)
    <2>1. l = [limiter EXCEPT !.count = c]
      BY <1>6 DEF CountSend
    <2>2. l.count = c /\ l.age = a /\ l \in [count : {c}, age : {a}]
      BY <2>1 DEF LimiterType
    <2>3. a \in 0..Window /\ limiter.count + 1 \in Nat /\ 2 * MaxRate + 1 \in Nat
      BY <1>0, <1>3, <1>6
    <2>4. /\ c \in 0..(2 * MaxRate + 1) /\ c <= limiter.count + 1
          /\ limiter.count + 1 < 2 * MaxRate + 1 => c = limiter.count + 1
          /\ limiter.count + 1 >= 2 * MaxRate + 1 => c = 2 * MaxRate + 1
      BY <2>3, LeastOf
    <2> HIDE DEF c
    <2>5. c # 0 /\ l \in LimiterType
      BY <1>0, <1>3, <2>1, <2>2, <2>3, <2>4 DEF LimiterType
    <2>6. S[a] \in Nat /\ S[Window] \in Nat /\ U[a] = S[a] + 1 /\ U[Window] = S[Window] + 1
      <3> HIDE DEF one, a
      <3> QED
        BY <1>0, <1>1, <1>2, <2>3
    <2>7. one[a] >= 1 \/ (a # 0 /\ one[a] = sent[a])
      BY <1>0, <1>1, <1>2, <2>3
    <2>8. CASE limiter.count = 0
      <3>1. a = 0 /\ S[Window] = 0
        BY <2>8 DEF LimiterOK
      <3>2. S[0] = 0 /\ c = 1
        BY <1>0, <1>2, <1>4, <2>4, <2>8, <3>1
      <3>3. g = one
        BY <1>0, <2>2, <3>2 DEF LimiterDisposition
      <3>4. U[0] = 1 /\ one[0] >= 1 /\ U[Window] = 1
        BY <1>0, <1>1, <1>2, <2>6, <3>1, <3>2
      <3> HIDE DEF a, one, S, U
      <3>5. LimiterOK(l, one)
        BY <1>0, <2>2, <3>1, <3>2, <3>4 DEF LimiterOK, U
      <3> QED
        BY <1>1, <2>5, <3>3, <3>5
    <2>9. CASE limiter.count # 0
      <3>1. /\ S[a] <= limiter.count /\ S[a] <= 2 * MaxRate /\ sent[a] >= 1
            /\ S[Window] < S[a] + 2 * MaxRate
        BY <1>0, <2>3, <2>9 DEF LimiterOK
      <3>2. CASE c > 2 * MaxRate
        <4>1. g = sent
          BY <2>2, <3>2 DEF LimiterDisposition
        <4>2. S[a] <= c
          BY <1>0, <2>4, <2>6, <3>1, <3>2
        <4>3. ~(l.age > Window)
          BY <1>0, <2>2, <2>3
        <4> HIDE DEF a, one, S, U
        <4>4. LimiterOK(l, sent)
          BY <2>2, <2>5, <3>1, <4>2, <4>3 DEF LimiterOK, S
        <4> QED
          BY <2>5, <4>1, <4>4
      <3>3. CASE ~(c > 2 * MaxRate)
        <4>1. g = one
          BY <2>2, <3>3 DEF LimiterDisposition
        <4>2. c = limiter.count + 1
          BY <1>0, <1>3, <2>4, <3>3
        <4>3. U[a] <= c /\ U[a] <= 2 * MaxRate /\ one[a] >= 1
          <5> HIDE DEF one, S, U, a
          <5> QED
            BY <1>0, <1>3, <2>4, <2>6, <2>7, <3>1, <3>3, <4>2
        <4>4. U[Window] < U[a] + 2 * MaxRate
          BY <1>0, <2>6, <3>1
        <4>5. ~(l.age > Window)
          BY <1>0, <2>2, <2>3
        <4> HIDE DEF a, one, S, U
        <4>6. LimiterOK(l, one)
          BY <2>2, <2>5, <4>3, <4>4, <4>5 DEF LimiterOK, U
        <4> QED
          BY <1>1, <2>5, <4>1, <4>6
      <3> QED
        BY <3>2, <3>3
    <2> QED
      BY <2>8, <2>9
  <1> QED
    BY <1>5, <1>6

\* So does time.
LEMMA TickKeepsLimiter ==
    ASSUME limiter \in LimiterType, sent \in [0..Window -> Nat], LimiterOK(limiter, sent),
           NEW l, l = IF limiter.count = 0 THEN limiter
                      ELSE [limiter EXCEPT !.age = Least(@ + 1, Window + 1)],
           NEW g, g = Shift(sent)
    PROVE  l \in LimiterType /\ g \in [0..Window -> Nat] /\ LimiterOK(l, g)
  <1> DEFINE S == Total(sent)
             U == Total(g)
             a == limiter.age
  <1>0. MaxRate \in Nat \ {0} /\ Window \in Nat
    BY InterceptorsAssumption
  <1>1. /\ g \in [0..Window -> Nat] /\ g[0] = 0 /\ \A k \in 1..Window : g[k] = sent[k - 1]
        /\ U[0] = 0 /\ \A k \in 1..Window : U[k] = S[k - 1]
    BY <1>0, TotalOfShift
  <1>2. /\ S[0] = sent[0] /\ \A k \in 0..Window : S[k] \in Nat
        /\ \A k \in 1..Window : S[k] = sent[k] + S[k - 1]
    BY <1>0, TotalUnfold
  <1>3. limiter.count \in 0..(2 * MaxRate + 1) /\ a \in 0..(Window + 1)
    BY DEF LimiterType
  <1>4. U[Window] <= S[Window] /\ U[Window] \in Nat
    <2>1. CASE Window = 0
      BY <1>0, <1>1, <1>2, <2>1
    <2>2. CASE Window # 0
      <3>1. Window \in 1..Window /\ Window - 1 \in 0..Window
        BY <1>0, <2>2
      <3>2. U[Window] = S[Window - 1] /\ S[Window] = sent[Window] + S[Window - 1]
        BY <1>1, <1>2, <3>1
      <3>3. sent[Window] \in Nat /\ S[Window - 1] \in Nat
        BY <1>2, <3>1
      <3> HIDE DEF S, U
      <3> QED
        BY <3>2, <3>3
    <2> QED
      BY <2>1, <2>2
  <1>5. S[Window] \in Nat
    BY <1>0, <1>2
  <1>6. CASE limiter.count = 0
    <2>1. l = limiter /\ S[Window] = 0 /\ a = 0
      BY <1>6 DEF LimiterOK
    <2>2. U[Window] = 0
      BY <1>4, <1>5, <2>1
    <2>3. ~(limiter.age > Window)
      BY <1>0, <2>1
    <2> HIDE DEF S, U
    <2>4. LimiterOK(l, g)
      BY <1>6, <2>1, <2>2, <2>3 DEF LimiterOK, U
    <2> QED
      BY <1>1, <2>1, <2>4
  <1>7. CASE limiter.count # 0
    <2> DEFINE b == Least(a + 1, Window + 1)
    <2>1. l = [limiter EXCEPT !.age = b]
      BY <1>7
    <2>2. l.count = limiter.count /\ l.age = b /\ l \in [count : {limiter.count}, age : {b}]
      BY <2>1 DEF LimiterType
    <2>3. /\ b \in 0..(Window + 1)
          /\ a <= Window => b = a + 1
          /\ a > Window => b = Window + 1
      <3> HIDE DEF a
      <3> QED
        BY <1>0, <1>3 DEF Least
    <2> HIDE DEF b
    <2>4. l \in LimiterType
      BY <1>3, <2>2, <2>3 DEF LimiterType
    <2>5. CASE a > Window
      <3>1. S[Window] < 2 * MaxRate /\ b > Window
        BY <1>0, <2>3, <2>5 DEF LimiterOK
      <3>2. U[Window] < 2 * MaxRate
        BY <1>0, <1>4, <1>5, <3>1
      <3>3. ~(b <= Window)
        BY <1>0, <2>3, <3>1
      <3> HIDE DEF a, S, U
      <3>4. LimiterOK(l, g)
        BY <1>1, <1>7, <2>2, <3>1, <3>2, <3>3 DEF LimiterOK, U
      <3> QED
        BY <1>1, <2>4, <3>4
    <2>6. CASE a = Window
      <3>1. S[Window] <= 2 * MaxRate /\ sent[Window] >= 1
        BY <1>0, <1>7, <2>6 DEF LimiterOK
      <3>2. U[Window] < 2 * MaxRate
        <4>1. CASE Window = 0
          BY <1>0, <1>1, <4>1
        <4>2. CASE Window # 0
          <5>1. Window \in 1..Window /\ Window - 1 \in 0..Window
            BY <1>0, <4>2
          <5>2. U[Window] = S[Window - 1] /\ S[Window] = sent[Window] + S[Window - 1]
            BY <1>1, <1>2, <5>1
          <5>3. sent[Window] \in Nat /\ S[Window - 1] \in Nat
            BY <1>2, <5>1
          <5> HIDE DEF S, U
          <5> QED
            BY <1>0, <3>1, <5>2, <5>3
        <4> QED
          BY <4>1, <4>2
      <3>3. b > Window /\ ~(b <= Window)
        BY <1>0, <2>3, <2>6
      <3> HIDE DEF a, S, U
      <3>4. LimiterOK(l, g)
        BY <1>1, <1>7, <2>2, <3>2, <3>3 DEF LimiterOK, U
      <3> QED
        BY <1>1, <2>4, <3>4
    <2>7. CASE a < Window
      <3>1. /\ S[a] <= limiter.count /\ S[a] <= 2 * MaxRate /\ sent[a] >= 1
            /\ S[Window] < S[a] + 2 * MaxRate
        BY <1>0, <1>3, <1>7, <2>7 DEF LimiterOK
      <3>2. b = a + 1 /\ b \in 1..Window /\ b - 1 = a /\ ~(b > Window)
        BY <1>0, <1>3, <2>3, <2>7
      <3>3. U[b] = S[a] /\ g[b] = sent[a]
        BY <1>1, <3>2
      <3>4. S[a] \in Nat
        BY <1>0, <1>2, <1>3, <2>7
      <3> HIDE DEF a, S, U
      <3>5. U[Window] < U[b] + 2 * MaxRate
        BY <1>0, <1>4, <1>5, <3>1, <3>3, <3>4
      <3>6. U[b] <= l.count /\ U[b] <= 2 * MaxRate /\ g[b] >= 1
        BY <2>2, <3>1, <3>3
      <3>7. LimiterOK(l, g)
        BY <1>7, <2>2, <3>2, <3>5, <3>6 DEF LimiterOK, U
      <3> QED
        BY <1>1, <2>4, <3>7
    <2> QED
      BY <1>0, <1>3, <2>5, <2>6, <2>7
  <1> QED
    BY <1>6, <1>7

\* What the invariant of the limiter means for any stretch of Window ticks.
LEMMA LimiterBounds ==
    ASSUME limiter \in LimiterType, sent \in [0..Window -> Nat], LimiterOK(limiter, sent)
    PROVE  SentIsBounded
  <1> DEFINE S == Total(sent)
             a == limiter.age
  <1>0. MaxRate \in Nat \ {0} /\ Window \in Nat
    BY InterceptorsAssumption
  <1>1. a \in 0..(Window + 1) /\ \A k \in 0..Window : S[k] \in Nat
    BY <1>0, TotalUnfold DEF LimiterType
  <1>2. S[Window] \in Nat
    BY <1>0, <1>1
  <1>3. S[Window] < 4 * MaxRate
    <2>1. CASE limiter.count = 0
      BY <1>0, <2>1 DEF LimiterOK
    <2>2. CASE limiter.count # 0 /\ a <= Window
      <3>1. S[a] <= 2 * MaxRate /\ S[Window] < S[a] + 2 * MaxRate
        BY <2>2 DEF LimiterOK
      <3>2. S[a] \in Nat
        BY <1>0, <1>1, <2>2
      <3> HIDE DEF S
      <3> QED
        BY <1>0, <1>2, <3>1, <3>2
    <2>3. CASE a > Window
      <3>1. S[Window] < 2 * MaxRate
        BY <2>3 DEF LimiterOK
      <3> HIDE DEF S
      <3> QED
        BY <1>0, <1>2, <3>1
    <2> QED
      BY <1>0, <1>1, <2>1, <2>2, <2>3
  <1> QED
    BY <1>3 DEF SentIsBounded

\* RateLimitWireInterceptor::on_receive keeps the bound.
LEMMA ReceiveKeepsWire ==
    ASSUME wire \in WireType, received \in [0..(WireWindow - 1) -> Nat], WireOK(wire, received),
           NEW w, w = CountEnvelope,
           NEW g, g = IF w.count > MaxPerWindow THEN received ELSE [received EXCEPT ![0] = @ + 1]
    PROVE  w \in WireType /\ g \in [0..(WireWindow - 1) -> Nat] /\ WireOK(w, g)
  <1> DEFINE one == [received EXCEPT ![0] = @ + 1]
             last == WireWindow - 1
             S == Total(received)
             U == Total(one)
  <1>0. MaxPerWindow \in Nat /\ WireWindow \in Nat \ {0} /\ last \in Nat /\ last = WireWindow - 1
    BY InterceptorsAssumption
  <1> HIDE DEF last
  <1>1. /\ one \in [0..last -> Nat] /\ one[0] = received[0] + 1 /\ \A k \in 1..last : one[k] = received[k]
        /\ \A k \in 0..last : U[k] = S[k] + 1
    <2>1. one \in [0..last -> Nat] /\ one[0] = received[0] + 1 /\ \A k \in 1..last : one[k] = received[k]
      BY <1>0
    <2> HIDE DEF one
    <2> QED
      BY <1>0, <2>1, TotalOfOneMore
  <1>2. S[0] = received[0] /\ \A k \in 0..last : S[k] \in Nat
    BY <1>0, TotalUnfold
  <1>3. wire.count \in 0..(MaxPerWindow + 1) /\ wire.age \in 0..WireWindow
    BY DEF WireType
  <1>4. \A k \in 0..last : S[k] <= S[last]
    BY <1>0, TotalGrows
  <1> DEFINE old == IF wire.age >= WireWindow THEN [count |-> 0, age |-> 0] ELSE wire
             c == Least(old.count + 1, MaxPerWindow + 1)
             a == old.age
  <1>5. /\ old.count \in 0..(MaxPerWindow + 1) /\ a \in 0..last
        /\ old = [count |-> old.count, age |-> a]
        /\ S[a] <= old.count /\ S[a] <= MaxPerWindow /\ S[last] <= S[a] + MaxPerWindow
    <2>1. CASE wire.age >= WireWindow
      <3>1. old.count = 0 /\ a = 0 /\ old = [count |-> 0, age |-> 0]
        BY <2>1
      <3>2. received[0] = 0 /\ S[last] <= MaxPerWindow
        BY <1>0, <2>1 DEF WireOK
      <3>3. S[0] = 0 /\ S[last] \in Nat
        BY <1>0, <1>2, <3>2
      <3> HIDE DEF old, a, S
      <3> QED
        BY <1>0, <3>1, <3>2, <3>3
    <2>2. CASE ~(wire.age >= WireWindow)
      <3>1. old = wire /\ wire.age < WireWindow
        BY <1>0, <1>3, <2>2
      <3>2. wire = [count |-> wire.count, age |-> wire.age]
        BY DEF WireType
      <3>3. /\ S[wire.age] <= wire.count /\ S[wire.age] <= MaxPerWindow
            /\ S[last] <= S[wire.age] + MaxPerWindow
        BY <1>0, <3>1 DEF WireOK
      <3> HIDE DEF old, S
      <3> QED
        BY <1>0, <1>3, <3>1, <3>2, <3>3
    <2> QED
      BY <2>1, <2>2
  <1>6. w = [old EXCEPT !.count = c]
    BY DEF CountEnvelope
  <1> HIDE DEF old
  <1>7. w = [count |-> c, age |-> a] /\ w.count = c /\ w.age = a
    <2> DEFINE n == old.count
               b == old.age
    <2>1. old = [count |-> n, age |-> b]
      BY <1>5
    <2>2. w = [old EXCEPT !.count = c]
      BY <1>6
    <2> HIDE DEF n, b, c
    <2>3. w = [count |-> c, age |-> b]
      BY <2>1, <2>2
    <2> QED
      BY <2>3 DEF b
  <1> HIDE DEF a
  <1>8. /\ c \in 0..(MaxPerWindow + 1)
        /\ c <= MaxPerWindow => c = old.count + 1
        /\ c > MaxPerWindow => c = MaxPerWindow + 1
    BY <1>0, <1>5 DEF Least
  <1> HIDE DEF c
  <1>9. w \in WireType
    <2>1. a \in 0..WireWindow
      BY <1>0, <1>5
    <2> QED
      BY <1>7, <1>8, <2>1 DEF WireType
  <1>10. S[a] \in Nat /\ S[last] \in Nat /\ U[a] = S[a] + 1 /\ U[last] = S[last] + 1
    <2> HIDE DEF one, S, U
    <2> QED
      BY <1>0, <1>1, <1>2, <1>5
  <1>11. a < WireWindow /\ ~(a >= WireWindow)
    BY <1>0, <1>5
  <1>12. CASE c > MaxPerWindow
    <2>1. g = received
      BY <1>7, <1>12
    <2>2. S[a] <= c
      <3> HIDE DEF S
      <3> QED
        BY <1>0, <1>5, <1>8, <1>10, <1>12
    <2> HIDE DEF S, U, one
    <2>3. WireOK(w, received)
      BY <1>0, <1>5, <1>7, <1>11, <2>2 DEF WireOK, S
    <2> QED
      BY <1>0, <1>9, <2>1, <2>3
  <1>13. CASE ~(c > MaxPerWindow)
    <2>1. g = one
      BY <1>7, <1>13
    <2>2. U[a] <= c /\ U[a] <= MaxPerWindow /\ U[last] <= U[a] + MaxPerWindow
      <3> HIDE DEF S, U, one
      <3>1. c = old.count + 1 /\ c <= MaxPerWindow
        BY <1>0, <1>8, <1>13
      <3> QED
        BY <1>0, <1>5, <1>10, <3>1
    <2> HIDE DEF S, U, one
    <2>3. WireOK(w, one)
      BY <1>0, <1>7, <1>11, <2>2 DEF WireOK, U
    <2> QED
      BY <1>0, <1>1, <1>9, <2>1, <2>3
  <1> QED
    BY <1>12, <1>13

LEMMA TickKeepsWire ==
    ASSUME wire \in WireType, received \in [0..(WireWindow - 1) -> Nat], WireOK(wire, received),
           NEW w, w = [wire EXCEPT !.age = Least(@ + 1, WireWindow)],
           NEW g, g = Shift(received)
    PROVE  w \in WireType /\ g \in [0..(WireWindow - 1) -> Nat] /\ WireOK(w, g)
  <1> DEFINE S == Total(received)
             U == Total(g)
             a == wire.age
             b == Least(a + 1, WireWindow)
             last == WireWindow - 1
  <1>0. MaxPerWindow \in Nat /\ WireWindow \in Nat \ {0} /\ last \in Nat /\ last = WireWindow - 1
    BY InterceptorsAssumption
  <1> HIDE DEF last
  <1>1. /\ g \in [0..last -> Nat] /\ g[0] = 0 /\ \A k \in 1..last : g[k] = received[k - 1]
        /\ U[0] = 0 /\ \A k \in 1..last : U[k] = S[k - 1]
    BY <1>0, TotalOfShift
  <1>2. /\ \A k \in 0..last : S[k] \in Nat
        /\ \A k \in 1..last : S[k] = received[k] + S[k - 1]
    BY <1>0, TotalUnfold
  <1>3. wire.count \in 0..(MaxPerWindow + 1) /\ a \in 0..WireWindow
    BY DEF WireType
  <1>4. U[last] <= S[last] /\ U[last] \in Nat /\ S[last] \in Nat
    <2>1. CASE last = 0
      BY <1>0, <1>1, <1>2, <2>1
    <2>2. CASE last # 0
      <3>1. last \in 1..last /\ last - 1 \in 0..last
        BY <1>0, <2>2
      <3>2. U[last] = S[last - 1] /\ S[last] = received[last] + S[last - 1]
        BY <1>1, <1>2, <3>1
      <3>3. received[last] \in Nat /\ S[last - 1] \in Nat
        BY <1>0, <1>2, <3>1
      <3> HIDE DEF S, U
      <3> QED
        BY <3>2, <3>3
    <2> QED
      BY <2>1, <2>2
  <1>5. w.count = wire.count /\ w.age = b /\ w \in [count : {wire.count}, age : {b}]
    BY DEF WireType
  <1>6. /\ b \in 0..WireWindow
        /\ a < WireWindow => b = a + 1
        /\ a >= WireWindow => b = WireWindow
    <2> HIDE DEF a
    <2> QED
      BY <1>0, <1>3 DEF Least
  <1> HIDE DEF b
  <1>7. w \in WireType
    BY <1>3, <1>5, <1>6 DEF WireType
  <1>8. CASE a >= WireWindow
    <2>1. S[last] <= MaxPerWindow /\ b = WireWindow
      BY <1>0, <1>6, <1>8 DEF WireOK
    <2> HIDE DEF a, S, U
    <2>2. U[last] <= MaxPerWindow /\ ~(b < WireWindow)
      BY <1>0, <1>4, <2>1
    <2>3. WireOK(w, g)
      BY <1>0, <1>1, <1>5, <2>2 DEF WireOK, U
    <2> QED
      BY <1>0, <1>1, <1>7, <2>3
  <1>9. CASE a = last
    <2>1. S[last] <= MaxPerWindow /\ b = WireWindow
      BY <1>0, <1>6, <1>9 DEF WireOK
    <2> HIDE DEF a, S, U
    <2>2. U[last] <= MaxPerWindow /\ ~(b < WireWindow)
      BY <1>0, <1>4, <2>1
    <2>3. WireOK(w, g)
      BY <1>0, <1>1, <1>5, <2>2 DEF WireOK, U
    <2> QED
      BY <1>0, <1>1, <1>7, <2>3
  <1>10. CASE a < last
    <2>1. S[a] <= wire.count /\ S[a] <= MaxPerWindow /\ S[last] <= S[a] + MaxPerWindow
      BY <1>0, <1>3, <1>10 DEF WireOK
    <2>2. b = a + 1 /\ b \in 1..last /\ b - 1 = a /\ ~(b >= WireWindow)
      BY <1>0, <1>3, <1>6, <1>10
    <2>3. U[b] = S[a] /\ S[a] \in Nat
      BY <1>0, <1>1, <1>2, <1>3, <1>10, <2>2
    <2> HIDE DEF a, S, U
    <2>4. U[last] <= U[b] + MaxPerWindow
      BY <1>0, <1>4, <2>1, <2>3
    <2>5. U[b] <= w.count /\ U[b] <= MaxPerWindow
      BY <1>5, <2>1, <2>3
    <2>6. WireOK(w, g)
      BY <1>0, <1>5, <2>2, <2>4, <2>5 DEF WireOK, U
    <2> QED
      BY <1>0, <1>1, <1>7, <2>6
  <1> QED
    BY <1>0, <1>3, <1>8, <1>9, <1>10

LEMMA WireBounds ==
    ASSUME wire \in WireType, received \in [0..(WireWindow - 1) -> Nat], WireOK(wire, received)
    PROVE  ReceivedIsBounded
  <1> DEFINE S == Total(received)
             a == wire.age
             last == WireWindow - 1
  <1>0. MaxPerWindow \in Nat /\ WireWindow \in Nat \ {0} /\ last \in Nat /\ last = WireWindow - 1
    BY InterceptorsAssumption
  <1> HIDE DEF last
  <1>1. a \in 0..WireWindow /\ \A k \in 0..last : S[k] \in Nat
    BY <1>0, TotalUnfold DEF WireType
  <1>2. S[last] \in Nat
    BY <1>0, <1>1
  <1>3. S[last] <= 2 * MaxPerWindow
    <2>1. CASE a < WireWindow
      <3>1. S[a] <= MaxPerWindow /\ S[last] <= S[a] + MaxPerWindow
        BY <1>0, <2>1 DEF WireOK
      <3>2. S[a] \in Nat
        BY <1>0, <1>1, <2>1
      <3> HIDE DEF S
      <3> QED
        BY <1>0, <1>2, <3>1, <3>2
    <2>2. CASE a >= WireWindow
      <3>1. S[last] <= MaxPerWindow
        BY <1>0, <2>2 DEF WireOK
      <3> HIDE DEF S
      <3> QED
        BY <1>0, <1>2, <3>1
    <2> QED
      BY <1>0, <1>1, <2>1, <2>2
  <1> QED
    BY <1>0, <1>3 DEF ReceivedIsBounded

-----------------------------------------------------------------------------
(***************************************************************************)
(* The circuit breaker.                                                    *)
(***************************************************************************)

Ages == 0..(ErrorWindow + 1)
CbType == [state : CircuitState, errors : Seq(Ages), opened : 0..Cooldown, probe : BOOLEAN]

Recent(errors) == {i \in DOMAIN errors : errors[i] <= ErrorWindow}
Healthy(c) == c.state = "Closed" => Cardinality(Recent(c.errors)) < ErrorThreshold

LEMMA AddErrorType ==
    ASSUME NEW errors \in Seq(Ages)
    PROVE  AddError(errors) \in Seq(Ages)
  <1> DEFINE kept == Retain(errors, Recent(errors))
  <1>1. kept \in Seq(Ages)
    BY RetainPicks
  <1>2. 0 \in Ages
    BY InterceptorsAssumption DEF Ages
  <1>3. AddError(errors) = Append(kept, 0)
    BY DEF AddError, Recent
  <1> HIDE DEF kept
  <1>4. Append(kept, 0) \in Seq(Ages)
    BY <1>1, <1>2, AppendProperties
  <1> QED
    BY <1>3, <1>4

LEMMA RecentCount ==
    ASSUME NEW errors \in Seq(Ages)
    PROVE  /\ IsFiniteSet(Recent(errors)) /\ Cardinality(Recent(errors)) \in Nat
           /\ Cardinality(Recent(errors)) <= Len(errors)
  <1> DEFINE n == Len(errors)
  <1>1. n \in Nat /\ 1 \in Int /\ n \in Int /\ DOMAIN errors = 1..n
    BY LenProperties
  <1> HIDE DEF n
  <1>2. IsFiniteSet(1..n) /\ Cardinality(1..n) = IF 1 > n THEN 0 ELSE n - 1 + 1
    BY <1>1, FS_Interval
  <1>3. Cardinality(1..n) = n
    BY <1>1, <1>2
  <1>4. Recent(errors) \subseteq 1..n
    BY <1>1 DEF Recent
  <1>5. IsFiniteSet(Recent(errors)) /\ Cardinality(Recent(errors)) <= Cardinality(1..n)
    BY <1>2, <1>4, FS_Subset
  <1>6. Cardinality(Recent(errors)) \in Nat
    BY <1>5, FS_CardinalityType
  <1> QED
    BY <1>3, <1>5, <1>6 DEF n

LEMMA SuccessKeeps ==
    ASSUME NEW c \in CbType, Healthy(c)
    PROVE  OnSuccess(c) \in CbType /\ Healthy(OnSuccess(c)) /\ OnSuccess(c).state # "HalfOpen"
  <1>0. ErrorThreshold \in Nat \ {0} /\ Cooldown \in Nat
    BY InterceptorsAssumption
  <1>1. CASE c.state = "HalfOpen"
    <2> DEFINE d == [state |-> "Closed", errors |-> <<>>, opened |-> 0, probe |-> FALSE]
    <2>1. OnSuccess(c) = d
      BY <1>1 DEF OnSuccess
    <2>2. <<>> \in Seq(Ages) /\ Len(<<>>) = 0
      BY EmptySeq
    <2>3. d \in CbType
      BY <1>0, <2>2 DEF CbType, CircuitState
    <2>4. d.errors = <<>> /\ d.state = "Closed"
      OBVIOUS
    <2>5. Cardinality(Recent(<<>>)) < ErrorThreshold
      <3>1. Cardinality(Recent(<<>>)) \in Nat /\ Cardinality(Recent(<<>>)) <= 0
        BY <2>2, RecentCount
      <3> QED
        BY <1>0, <3>1
    <2> HIDE DEF d
    <2> QED
      BY <2>1, <2>3, <2>4, <2>5 DEF Healthy
  <1>2. CASE c.state # "HalfOpen"
    BY <1>2 DEF OnSuccess
  <1> QED
    BY <1>1, <1>2

LEMMA FailureKeeps ==
    ASSUME NEW c \in CbType, Healthy(c)
    PROVE  OnFailure(c) \in CbType /\ Healthy(OnFailure(c)) /\ OnFailure(c).state # "HalfOpen"
  <1> DEFINE errors == AddError(c.errors)
             trips  == \/ c.state = "Closed" /\ Len(errors) >= ErrorThreshold
                       \/ c.state = "HalfOpen"
             opens  == [state |-> "Open", errors |-> errors, opened |-> 0, probe |-> FALSE]
             stays  == [c EXCEPT !.errors = errors]
  <1>0. ErrorThreshold \in Nat \ {0} /\ Cooldown \in Nat
    BY InterceptorsAssumption
  <1>1. c.errors \in Seq(Ages) /\ errors \in Seq(Ages)
    BY AddErrorType DEF CbType
  <1>2. OnFailure(c) = IF trips THEN opens ELSE stays
    BY DEF OnFailure
  <1> HIDE DEF errors
  <1>3. opens \in CbType /\ opens.state = "Open"
    BY <1>0, <1>1 DEF CbType, CircuitState
  <1>4. stays \in CbType /\ stays.state = c.state /\ stays.errors = errors
    BY <1>1 DEF CbType
  <1>5. ASSUME ~trips PROVE Healthy(stays) /\ stays.state # "HalfOpen"
    <2>1. c.state = "Closed" => Len(errors) < ErrorThreshold
      BY <1>0, <1>1, <1>5
    <2>2. Cardinality(Recent(errors)) \in Nat /\ Cardinality(Recent(errors)) <= Len(errors)
      BY <1>1, RecentCount
    <2>3. c.state = "Closed" => Cardinality(Recent(errors)) < ErrorThreshold
      BY <1>0, <1>1, <2>1, <2>2
    <2> QED
      BY <1>4, <1>5, <2>3 DEF Healthy
  <1>6. Healthy(opens)
    BY <1>3 DEF Healthy
  <1> HIDE DEF opens, stays
  <1>7. CASE trips
    BY <1>2, <1>3, <1>6, <1>7
  <1>8. CASE ~trips
    BY <1>2, <1>4, <1>5, <1>8
  <1> QED
    BY <1>7, <1>8

\* Time makes no error recent.
LEMMA TickKeepsBreaker ==
    ASSUME NEW c \in CbType, Healthy(c),
           NEW d, d = [c EXCEPT !.errors = [i \in DOMAIN @ |-> Least(@[i] + 1, ErrorWindow + 1)],
                                !.opened = IF c.state = "Open" THEN Least(@ + 1, Cooldown) ELSE @]
    PROVE  d \in CbType /\ Healthy(d) /\ d.state = c.state /\ d.probe = c.probe
  <1> DEFINE old == c.errors
             new == [i \in DOMAIN old |-> Least(old[i] + 1, ErrorWindow + 1)]
             since == IF c.state = "Open" THEN Least(c.opened + 1, Cooldown) ELSE c.opened
  <1>0. ErrorWindow \in Nat /\ ErrorThreshold \in Nat \ {0} /\ Cooldown \in Nat
    BY InterceptorsAssumption
  <1>1. old \in Seq(Ages) /\ c.opened \in 0..Cooldown
    BY DEF CbType
  <1>2. d = [c EXCEPT !.errors = new, !.opened = since]
    OBVIOUS
  <1> HIDE DEF old
  <1>3. DOMAIN old = 1..Len(old) /\ Len(old) \in Nat /\ \A i \in DOMAIN old : old[i] \in Ages
    BY <1>1, LenProperties, ElementOfSeq
  <1>4. \A i \in DOMAIN old : /\ Least(old[i] + 1, ErrorWindow + 1) \in Ages
                              /\ Least(old[i] + 1, ErrorWindow + 1) >= old[i]
    BY <1>0, <1>3 DEF Least, Ages
  <1>5. /\ new \in Seq(Ages) /\ DOMAIN new = DOMAIN old
        /\ \A i \in DOMAIN old : new[i] \in Ages /\ new[i] >= old[i]
    <2>1. new = [i \in 1..Len(old) |-> Least(old[i] + 1, ErrorWindow + 1)]
      BY <1>3
    <2>2. \A i \in 1..Len(old) : Least(old[i] + 1, ErrorWindow + 1) \in Ages
      BY <1>3, <1>4
    <2>3. new \in Seq(Ages)
      BY <1>3, <2>1, <2>2, IsASeq
    <2> QED
      BY <1>4, <2>3
  <1> HIDE DEF new
  <1>6. since \in 0..Cooldown
    BY <1>0, <1>1 DEF Least
  <1> HIDE DEF since
  <1>7. d \in CbType /\ d.state = c.state /\ d.probe = c.probe /\ d.errors = new
    BY <1>2, <1>5, <1>6 DEF CbType
  <1>8. Recent(new) \subseteq Recent(old)
    <2> SUFFICES ASSUME NEW i \in DOMAIN old, new[i] <= ErrorWindow PROVE old[i] <= ErrorWindow
      BY <1>5 DEF Recent
    <2>1. new[i] \in Nat /\ old[i] \in Nat /\ new[i] >= old[i]
      BY <1>0, <1>3, <1>5 DEF Ages
    <2> QED
      BY <1>0, <2>1
  <1>9. /\ IsFiniteSet(Recent(old)) /\ Cardinality(Recent(old)) \in Nat
        /\ Cardinality(Recent(new)) \in Nat
    BY <1>1, <1>5, RecentCount
  <1>10. Cardinality(Recent(new)) <= Cardinality(Recent(old))
    BY <1>8, <1>9, FS_Subset
  <1>11. c.state = "Closed" => Cardinality(Recent(old)) < ErrorThreshold
    BY DEF Healthy, old
  <1>12. Healthy(d)
    BY <1>0, <1>7, <1>9, <1>10, <1>11 DEF Healthy
  <1> QED
    BY <1>7, <1>12

-----------------------------------------------------------------------------

IInv ==
    /\ TypeOK
    /\ LimiterOK(limiter, sent)
    /\ WireOK(wire, received)
    /\ Healthy(cb)
    /\ OpenSeesNoCompletion
    /\ ProbeIsAccountedFor

\* What TypeOK says, variable by variable.
LEMMA TypeParts ==
    TypeOK <=> /\ limiter \in LimiterType /\ wire \in WireType /\ mailbox \in Seq(Kinds)
               /\ hand \in {"idle", "handling"} /\ cb \in CbType /\ probeLost \in BOOLEAN
               /\ sent \in [0..Window -> Nat] /\ received \in [0..(WireWindow - 1) -> Nat]
  BY DEF TypeOK, LimiterType, WireType, CbType, Ages

LEMMA InitIInv == Init => IInv
  <1> SUFFICES ASSUME Init PROVE IInv
    OBVIOUS
  <1>0. /\ MaxRate \in Nat \ {0} /\ Window \in Nat
        /\ MaxPerWindow \in Nat /\ WireWindow \in Nat \ {0}
        /\ ErrorThreshold \in Nat \ {0} /\ Cooldown \in Nat
    BY InterceptorsAssumption
  <1>1. <<>> \in Seq(Kinds) /\ <<>> \in Seq(Ages)
    BY EmptySeq
  <1>2. TypeOK
    <2>1. limiter \in LimiterType /\ wire \in WireType
      BY <1>0 DEF Init, LimiterType, WireType
    <2>2. cb \in CbType
      BY <1>0, <1>1 DEF Init, CbType, CircuitState
    <2>3. sent \in [0..Window -> Nat] /\ received \in [0..(WireWindow - 1) -> Nat]
      BY DEF Init
    <2>4. mailbox \in Seq(Kinds) /\ hand \in {"idle", "handling"} /\ probeLost \in BOOLEAN
      BY <1>1 DEF Init
    <2> QED
      BY <2>1, <2>2, <2>3, <2>4, TypeParts
  <1>3. /\ \A m \in Nat : [k \in 0..m |-> 0] \in [0..m -> Nat]
        /\ \A m \in Nat : Total([k \in 0..m |-> 0])[m] = 0 /\ Total([k \in 0..m |-> 0])[0] = 0
    <2>1. \A m \in Nat : [k \in 0..m |-> 0] \in [0..m -> Nat]
      OBVIOUS
    <2>2. ASSUME NEW m \in Nat
          PROVE  Total([k \in 0..m |-> 0])[m] = 0 /\ Total([k \in 0..m |-> 0])[0] = 0
      <3> DEFINE h == [k \in 0..m |-> 0]
                 S == Total(h)
      <3>1. h \in [0..m -> Nat] /\ \A k \in 0..m : h[k] = 0
        OBVIOUS
      <3> HIDE DEF h
      <3>2. S[0] = h[0] /\ \A k \in 1..m : S[k] = h[k] + S[k - 1]
        BY <3>1, TotalUnfold
      <3> HIDE DEF S
      <3> DEFINE P == {k \in 0..m : S[k] = 0}
      <3>3. 0 \in P
        BY <3>1, <3>2
      <3>4. ASSUME NEW k \in 0..m, k # m, k \in P PROVE k + 1 \in P
        <4>1. k + 1 \in 1..m /\ (k + 1) - 1 = k /\ k + 1 \in 0..m
          BY <3>4
        <4>2. S[k + 1] = 0
          BY <3>1, <3>2, <3>4, <4>1
        <4> QED
          BY <4>1, <4>2
      <3>5. 0..m \subseteq P
        <4> HIDE DEF P
        <4> QED
          BY <3>3, <3>4, UpTo
      <3>6. S[m] = 0 /\ S[0] = 0
        BY <3>5
      <3> QED
        BY <3>6 DEF S, h
    <2> QED
      BY <2>1, <2>2
  <1>4. LimiterOK(limiter, sent)
    <2>1. limiter.count = 0 /\ limiter.age = 0 /\ Total(sent)[Window] = 0
      BY <1>0, <1>3 DEF Init
    <2> QED
      BY <1>0, <2>1 DEF LimiterOK
  <1>5. WireOK(wire, received)
    <2>0. WireWindow - 1 \in Nat
      BY <1>0
    <2>1. /\ wire.count = 0 /\ wire.age = 0 /\ Total(received)[WireWindow - 1] = 0
          /\ Total(received)[0] = 0
      BY <1>3, <2>0 DEF Init
    <2> QED
      BY <1>0, <2>1 DEF WireOK
  <1>6. Healthy(cb)
    <2>1. cb.errors = <<>> /\ Len(<<>>) = 0
      BY DEF Init
    <2>2. Cardinality(Recent(<<>>)) \in Nat /\ Cardinality(Recent(<<>>)) <= Len(<<>>)
      BY <1>1, RecentCount
    <2> QED
      BY <1>0, <2>1, <2>2 DEF Healthy
  <1>7. OpenSeesNoCompletion /\ ProbeIsAccountedFor
    BY DEF Init, OpenSeesNoCompletion, ProbeIsAccountedFor
  <1> QED
    BY <1>2, <1>4, <1>5, <1>6, <1>7 DEF IInv

LEMMA TypePartsNext ==
    TypeOK' <=> /\ limiter' \in LimiterType /\ wire' \in WireType /\ mailbox' \in Seq(Kinds)
                /\ hand' \in {"idle", "handling"} /\ cb' \in CbType /\ probeLost' \in BOOLEAN
                /\ sent' \in [0..Window -> Nat] /\ received' \in [0..(WireWindow - 1) -> Nat]
  BY DEF TypeOK, LimiterType, WireType, CbType, Ages

LEMMA NextIInv == IInv /\ [Next]_vars => IInv'
  <1> SUFFICES ASSUME IInv, [Next]_vars PROVE IInv'
    OBVIOUS
  <1>0. /\ limiter \in LimiterType /\ wire \in WireType /\ mailbox \in Seq(Kinds)
        /\ hand \in {"idle", "handling"} /\ cb \in CbType /\ probeLost \in BOOLEAN
        /\ sent \in [0..Window -> Nat] /\ received \in [0..(WireWindow - 1) -> Nat]
        /\ LimiterOK(limiter, sent) /\ WireOK(wire, received) /\ Healthy(cb)
    BY TypeParts DEF IInv
  <1>1. /\ hand = "handling" => cb.state # "Open"
        /\ cb.state = "HalfOpen" => cb.probe /\ (hand = "handling" \/ probeLost)
    BY DEF IInv, OpenSeesNoCompletion, ProbeIsAccountedFor
  <1>2. ASSUME limiter' \in LimiterType, wire' \in WireType, mailbox' \in Seq(Kinds),
               hand' \in {"idle", "handling"}, cb' \in CbType, probeLost' \in BOOLEAN,
               sent' \in [0..Window -> Nat], received' \in [0..(WireWindow - 1) -> Nat],
               LimiterOK(limiter', sent'), WireOK(wire', received'), Healthy(cb'),
               hand' = "handling" => cb'.state # "Open",
               cb'.state = "HalfOpen" => cb'.probe /\ (hand' = "handling" \/ probeLost')
        PROVE  IInv'
    <2>1. TypeOK'
      BY <1>2, TypePartsNext
    <2>2. OpenSeesNoCompletion' /\ ProbeIsAccountedFor'
      BY <1>2 DEF OpenSeesNoCompletion, ProbeIsAccountedFor
    <2>3. LimiterOK(limiter, sent)'
      BY <1>2 DEF LimiterOK, Total
    <2>4. WireOK(wire, received)'
      BY <1>2 DEF WireOK, Total
    <2>5. Healthy(cb)'
      BY <1>2 DEF Healthy, Recent
    <2> QED
      BY <2>1, <2>2, <2>3, <2>4, <2>5 DEF IInv
  <1>3. ASSUME NEW kind \in Kinds, Send(kind) PROVE IInv'
    <2>1. limiter' \in LimiterType /\ sent' \in [0..Window -> Nat] /\ LimiterOK(limiter', sent')
      <3>1. /\ limiter' = CountSend
            /\ sent' = IF LimiterDisposition(limiter'.count) = "Reject" THEN sent
                       ELSE [sent EXCEPT ![0] = @ + 1]
        BY <1>3 DEF Send
      <3> QED
        BY <1>0, <3>1, SendKeepsLimiter
    <2>2. mailbox' \in Seq(Kinds)
      <3>1. mailbox' = mailbox \/ mailbox' = Append(mailbox, kind)
        BY <1>3 DEF Send
      <3> QED
        BY <1>0, <3>1, AppendProperties
    <2>3. wire' = wire /\ hand' = hand /\ cb' = cb /\ probeLost' = probeLost /\ received' = received
      BY <1>3 DEF Send
    <2> QED
      BY <1>0, <1>1, <1>2, <2>1, <2>2, <2>3
  <1>4. ASSUME NEW oversized \in BOOLEAN, ReceiveEnvelope(oversized) PROVE IInv'
    <2>1. /\ limiter' = limiter /\ hand' = hand /\ cb' = cb /\ probeLost' = probeLost /\ sent' = sent
          /\ mailbox' = mailbox \/ mailbox' = Append(mailbox, "envelope")
      BY <1>4 DEF ReceiveEnvelope
    <2>2. mailbox' \in Seq(Kinds)
      <3>1. "envelope" \in Kinds
        BY DEF Kinds
      <3> QED
        BY <1>0, <2>1, <3>1, AppendProperties
    <2>3. /\ wire' \in WireType /\ received' \in [0..(WireWindow - 1) -> Nat]
          /\ WireOK(wire', received')
      <3>1. CASE oversized
        BY <1>0, <1>4, <3>1 DEF ReceiveEnvelope
      <3>2. CASE ~oversized
        <4>1. /\ wire' = CountEnvelope
              /\ received' = IF wire'.count > MaxPerWindow THEN received
                             ELSE [received EXCEPT ![0] = @ + 1]
          BY <1>4, <3>2 DEF ReceiveEnvelope
        <4> QED
          BY <1>0, <4>1, ReceiveKeepsWire
      <3> QED
        BY <3>1, <3>2
    <2> QED
      BY <1>0, <1>1, <1>2, <2>1, <2>2, <2>3
  <1>5. CASE Receive
    <2>1. /\ limiter' = limiter /\ wire' = wire /\ sent' = sent /\ received' = received
          /\ mailbox # <<>> /\ mailbox' = Tail(mailbox) /\ cb' = OnReceive(cb) /\ hand = "idle"
          /\ hand' \in {"idle", "handling"}
      BY <1>5 DEF Receive
    <2>2. mailbox' \in Seq(Kinds)
      BY <1>0, <2>1, HeadTailProperties
    <2>3. CASE ~Admits(cb)
      <3>1. cb' = cb
        BY <2>1, <2>3 DEF OnReceive
      <3>2. hand' = hand /\ probeLost' = probeLost
        BY <1>5, <2>3 DEF Receive
      <3> QED
        BY <1>0, <1>1, <1>2, <2>1, <2>2, <3>1, <3>2
    <2>4. CASE Admits(cb) /\ cb.state = "Closed"
      <3>1. cb' = cb
        BY <2>1, <2>4 DEF OnReceive
      <3>2. probeLost' \in BOOLEAN
        BY <1>0, <1>5, <2>4 DEF Receive
      <3> QED
        BY <1>0, <1>1, <1>2, <2>1, <2>2, <2>4, <3>1, <3>2
    <2>5. CASE Admits(cb) /\ cb.state # "Closed"
      <3>1. cb' = [cb EXCEPT !.state = "HalfOpen", !.probe = TRUE]
        BY <2>1, <2>5 DEF OnReceive
      <3>2. cb' \in CbType /\ cb'.state = "HalfOpen" /\ cb'.probe = TRUE
        BY <1>0, <3>1 DEF CbType, CircuitState
      <3>3. probeLost' \in BOOLEAN /\ (hand' = "handling" \/ probeLost')
        BY <1>0, <1>5, <2>1, <2>5, <3>2 DEF Receive
      <3>4. Healthy(cb')
        BY <3>2 DEF Healthy
      <3> QED
        BY <1>0, <1>2, <2>1, <2>2, <3>2, <3>3, <3>4
    <2> QED
      BY <2>3, <2>4, <2>5
  <1>6. CASE Complete
    <2>1. /\ limiter' = limiter /\ wire' = wire /\ sent' = sent /\ received' = received
          /\ mailbox' = mailbox /\ hand' = "idle" /\ probeLost' = probeLost
          /\ cb' = OnSuccess(cb) \/ cb' = OnFailure(cb)
      BY <1>6 DEF Complete
    <2>2. cb' \in CbType /\ Healthy(cb') /\ cb'.state # "HalfOpen"
      BY <1>0, <2>1, SuccessKeeps, FailureKeeps
    <2> QED
      BY <1>0, <1>2, <2>1, <2>2
  <1>7. CASE Abort
    <2>1. /\ limiter' = limiter /\ wire' = wire /\ sent' = sent /\ received' = received
          /\ mailbox' = mailbox /\ hand' = "idle" /\ cb' = cb
          /\ probeLost' = (probeLost \/ cb.state = "HalfOpen")
      BY <1>7 DEF Abort
    <2> QED
      BY <1>0, <1>1, <1>2, <2>1
  <1>8. CASE Tick
    <2>1. limiter' \in LimiterType /\ sent' \in [0..Window -> Nat] /\ LimiterOK(limiter', sent')
      <3>1. /\ limiter' = IF limiter.count = 0 THEN limiter
                          ELSE [limiter EXCEPT !.age = Least(@ + 1, Window + 1)]
            /\ sent' = Shift(sent)
        BY <1>8 DEF Tick
      <3> QED
        BY <1>0, <3>1, TickKeepsLimiter
    <2>2. /\ wire' \in WireType /\ received' \in [0..(WireWindow - 1) -> Nat]
          /\ WireOK(wire', received')
      <3>1. wire' = [wire EXCEPT !.age = Least(@ + 1, WireWindow)] /\ received' = Shift(received)
        BY <1>8 DEF Tick
      <3> QED
        BY <1>0, <3>1, TickKeepsWire
    <2>3. cb' \in CbType /\ Healthy(cb') /\ cb'.state = cb.state /\ cb'.probe = cb.probe
      <3>1. cb' = [cb EXCEPT !.errors = [i \in DOMAIN @ |-> Least(@[i] + 1, ErrorWindow + 1)],
                             !.opened = IF cb.state = "Open" THEN Least(@ + 1, Cooldown) ELSE @]
        BY <1>8 DEF Tick
      <3> QED
        BY <1>0, <3>1, TickKeepsBreaker
    <2>4. mailbox' = mailbox /\ hand' = hand /\ probeLost' = probeLost
      BY <1>8 DEF Tick
    <2> QED
      BY <1>0, <1>1, <1>2, <2>1, <2>2, <2>3, <2>4
  <1>9. CASE UNCHANGED vars
    <2>1. /\ limiter' = limiter /\ wire' = wire /\ sent' = sent /\ received' = received
          /\ mailbox' = mailbox /\ hand' = hand /\ cb' = cb /\ probeLost' = probeLost
      BY <1>9 DEF vars
    <2> QED
      BY <1>0, <1>1, <1>2, <2>1
  <1> QED
    BY <1>3, <1>4, <1>5, <1>6, <1>7, <1>8, <1>9 DEF Next

LEMMA InvariantHolds == Spec => []IInv
  <1> QED
    BY InitIInv, NextIInv, PTL DEF Spec

\* Whatever the rate and the window of the limiters, the messages that
\* ActorRateLimiter::on_send and RateLimitWireInterceptor::on_receive let pass over any
\* stretch of time as long as a window stay under two windows' worth, wherever the
\* stretch lies across their tumbling windows.
THEOREM RateStaysBounded == Spec => []RateIsBounded
  <1>1. IInv => RateIsBounded
    <2> SUFFICES ASSUME IInv PROVE RateIsBounded
      OBVIOUS
    <2>1. /\ limiter \in LimiterType /\ wire \in WireType
          /\ sent \in [0..Window -> Nat] /\ received \in [0..(WireWindow - 1) -> Nat]
          /\ LimiterOK(limiter, sent) /\ WireOK(wire, received)
      BY TypeParts DEF IInv
    <2> QED
      BY <2>1, LimiterBounds, WireBounds DEF RateIsBounded
  <1> QED
    BY <1>1, InvariantHolds, PTL

\* Whatever the threshold, the windows and the cooldown, the circuit breaker is
\* type-correct, a closed circuit has seen fewer recent errors than the threshold,
\* no handler completes into an open circuit, and the probe of a half-open one is
\* in the handler's hands unless it was taken away.
THEOREM BreakerStaysConsistent == Spec => []BreakerIsConsistent
  <1>1. IInv => BreakerIsConsistent
    <2> SUFFICES ASSUME IInv PROVE BreakerIsConsistent
      OBVIOUS
    <2>1. ClosedIsHealthy
      BY DEF IInv, Healthy, Recent, ClosedIsHealthy
    <2> QED
      BY <2>1 DEF IInv, BreakerIsConsistent
  <1> QED
    BY <1>1, InvariantHolds, PTL
=============================================================================
