---------------------------- MODULE QueueProofs ----------------------------
(***************************************************************************)
(* What the operators of Queues return, for all arguments.                 *)
(*                                                                         *)
(* The induction principles of the library take an operator as a           *)
(* parameter; the ones used here are about sets of numbers and of finite   *)
(* sets instead, and follow from the well-foundedness of strict inclusion. *)
(***************************************************************************)
EXTENDS Queues, SequenceTheorems, FiniteSetTheorems, WellFoundedInduction, TLAPS

-----------------------------------------------------------------------------
(* Induction and recursion.                                                *)

\* A set of numbers with 0 that is closed under successor has them all.
LEMMA SetInduction ==
    ASSUME NEW T \in SUBSET Nat, 0 \in T, \A n \in T : n + 1 \in T
    PROVE  T = Nat
<1> SUFFICES ASSUME NEW k \in Nat, k \notin T PROVE FALSE
  OBVIOUS
<1> DEFINE U == {0 .. n : n \in Nat \ T}
<1>1. U \subseteq FiniteSubsetsOf(Nat)
  <2> SUFFICES ASSUME NEW n \in Nat PROVE IsFiniteSet(0 .. n)
    BY DEF FiniteSubsetsOf
  <2> QED BY FS_Interval
<1>2. U # {}
  OBVIOUS
<1> HIDE DEF U
<1>3. PICK x \in U : \A y \in U : ~ (<<y, x>> \in StrictSubsetOrdering(Nat))
  BY <1>1, <1>2, FS_StrictSubsetOrderingWellFounded, WFMin
<1>4. PICK m \in Nat \ T : x = 0 .. m
  BY DEF U
<1>5. m # 0 /\ m - 1 \in Nat
  OBVIOUS
<1>6. m - 1 \in Nat \ T
  <2>1. m - 1 \in T => (m - 1) + 1 \in T
    OBVIOUS
  <2> QED BY <2>1, <1>5, <1>4
<1>7. 0 .. (m - 1) \in U
  BY <1>6 DEF U
<1>8. 0 .. (m - 1) \subseteq 0 .. m /\ m \in 0 .. m /\ m \notin 0 .. (m - 1)
  BY <1>5
<1>9. <<0 .. (m - 1), 0 .. m>> \in StrictSubsetOrdering(Nat)
  BY <1>8 DEF StrictSubsetOrdering
<1> QED BY <1>3, <1>4, <1>7, <1>9

Recursion(f, X, N, base, step) ==
    f \in [0 .. N -> X] /\ f[0] = base /\ \A n \in 1 .. N : f[n] = step[n][f[n - 1]]

\* A sequence of values, each made from the one before it, exists.
LEMMA PrimitiveRecursion ==
    ASSUME NEW X, NEW N \in Nat, NEW base \in X, NEW step \in [1 .. N -> [X -> X]]
    PROVE  \E f : Recursion(f, X, N, base, step)
<1> DEFINE Upto(m, f) == f[0] = base /\ \A n \in 1 .. m : f[n] = step[n][f[n - 1]]
           T == {m \in Nat : m <= N => \E f \in [0 .. m -> X] : Upto(m, f)}
<1>1. 0 \in T
  <2>1. [n \in 0 .. 0 |-> base] \in [0 .. 0 -> X] /\ Upto(0, [n \in 0 .. 0 |-> base])
    OBVIOUS
  <2> QED BY <2>1
<1>2. ASSUME NEW m \in T PROVE m + 1 \in T
  <2> SUFFICES ASSUME m + 1 <= N PROVE \E f \in [0 .. m + 1 -> X] : Upto(m + 1, f)
    OBVIOUS
  <2>1. PICK f \in [0 .. m -> X] : Upto(m, f)
    OBVIOUS
  <2> DEFINE g == [n \in 0 .. m + 1 |-> IF n = m + 1 THEN step[m + 1][f[m]] ELSE f[n]]
  <2>2. g \in [0 .. m + 1 -> X]
    OBVIOUS
  <2>3. Upto(m + 1, g)
    <3>1. g[0] = base
      BY <2>1
    <3>2. ASSUME NEW n \in 1 .. m + 1 PROVE g[n] = step[n][g[n - 1]]
      BY <2>1
    <3> QED BY <3>1, <3>2
  <2> QED BY <2>2, <2>3
<1> HIDE DEF T
<1>3. T = Nat
  <2>1. T \in SUBSET Nat
    BY DEF T
  <2> QED BY <2>1, <1>1, <1>2, SetInduction
<1> QED BY <1>3 DEF T, Recursion

-----------------------------------------------------------------------------
(* Keep.                                                                   *)

KeepFun(s, S, f) ==
    f = [n \in 0 .. Len(s) |-> IF n = 0 THEN <<>>
                               ELSE IF s[n] \in S THEN Append(f[n - 1], s[n]) ELSE f[n - 1]]

KeptPrefixes(f, A, s, S) ==
    /\ f \in [0 .. Len(s) -> Seq(A)]
    /\ Keep(s, S) = f[Len(s)]
    /\ f[0] = <<>>
    /\ \A n \in 1 .. Len(s) :
          f[n] = IF s[n] \in S THEN Append(f[n - 1], s[n]) ELSE f[n - 1]

\* What is kept of each prefix.
LEMMA KeepPrefixes ==
    ASSUME NEW A, NEW s \in Seq(A), NEW S
    PROVE  \E f : KeptPrefixes(f, A, s, S)
<1> DEFINE step == [n \in 1 .. Len(s) |->
                      [t \in Seq(A) |-> IF s[n] \in S THEN Append(t, s[n]) ELSE t]]
<1>1. step \in [1 .. Len(s) -> [Seq(A) -> Seq(A)]]
  OBVIOUS
<1>2. Len(s) \in Nat /\ <<>> \in Seq(A)
  OBVIOUS
<1>3. PICK f \in [0 .. Len(s) -> Seq(A)] :
         f[0] = <<>> /\ \A n \in 1 .. Len(s) : f[n] = step[n][f[n - 1]]
  <2> HIDE DEF step
  <2>1. \E f : Recursion(f, Seq(A), Len(s), <<>>, step)
    BY <1>1, <1>2, PrimitiveRecursion
  <2> QED BY <2>1 DEF Recursion
<1>4. ASSUME NEW n \in 1 .. Len(s)
      PROVE  f[n] = IF s[n] \in S THEN Append(f[n - 1], s[n]) ELSE f[n - 1]
  <2>1. f[n - 1] \in Seq(A)
    BY <1>2
  <2> QED BY <1>3, <2>1
<1> HIDE DEF step
<1>5. KeepFun(s, S, f)
  <2> DEFINE g == [n \in 0 .. Len(s) |-> IF n = 0 THEN <<>>
                     ELSE IF s[n] \in S THEN Append(f[n - 1], s[n]) ELSE f[n - 1]]
  <2>1. ASSUME NEW n \in 0 .. Len(s) PROVE f[n] = g[n]
    <3>1. CASE n = 0
      BY <1>3, <3>1
    <3>2. CASE n # 0
      <4>1. n \in 1 .. Len(s)
        BY <1>2, <3>2
      <4>2. g[n] = IF s[n] \in S THEN Append(f[n - 1], s[n]) ELSE f[n - 1]
        BY <3>2
      <4> QED BY <1>4, <4>1, <4>2
    <3> QED BY <3>1, <3>2
  <2>2. f = [n \in 0 .. Len(s) |-> f[n]]
    OBVIOUS
  <2>3. f = g
    BY <2>1, <2>2
  <2> QED BY <2>3 DEF KeepFun
<1> DEFINE kept == CHOOSE g : KeepFun(s, S, g)
<1>6. KeepFun(s, S, kept)
  BY <1>5
<1>7. Keep(s, S) = kept[Len(s)]
  BY DEF Keep, KeepFun
<1> HIDE DEF kept
<1> DEFINE T == {n \in Nat : n <= Len(s) => kept[n] = f[n]}
<1>8. 0 \in T
  BY <1>2, <1>3, <1>6 DEF KeepFun
<1>9. ASSUME NEW n \in T PROVE n + 1 \in T
  <2> SUFFICES ASSUME n + 1 <= Len(s) PROVE kept[n + 1] = f[n + 1]
    OBVIOUS
  <2>1. n + 1 \in 1 .. Len(s) /\ (n + 1) - 1 = n /\ kept[n] = f[n]
    BY <1>2
  <2>2. \A m \in 1 .. Len(s) : kept[m] = IF s[m] \in S THEN Append(kept[m - 1], s[m]) ELSE kept[m - 1]
    <3> TAKE m \in 1 .. Len(s)
    <3>1. m \in 0 .. Len(s) /\ m # 0
      BY <1>2
    <3> QED BY <1>6, <3>1, Zenon DEF KeepFun
  <2>3. kept[n + 1] = IF s[n + 1] \in S THEN Append(kept[n], s[n + 1]) ELSE kept[n]
    <3>1. kept[n + 1] = IF s[n + 1] \in S THEN Append(kept[(n + 1) - 1], s[n + 1]) ELSE kept[(n + 1) - 1]
      BY <2>1, <2>2, Zenon
    <3> QED BY <2>1, <3>1, Zenon
  <2> QED BY <1>4, <2>1, <2>3
<1>10. Len(s) \in T
  <2> HIDE DEF T
  <2>1. T \in SUBSET Nat
    BY DEF T
  <2> QED BY <2>1, <1>2, <1>8, <1>9, SetInduction
<1>11. Keep(s, S) = f[Len(s)]
  BY <1>2, <1>7, <1>10
<1> QED BY <1>3, <1>4, <1>11 DEF KeptPrefixes

\* t holds, in their order, the elements of the first n of s that are in S.
Picked(t, s, S, n, h) ==
    /\ h \in [1 .. Len(t) -> 1 .. n]
    /\ \A i \in 1 .. Len(t) : t[i] = s[h[i]] /\ s[h[i]] \in S
    /\ \A i, j \in 1 .. Len(t) : i < j => h[i] < h[j]
    /\ \A k \in 1 .. n : s[k] \in S => \E i \in 1 .. Len(t) : h[i] = k

\* retain keeps what is in S, in its order and nothing else.
LEMMA KeepProperties ==
    ASSUME NEW A, NEW s \in Seq(A), NEW S
    PROVE  Keep(s, S) \in Seq(A) /\ \E h : Picked(Keep(s, S), s, S, Len(s), h)
<1>0. PICK f : KeptPrefixes(f, A, s, S)
  BY KeepPrefixes
<1>1. /\ f \in [0 .. Len(s) -> Seq(A)]
      /\ Keep(s, S) = f[Len(s)]
      /\ f[0] = <<>>
      /\ \A n \in 1 .. Len(s) :
            f[n] = IF s[n] \in S THEN Append(f[n - 1], s[n]) ELSE f[n - 1]
  BY <1>0 DEF KeptPrefixes
<1>2. Len(s) \in Nat
  OBVIOUS
<1> DEFINE T == {n \in Nat : n <= Len(s) => \E h : Picked(f[n], s, S, n, h)}
<1>3. 0 \in T
  <2> DEFINE h == [i \in 1 .. 0 |-> 0]
  <2>1. h \in [1 .. Len(<<>>) -> 1 .. 0] /\ 1 .. Len(<<>>) = {} /\ 1 .. 0 = {}
    OBVIOUS
  <2> HIDE DEF h
  <2>2. Picked(<<>>, s, S, 0, h)
    BY <2>1, Zenon DEF Picked
  <2> QED BY <1>1, <2>2
<1>4. ASSUME NEW n \in T PROVE n + 1 \in T
  <2> SUFFICES ASSUME n + 1 <= Len(s) PROVE \E h : Picked(f[n + 1], s, S, n + 1, h)
    OBVIOUS
  <2>n. n \in Nat
    OBVIOUS
  <2>1. PICK h : Picked(f[n], s, S, n, h)
    BY <1>2
  <2> DEFINE t == f[n]  e == s[n + 1]
  <2>2. n \in 0 .. Len(s) /\ n + 1 \in 1 .. Len(s) /\ t \in Seq(A) /\ e \in A
    BY <1>1, <1>2, <2>n
  <2>3. f[n + 1] = IF e \in S THEN Append(t, e) ELSE t
    <3>1. f[n + 1] = IF s[n + 1] \in S THEN Append(f[(n + 1) - 1], s[n + 1]) ELSE f[(n + 1) - 1]
      BY <1>1, <2>2, Zenon
    <3>2. (n + 1) - 1 = n
      OBVIOUS
    <3> QED BY <3>1, <3>2, Zenon
  <2>4. Picked(t, s, S, n, h)
    BY <2>1
  <2>e. e = s[n + 1]
    OBVIOUS
  <2> HIDE DEF t, e, T
  <2>5. CASE e \in S
    <3> DEFINE u == Append(t, e)
               g == [i \in 1 .. Len(t) + 1 |-> IF i = Len(t) + 1 THEN n + 1 ELSE h[i]]
    <3>1. Len(t) \in Nat /\ Len(u) = Len(t) + 1 /\ u[Len(t) + 1] = e
          /\ \A i \in 1 .. Len(t) : u[i] = t[i]
      BY <2>2
    <3>h. \A i \in 1 .. Len(t) : h[i] \in 1 .. n
      BY <2>4 DEF Picked
    <3>g. g[Len(t) + 1] = n + 1 /\ \A i \in 1 .. Len(t) : g[i] = h[i]
      BY <3>1
    <3> HIDE DEF u
    <3>2. g \in [1 .. Len(u) -> 1 .. n + 1]
      BY <2>n, <3>h, <3>1
    <3> HIDE DEF g
    <3>3. ASSUME NEW i \in 1 .. Len(u) PROVE u[i] = s[g[i]] /\ s[g[i]] \in S
      <4>1. CASE i = Len(t) + 1
        BY <2>5, <2>e, <3>1, <3>g, <4>1
      <4>2. CASE i \in 1 .. Len(t)
        BY <2>4, <3>1, <3>g, <4>2 DEF Picked
      <4> QED BY <3>1, <4>1, <4>2
    <3>4. ASSUME NEW i \in 1 .. Len(u), NEW j \in 1 .. Len(u), i < j PROVE g[i] < g[j]
      <4>1. i \in 1 .. Len(t) /\ g[i] = h[i] /\ h[i] \in 1 .. n
        BY <3>1, <3>4, <3>h, <3>g
      <4>2. CASE j = Len(t) + 1
        BY <2>n, <3>g, <4>1, <4>2
      <4>3. CASE j \in 1 .. Len(t)
        BY <2>4, <3>g, <3>4, <4>1, <4>3 DEF Picked
      <4> QED BY <3>1, <4>2, <4>3
    <3>5. ASSUME NEW k \in 1 .. n + 1, s[k] \in S PROVE \E i \in 1 .. Len(u) : g[i] = k
      <4>1. CASE k = n + 1
        BY <3>1, <3>g, <4>1
      <4>2. CASE k \in 1 .. n
        <5>1. PICK i \in 1 .. Len(t) : h[i] = k
          BY <2>4, <3>5, <4>2 DEF Picked
        <5> QED BY <3>1, <3>g, <5>1
      <4> QED BY <2>n, <4>1, <4>2
    <3>6. Picked(u, s, S, n + 1, g)
      BY <3>2, <3>3, <3>4, <3>5 DEF Picked
    <3> QED BY <2>3, <2>5, <3>6 DEF u
  <2>6. CASE e \notin S
    <3>1. h \in [1 .. Len(t) -> 1 .. n + 1]
      BY <2>n, <2>4 DEF Picked
    <3>2. ASSUME NEW k \in 1 .. n + 1, s[k] \in S PROVE k \in 1 .. n
      BY <2>n, <2>6, <2>e, <3>2
    <3>3. Picked(t, s, S, n + 1, h)
      BY <2>4, <3>1, <3>2 DEF Picked
    <3> QED BY <2>3, <2>6, <3>3
  <2> QED BY <2>5, <2>6
<1>5. Len(s) \in T
  <2> HIDE DEF T
  <2>1. T \in SUBSET Nat
    BY DEF T
  <2> QED BY <2>1, <1>2, <1>3, <1>4, SetInduction
<1> QED BY <1>1, <1>2, <1>5

\* remove of the i-th element.
LEMMA RemoveAtProperties ==
    ASSUME NEW A, NEW s \in Seq(A), NEW i \in 1 .. Len(s)
    PROVE  /\ RemoveAt(s, i) \in Seq(A)
           /\ Len(RemoveAt(s, i)) = Len(s) - 1
           /\ \A k \in 1 .. Len(s) - 1 :
                 RemoveAt(s, i)[k] = IF k < i THEN s[k] ELSE s[k + 1]
<1> DEFINE a == SubSeq(s, 1, i - 1)  b == SubSeq(s, i + 1, Len(s))
<1>1. Len(s) \in Nat /\ i \in Nat
  OBVIOUS
<1>2. a \in Seq(A) /\ Len(a) = i - 1 /\ \A k \in 1 .. i - 1 : a[k] = s[k]
  BY <1>1
<1>3. b \in Seq(A) /\ Len(b) = Len(s) - i /\ \A k \in 1 .. Len(s) - i : b[k] = s[i + k]
  BY <1>1
<1>4. RemoveAt(s, i) = a \o b
  BY DEF RemoveAt
<1> HIDE DEF a, b
<1>5. a \o b \in Seq(A) /\ Len(a \o b) = Len(s) - 1
  <2>1. a \o b \in Seq(A) /\ Len(a \o b) = Len(a) + Len(b)
    BY <1>2, <1>3, ConcatProperties
  <2>2. Len(a) + Len(b) = Len(s) - 1
    BY <1>1, <1>2, <1>3
  <2> QED BY <2>1, <2>2
<1>6. ASSUME NEW k \in 1 .. Len(s) - 1
      PROVE  (a \o b)[k] = IF k < i THEN s[k] ELSE s[k + 1]
  <2>1. CASE k < i
    <3>1. k \in 1 .. Len(a) /\ k \in 1 .. i - 1
      BY <1>1, <1>2, <2>1
    <3>2. (a \o b)[k] = a[k]
      BY <1>2, <1>3, <3>1
    <3> QED BY <1>2, <2>1, <3>1, <3>2
  <2>2. CASE ~ (k < i)
    <3>1. k - (i - 1) \in 1 .. Len(s) - i /\ k > Len(a) /\ k <= Len(a) + Len(b)
          /\ k - Len(a) = k - (i - 1) /\ i + (k - (i - 1)) = k + 1
      BY <1>1, <1>2, <1>3, <2>2
    <3>2. (a \o b)[k] = b[k - Len(a)]
      BY <1>2, <1>3, <3>1
    <3> QED BY <1>3, <2>2, <3>1, <3>2
  <2> QED BY <2>1, <2>2
<1> QED BY <1>4, <1>5, <1>6

-----------------------------------------------------------------------------
(* Total.                                                                  *)

SumFun(s, f) == f = [n \in 0 .. Len(s) |-> IF n = 0 THEN 0 ELSE f[n - 1] + s[n]]

Sums(f, s) ==
    /\ f \in [0 .. Len(s) -> Int]
    /\ f[0] = 0
    /\ \A n \in 1 .. Len(s) : f[n] = f[n - 1] + s[n]

\* There is only one sequence of partial sums.
LEMMA SumsUnique ==
    ASSUME NEW s \in Seq(Int), NEW f, NEW g, Sums(f, s), Sums(g, s)
    PROVE  \A n \in 0 .. Len(s) : f[n] = g[n]
<1> DEFINE T == {n \in Nat : n <= Len(s) => f[n] = g[n]}
<1>1. 0 \in T
  BY DEF Sums
<1>2. ASSUME NEW n \in T PROVE n + 1 \in T
  <2> SUFFICES ASSUME n + 1 <= Len(s) PROVE f[n + 1] = g[n + 1]
    OBVIOUS
  <2>1. n \in Nat /\ Len(s) \in Nat /\ f[n] = g[n]
    OBVIOUS
  <2>2. n + 1 \in 1 .. Len(s) /\ (n + 1) - 1 = n
    BY <2>1
  <2>3. f[n + 1] = f[(n + 1) - 1] + s[n + 1] /\ g[n + 1] = g[(n + 1) - 1] + s[n + 1]
    BY <2>2, Zenon DEF Sums
  <2> QED BY <2>1, <2>2, <2>3
<1> HIDE DEF T
<1>3. T = Nat
  <2>1. T \in SUBSET Nat
    BY DEF T
  <2> QED BY <2>1, <1>1, <1>2, SetInduction
<1>4. ASSUME NEW n \in 0 .. Len(s) PROVE n \in Nat /\ n <= Len(s)
  OBVIOUS
<1> QED BY <1>3, <1>4 DEF T

LEMMA SumsAt ==
    ASSUME NEW s \in Seq(Int), NEW f, Sums(f, s)
    PROVE  /\ Len(s) \in Nat
           /\ \A n \in 0 .. Len(s) : f[n] \in Int
           /\ \A n \in 1 .. Len(s) : s[n] \in Int
           /\ \A n \in 1 .. Len(s) : f[n] = f[n - 1] + s[n]
<1>1. \A n \in 1 .. Len(s) : f[n] = f[n - 1] + s[n]
  BY Zenon DEF Sums
<1>2. \A n \in 0 .. Len(s) : f[n] \in Int
  BY DEF Sums
<1>3. Len(s) \in Nat /\ \A n \in 1 .. Len(s) : s[n] \in Int
  OBVIOUS
<1> QED BY <1>1, <1>2, <1>3, Zenon

\* Total is the last of the partial sums.
LEMMA TotalIsLast ==
    ASSUME NEW s \in Seq(Int)
    PROVE  \E f : Sums(f, s) /\ Total(s) = f[Len(s)]
<1> DEFINE step == [n \in 1 .. Len(s) |-> [t \in Int |-> t + s[n]]]
<1>1. step \in [1 .. Len(s) -> [Int -> Int]]
  OBVIOUS
<1>2. Len(s) \in Nat /\ 0 \in Int
  OBVIOUS
<1>3. PICK f \in [0 .. Len(s) -> Int] :
         f[0] = 0 /\ \A n \in 1 .. Len(s) : f[n] = step[n][f[n - 1]]
  <2> HIDE DEF step
  <2>1. \E f : Recursion(f, Int, Len(s), 0, step)
    BY <1>1, <1>2, PrimitiveRecursion
  <2> QED BY <2>1 DEF Recursion
<1>4. ASSUME NEW n \in 1 .. Len(s) PROVE f[n] = f[n - 1] + s[n]
  <2>1. f[n - 1] \in Int
    BY <1>2
  <2> QED BY <1>3, <2>1
<1> HIDE DEF step
<1>5. Sums(f, s)
  BY <1>3, <1>4 DEF Sums
<1>6. SumFun(s, f)
  <2> DEFINE g == [n \in 0 .. Len(s) |-> IF n = 0 THEN 0 ELSE f[n - 1] + s[n]]
  <2>1. ASSUME NEW n \in 0 .. Len(s) PROVE f[n] = g[n]
    <3>1. CASE n = 0
      BY <1>3, <3>1
    <3>2. CASE n # 0
      <4>1. n \in 1 .. Len(s)
        BY <1>2, <3>2
      <4>2. g[n] = f[n - 1] + s[n]
        BY <3>2
      <4> QED BY <1>4, <4>1, <4>2
    <3> QED BY <3>1, <3>2
  <2>2. f = [n \in 0 .. Len(s) |-> f[n]]
    OBVIOUS
  <2>3. f = g
    BY <2>1, <2>2
  <2> QED BY <2>3 DEF SumFun
<1> DEFINE sum == CHOOSE g : SumFun(s, g)
<1>7. SumFun(s, sum)
  BY <1>6
<1>8. Total(s) = sum[Len(s)]
  BY DEF Total, SumFun
<1> HIDE DEF sum
<1> DEFINE T == {n \in Nat : n <= Len(s) => sum[n] = f[n]}
<1>9. 0 \in T
  BY <1>2, <1>3, <1>7 DEF SumFun
<1>10. ASSUME NEW n \in T PROVE n + 1 \in T
  <2> SUFFICES ASSUME n + 1 <= Len(s) PROVE sum[n + 1] = f[n + 1]
    OBVIOUS
  <2>1. n + 1 \in 1 .. Len(s) /\ (n + 1) - 1 = n /\ sum[n] = f[n]
    BY <1>2
  <2>2. \A m \in 1 .. Len(s) : sum[m] = sum[m - 1] + s[m]
    <3> TAKE m \in 1 .. Len(s)
    <3>1. m \in 0 .. Len(s) /\ m # 0
      BY <1>2
    <3> QED BY <1>7, <3>1, Zenon DEF SumFun
  <2>3. sum[n + 1] = sum[(n + 1) - 1] + s[n + 1] /\ f[n + 1] = f[(n + 1) - 1] + s[n + 1]
    BY <1>4, <2>1, <2>2, Zenon
  <2>4. sum[n + 1] = sum[n] + s[n + 1] /\ f[n + 1] = f[n] + s[n + 1]
    BY <2>1, <2>3, Zenon
  <2> QED BY <2>1, <2>4, Zenon
<1>11. Len(s) \in T
  <2> HIDE DEF T
  <2>1. T \in SUBSET Nat
    BY DEF T
  <2> QED BY <2>1, <1>2, <1>9, <1>10, SetInduction
<1>12. Total(s) = f[Len(s)]
  BY <1>2, <1>8, <1>11
<1> QED BY <1>5, <1>12

\* Whatever adds up like the partial sums ends in the total.
LEMMA TotalIs ==
    ASSUME NEW s \in Seq(Int), NEW f, Sums(f, s)
    PROVE  Total(s) = f[Len(s)] /\ Total(s) \in Int
<1>1. PICK g : Sums(g, s) /\ Total(s) = g[Len(s)]
  BY TotalIsLast
<1>2. f[Len(s)] = g[Len(s)]
  <2>1. Len(s) \in 0 .. Len(s)
    OBVIOUS
  <2> QED BY <1>1, <2>1, SumsUnique
<1>3. f[Len(s)] \in Int
  BY DEF Sums
<1> QED BY <1>1, <1>2, <1>3

LEMMA TotalEmpty == Total(<<>>) = 0
<1>1. <<>> \in Seq(Int) /\ Len(<<>>) = 0
  OBVIOUS
<1>2. PICK f : Sums(f, <<>>) /\ Total(<<>>) = f[Len(<<>>)]
  BY <1>1, TotalIsLast
<1> QED BY <1>1, <1>2 DEF Sums

LEMMA TotalAppend ==
    ASSUME NEW s \in Seq(Int), NEW x \in Int
    PROVE  Total(Append(s, x)) = Total(s) + x /\ Total(s) \in Int
<1>1. PICK f : Sums(f, s) /\ Total(s) = f[Len(s)]
  BY TotalIsLast
<1> DEFINE u == Append(s, x)
           g == [n \in 0 .. Len(s) + 1 |-> IF n = Len(s) + 1 THEN f[Len(s)] + x ELSE f[n]]
<1>2. Len(s) \in Nat /\ u \in Seq(Int) /\ Len(u) = Len(s) + 1 /\ u[Len(s) + 1] = x
      /\ \A i \in 1 .. Len(s) : u[i] = s[i]
  OBVIOUS
<1>3. \A n \in 0 .. Len(s) : f[n] \in Int
  BY <1>1 DEF Sums
<1>4. g[Len(s) + 1] = f[Len(s)] + x /\ \A n \in 0 .. Len(s) : g[n] = f[n]
  BY <1>2
<1>5. g \in [0 .. Len(u) -> Int]
  <2> HIDE DEF u
  <2> QED BY <1>2, <1>3
<1> HIDE DEF u, g
<1>6. Sums(g, u)
  <2>1. g[0] = 0
    BY <1>1, <1>2, <1>4 DEF Sums
  <2>2. ASSUME NEW n \in 1 .. Len(u) PROVE g[n] = g[n - 1] + u[n]
    <3>1. CASE n = Len(s) + 1
      BY <1>2, <1>4, <3>1
    <3>2. CASE n \in 1 .. Len(s)
      <4>1. f[n] = f[n - 1] + s[n]
        BY <1>1, <3>2 DEF Sums
      <4>2. n \in 0 .. Len(s) /\ n - 1 \in 0 .. Len(s)
        BY <1>2, <3>2
      <4> QED BY <1>2, <1>4, <3>2, <4>1, <4>2
    <3> QED BY <1>2, <3>1, <3>2
  <2> QED BY <1>5, <2>1, <2>2 DEF Sums
<1>7. Total(u) = g[Len(u)]
  BY <1>2, <1>6, TotalIs
<1> QED BY <1>1, <1>2, <1>3, <1>4, <1>7 DEF u

\* Taking the i-th number out takes it off the total.
LEMMA TotalRemove ==
    ASSUME NEW s \in Seq(Int), NEW i \in 1 .. Len(s),
           NEW u \in Seq(Int), Len(u) = Len(s) - 1,
           \A k \in 1 .. Len(u) : u[k] = IF k < i THEN s[k] ELSE s[k + 1]
    PROVE  Total(u) = Total(s) - s[i] /\ Total(s) \in Int
<1>1. PICK f : Sums(f, s) /\ Total(s) = f[Len(s)]
  BY TotalIsLast
<1> DEFINE g == [n \in 0 .. Len(u) |-> IF n < i THEN f[n] ELSE f[n + 1] - s[i]]
<1>2. Len(s) \in Nat /\ Len(u) \in Nat /\ Len(s) = Len(u) + 1
  OBVIOUS
<1>3. (\A n \in 0 .. Len(s) : f[n] \in Int) /\ (\A n \in 1 .. Len(s) : s[n] \in Int)
  BY <1>1, SumsAt
<1>4. \A n \in 0 .. Len(u) : g[n] = IF n < i THEN f[n] ELSE f[n + 1] - s[i]
  OBVIOUS
<1>5. g \in [0 .. Len(u) -> Int]
  <2>1. ASSUME NEW n \in 0 .. Len(u)
        PROVE  (IF n < i THEN f[n] ELSE f[n + 1] - s[i]) \in Int
    <3>1. n \in 0 .. Len(s) /\ n + 1 \in 0 .. Len(s)
      BY <1>2
    <3>2. f[n] \in Int /\ f[n + 1] \in Int /\ s[i] \in Int
      BY <1>3, <3>1
    <3> QED BY <3>2
  <2> QED BY <2>1
<1> HIDE DEF g
<1>6. \A n \in 1 .. Len(s) : f[n] = f[n - 1] + s[n]
  BY <1>1, SumsAt
<1>7. Sums(g, u)
  <2>1. g[0] = 0
    BY <1>1, <1>2, <1>4 DEF Sums
  <2>2. ASSUME NEW n \in 1 .. Len(u) PROVE g[n] = g[n - 1] + u[n]
    <3> DEFINE N == Len(u)  M == Len(s)
    <3>0. n \in 1 .. N /\ N \in Nat /\ M = N + 1
      BY <1>2
    <3> HIDE DEF N, M
    <3>1. n \in 0 .. N /\ n - 1 \in 0 .. N /\ n \in 0 .. M /\ n - 1 \in 0 .. M
          /\ n + 1 \in 0 .. M /\ n \in 1 .. M /\ n + 1 \in 1 .. M
      BY <3>0
    <3> USE DEF N, M
    <3>2. f[n] = f[n - 1] + s[n] /\ f[n + 1] = f[n] + s[n + 1]
      <4>1. f[n + 1] = f[(n + 1) - 1] + s[n + 1]
        BY <1>6, <3>1, Zenon
      <4>2. (n + 1) - 1 = n
        OBVIOUS
      <4> QED BY <1>6, <3>1, <4>1, <4>2
    <3>3. s[n] \in Int /\ s[n + 1] \in Int /\ f[n] \in Int /\ f[n - 1] \in Int /\ s[i] \in Int
      BY <1>2, <1>3
    <3>4. CASE n < i
      BY <1>4, <3>1, <3>2, <3>3, <3>4
    <3> DEFINE a == f[n]  b == s[n + 1]  c == g[n]  d == g[n - 1]  e == s[i]
    <3>5. CASE n >= i
      <4>1. c = f[n + 1] - e /\ u[n] = b
        BY <1>4, <3>1, <3>5
      <4>2. d = a - e
        <5>1. CASE n = i
          <6>1. n - 1 < i
            BY <5>1
          <6>2. d = f[n - 1] /\ a = f[n - 1] + e
            BY <1>4, <3>1, <3>2, <5>1, <6>1
          <6>3. d \in Int /\ e \in Int /\ a = d + e
            BY <3>3, <6>2
          <6> HIDE DEF a, d, e
          <6> QED BY <6>3
        <5>2. CASE n > i
          <6>1. ~ (n - 1 < i) /\ (n - 1) + 1 = n
            BY <5>2
          <6>2. d = f[(n - 1) + 1] - e
            BY <1>4, <3>1, <6>1
          <6> QED BY <6>1, <6>2
        <5> QED BY <3>5, <5>1, <5>2
      <4>3. c = (a + b) - e /\ a \in Int /\ b \in Int /\ e \in Int
        BY <3>2, <3>3, <4>1
      <4> HIDE DEF a, b, c, d, e
      <4>4. c = d + b
        BY <4>2, <4>3
      <4> QED BY <4>1, <4>4 DEF c, d
    <3> QED BY <3>4, <3>5
  <2> QED BY <1>5, <2>1, <2>2 DEF Sums
<1>8. Total(u) = g[Len(u)]
  BY <1>7, TotalIs
<1>9. g[Len(u)] = f[Len(s)] - s[i]
  <2>1. CASE Len(u) < i
    <3>1. i = Len(s) /\ Len(u) = i - 1
      BY <1>2, <2>1
    <3>2. f[i] = f[i - 1] + s[i]
      BY <1>6
    <3> QED BY <1>2, <1>3, <1>4, <2>1, <3>1, <3>2
  <2>2. CASE ~ (Len(u) < i)
    <3>1. Len(u) \in 0 .. Len(u) /\ Len(u) + 1 = Len(s)
      BY <1>2
    <3> QED BY <1>4, <2>2, <3>1
  <2> QED BY <2>1, <2>2
<1> QED BY <1>1, <1>2, <1>3, <1>8, <1>9

\* Sequences that differ at one place.
LEMMA TotalUpdate ==
    ASSUME NEW s \in Seq(Int), NEW u \in Seq(Int), Len(u) = Len(s), NEW i \in 1 .. Len(s),
           \A k \in 1 .. Len(s) : k # i => u[k] = s[k]
    PROVE  Total(u) = (Total(s) - s[i]) + u[i] /\ Total(s) \in Int
<1>1. PICK f : Sums(f, s) /\ Total(s) = f[Len(s)]
  BY TotalIsLast
<1> DEFINE g == [n \in 0 .. Len(s) |-> IF n < i THEN f[n] ELSE (f[n] - s[i]) + u[i]]
<1>2. Len(s) \in Nat /\ Len(u) = Len(s)
  OBVIOUS
<1>3. /\ \A n \in 0 .. Len(s) : f[n] \in Int
      /\ \A n \in 1 .. Len(s) : s[n] \in Int /\ u[n] \in Int
      /\ \A n \in 1 .. Len(s) : f[n] = f[n - 1] + s[n]
  <2>1. \A n \in 1 .. Len(s) : u[n] \in Int
    OBVIOUS
  <2> QED BY <1>1, <2>1, SumsAt
<1>4. \A n \in 0 .. Len(s) : g[n] = IF n < i THEN f[n] ELSE (f[n] - s[i]) + u[i]
  OBVIOUS
<1>5. g \in [0 .. Len(u) -> Int]
  BY <1>2, <1>3
<1> HIDE DEF g
<1>6. Sums(g, u)
  <2>1. g[0] = 0
    BY <1>1, <1>2, <1>4 DEF Sums
  <2>2. ASSUME NEW n \in 1 .. Len(u) PROVE g[n] = g[n - 1] + u[n]
    <3>1. n \in 0 .. Len(s) /\ n - 1 \in 0 .. Len(s) /\ n \in 1 .. Len(s)
      BY <1>2
    <3>2. f[n] = f[n - 1] + s[n] /\ s[n] \in Int /\ u[n] \in Int /\ f[n - 1] \in Int
      BY <1>3, <3>1
    <3>3. u[i] \in Int /\ s[i] \in Int
      BY <1>3
    <3>4. n < i => u[n] = s[n]
      BY <3>1
    <3>5. n > i => u[n] = s[n]
      BY <3>1
    <3>6. g[n] = (IF n < i THEN f[n] ELSE (f[n] - s[i]) + u[i])
          /\ g[n - 1] = (IF n - 1 < i THEN f[n - 1] ELSE (f[n - 1] - s[i]) + u[i])
      BY <1>4, <3>1
    <3>7. CASE n < i
      BY <3>2, <3>4, <3>6, <3>7
    <3>8. CASE n = i
      BY <3>2, <3>6, <3>8
    <3>9. CASE n > i
      BY <3>2, <3>3, <3>5, <3>6, <3>9
    <3> QED BY <3>7, <3>8, <3>9
  <2> QED BY <1>5, <2>1, <2>2 DEF Sums
<1>7. Total(u) = g[Len(u)]
  BY <1>6, TotalIs
<1> QED BY <1>1, <1>2, <1>3, <1>4, <1>7

\* A total is no smaller when every number is no smaller.
LEMMA TotalMonotone ==
    ASSUME NEW s \in Seq(Int), NEW u \in Seq(Int), Len(u) = Len(s),
           \A k \in 1 .. Len(s) : s[k] <= u[k]
    PROVE  Total(s) <= Total(u)
<1>1. PICK f : Sums(f, s) /\ Total(s) = f[Len(s)]
  BY TotalIsLast
<1>2. PICK g : Sums(g, u) /\ Total(u) = g[Len(u)]
  BY TotalIsLast
<1> DEFINE T == {n \in Nat : n <= Len(s) => f[n] <= g[n]}
<1>3. 0 \in T
  BY <1>1, <1>2 DEF Sums
<1>4. ASSUME NEW n \in T PROVE n + 1 \in T
  <2> SUFFICES ASSUME n + 1 <= Len(s) PROVE f[n + 1] <= g[n + 1]
    OBVIOUS
  <2>1. n \in Nat /\ Len(s) \in Nat /\ f[n] <= g[n]
    OBVIOUS
  <2>2. n + 1 \in 1 .. Len(s) /\ (n + 1) - 1 = n /\ n \in 0 .. Len(s)
    BY <2>1
  <2>3. f[n + 1] = f[(n + 1) - 1] + s[n + 1] /\ g[n + 1] = g[(n + 1) - 1] + u[n + 1]
    BY <1>1, <1>2, <2>2, Zenon DEF Sums
  <2>4. f[n] \in Int /\ g[n] \in Int /\ s[n + 1] \in Int /\ u[n + 1] \in Int /\ s[n + 1] <= u[n + 1]
    BY <1>1, <1>2, <2>2, SumsAt
  <2> QED BY <2>1, <2>2, <2>3, <2>4
<1>5. Len(s) \in T
  <2>0. Len(s) \in Nat
    OBVIOUS
  <2> HIDE DEF T
  <2>1. T \in SUBSET Nat
    BY DEF T
  <2> QED BY <2>0, <2>1, <1>3, <1>4, SetInduction
<1> QED BY <1>1, <1>2, <1>5

Weighed(wt, s) == [i \in 1 .. Len(s) |-> wt[s[i]]]

\* Appending to a sequence appends a weight.
LEMMA WeighedAppend ==
    ASSUME NEW A, NEW wt \in [A -> Int], NEW s \in Seq(A), NEW e \in A
    PROVE  /\ Weighed(wt, s) \in Seq(Int)
           /\ Weighed(wt, Append(s, e)) = Append(Weighed(wt, s), wt[e])
           /\ Total(Weighed(wt, Append(s, e))) = Total(Weighed(wt, s)) + wt[e]
           /\ Total(Weighed(wt, s)) \in Int
<1>1. Weighed(wt, s) \in Seq(Int) /\ Len(Weighed(wt, s)) = Len(s) /\ Len(s) \in Nat /\ wt[e] \in Int
  BY DEF Weighed
<1>2. Append(s, e) \in Seq(A) /\ Len(Append(s, e)) = Len(s) + 1
      /\ Append(s, e)[Len(s) + 1] = e /\ \A i \in 1 .. Len(s) : Append(s, e)[i] = s[i]
  OBVIOUS
<1>3. Weighed(wt, Append(s, e)) = Append(Weighed(wt, s), wt[e])
  <2> DEFINE u == Append(s, e)
             v == Append(Weighed(wt, s), wt[e])
             w == Weighed(wt, u)
  <2>1. v \in Seq(Int) /\ Len(v) = Len(s) + 1 /\ v[Len(s) + 1] = wt[e]
        /\ \A i \in 1 .. Len(s) : v[i] = Weighed(wt, s)[i]
    BY <1>1
  <2>2. \A i \in 1 .. Len(s) : Weighed(wt, s)[i] = wt[s[i]]
    BY DEF Weighed
  <2> HIDE DEF u, v
  <2>3. w \in Seq(Int) /\ Len(w) = Len(s) + 1
        /\ \A i \in 1 .. Len(s) + 1 : w[i] = wt[u[i]]
    BY <1>1, <1>2 DEF Weighed, u
  <2>4. ASSUME NEW i \in 1 .. Len(s) + 1 PROVE w[i] = v[i]
    <3>1. CASE i = Len(s) + 1
      BY <1>1, <1>2, <2>1, <2>3, <3>1 DEF u
    <3>2. CASE i \in 1 .. Len(s)
      BY <1>2, <2>1, <2>2, <2>3, <3>2 DEF u
    <3> QED BY <1>1, <3>1, <3>2
  <2> HIDE DEF w
  <2>5. w = v
    BY <2>1, <2>3, <2>4, SeqEqual
  <2> QED BY <2>5 DEF u, v, w
<1> QED BY <1>1, <1>3, TotalAppend

\* Dropping what weighs nothing leaves the total alone.
LEMMA KeepTotal ==
    ASSUME NEW A, NEW s \in Seq(A), NEW S, NEW wt \in [A -> Int],
           \A e \in A : e \notin S => wt[e] = 0
    PROVE  Total(Weighed(wt, Keep(s, S))) = Total(Weighed(wt, s))
<1>1. PICK f : KeptPrefixes(f, A, s, S)
  BY KeepPrefixes
<1> DEFINE all == Weighed(wt, s)
<1>2. all \in Seq(Int) /\ Len(all) = Len(s) /\ Len(s) \in Nat
      /\ \A n \in 1 .. Len(s) : all[n] = wt[s[n]] /\ s[n] \in A
  BY DEF Weighed
<1> HIDE DEF all
<1>3. PICK sum : Sums(sum, all) /\ Total(all) = sum[Len(all)]
  BY <1>2, TotalIsLast
<1> DEFINE T == {n \in Nat : n <= Len(s) => Total(Weighed(wt, f[n])) = sum[n]}
<1>4. 0 \in T
  <2>1. f[0] = <<>> /\ sum[0] = 0
    BY <1>1, <1>3 DEF KeptPrefixes, Sums
  <2>2. Weighed(wt, <<>>) = <<>>
    BY DEF Weighed
  <2>3. Total(Weighed(wt, f[0])) = sum[0]
    BY <2>1, <2>2, TotalEmpty
  <2> QED BY <2>3
<1>5. ASSUME NEW n \in T PROVE n + 1 \in T
  <2> SUFFICES ASSUME n + 1 <= Len(s) PROVE Total(Weighed(wt, f[n + 1])) = sum[n + 1]
    OBVIOUS
  <2>n. n \in Nat /\ (n + 1) - 1 = n /\ Total(Weighed(wt, f[n])) = sum[n]
    BY <1>2
  <2>1. n + 1 \in 1 .. Len(s) /\ n \in 0 .. Len(s)
    BY <1>2, <2>n
  <2> DEFINE t == f[n]  e == s[n + 1]  u == f[n + 1]
  <2>2. u = (IF e \in S THEN Append(t, e) ELSE t) /\ t \in Seq(A)
    <3>1. f[n + 1] = IF s[n + 1] \in S THEN Append(f[(n + 1) - 1], s[n + 1]) ELSE f[(n + 1) - 1]
      BY <1>1, <2>1, Zenon DEF KeptPrefixes
    <3>2. t \in Seq(A)
      BY <1>1, <2>1 DEF KeptPrefixes
    <3> QED BY <2>n, <3>1, <3>2, Zenon
  <2>3. e \in A /\ all[n + 1] = wt[e]
    BY <1>2, <2>1
  <2>4. sum[n + 1] = sum[n] + wt[e] /\ sum[n] \in Int
    <3>1. sum[n + 1] = sum[(n + 1) - 1] + all[n + 1] /\ sum[n] \in Int
      BY <1>2, <1>3, <2>1, SumsAt
    <3> QED BY <2>n, <2>3, <3>1
  <2>e. Total(Weighed(wt, t)) = sum[n]
    BY <2>n
  <2> HIDE DEF t, e, u, T
  <2>5. CASE e \in S
    <3>1. Total(Weighed(wt, Append(t, e))) = Total(Weighed(wt, t)) + wt[e]
      BY <2>2, <2>3, WeighedAppend
    <3>2. Total(Weighed(wt, u)) = sum[n + 1]
      BY <2>2, <2>4, <2>5, <2>e, <3>1, Zenon
    <3> QED BY <3>2 DEF u
  <2>6. CASE e \notin S
    <3>1. wt[e] = 0
      BY <2>3, <2>6
    <3>2. Total(Weighed(wt, u)) = sum[n + 1]
      BY <2>2, <2>4, <2>6, <2>e, <3>1
    <3> QED BY <3>2 DEF u
  <2> QED BY <2>5, <2>6
<1>6. Len(s) \in T
  <2> HIDE DEF T
  <2>1. T \in SUBSET Nat
    BY DEF T
  <2> QED BY <2>1, <1>2, <1>4, <1>5, SetInduction
<1>7. Total(Weighed(wt, f[Len(s)])) = sum[Len(s)]
  BY <1>2, <1>6
<1> QED BY <1>1, <1>2, <1>3, <1>7 DEF KeptPrefixes, all

-----------------------------------------------------------------------------
(* SumOver.                                                                *)

\* SetToSeq lists every element of a finite set once.
LEMMA SetToSeqLists ==
    ASSUME NEW S, IsFiniteSet(S)
    PROVE  /\ Cardinality(S) \in Nat
           /\ SetToSeq(S) \in [1 .. Cardinality(S) -> S]
           /\ \A x \in S : \E i \in 1 .. Cardinality(S) :
                 SetToSeq(S)[i] = x /\ \A k \in 1 .. Cardinality(S) : SetToSeq(S)[k] = x => k = i
<1> DEFINE n == Cardinality(S)
           q == SetToSeq(S)
<1>1. n \in Nat /\ ExistsBijection(1 .. n, S)
  BY FS_CardinalityType
<1>2. PICK b : b \in Bijection(1 .. n, S)
  BY <1>1 DEF ExistsBijection
<1>3. b \in [1 .. n -> S] /\ IsInjective(b)
  BY <1>2 DEF Bijection, Injection
<1>4. q \in [1 .. n -> S] /\ IsInjective(q)
  BY <1>3 DEF SetToSeq
<1>5. q \in Surjection(1 .. n, S)
  <2>1. q \in Injection(1 .. n, S)
    BY <1>4 DEF Injection
  <2>2. IsFiniteSet(1 .. n) /\ Cardinality(1 .. n) = n
    BY <1>1, FS_Interval
  <2> HIDE DEF q, n
  <2>3. Cardinality(1 .. n) = Cardinality(S)
    BY <2>2 DEF n
  <2> QED BY <2>1, <2>3, FS_Injection
<1>6. \A x \in S : \E i \in 1 .. n : q[i] = x
  BY <1>5 DEF Surjection
<1>7. \A i, k \in 1 .. n : q[i] = q[k] => i = k
  BY <1>4 DEF IsInjective
<1> HIDE DEF q, n
<1>8. ASSUME NEW x \in S
      PROVE  \E i \in 1 .. n : q[i] = x /\ \A k \in 1 .. n : q[k] = x => k = i
  BY <1>6, <1>7
<1> QED BY <1>1, <1>4, <1>8, Zenon DEF q, n

Listed(f, S) == [i \in 1 .. Cardinality(S) |-> f[SetToSeq(S)[i]]]

LEMMA SumOverIsTotal ==
    ASSUME NEW S, IsFiniteSet(S), NEW f \in [S -> Int]
    PROVE  /\ SumOver(f, S) = Total(Listed(f, S))
           /\ Listed(f, S) \in Seq(Int)
           /\ Len(Listed(f, S)) = Cardinality(S)
           /\ Cardinality(S) \in Nat
           /\ \A i \in 1 .. Cardinality(S) : Listed(f, S)[i] = f[SetToSeq(S)[i]]
                                             /\ SetToSeq(S)[i] \in S
<1>1. Cardinality(S) \in Nat /\ SetToSeq(S) \in [1 .. Cardinality(S) -> S]
  BY SetToSeqLists
<1>2. DOMAIN SetToSeq(S) = 1 .. Cardinality(S)
  BY <1>1
<1>3. SumOver(f, S) = Total(Listed(f, S))
  BY <1>2, Zenon DEF SumOver, Listed
<1>4. \A i \in 1 .. Cardinality(S) : f[SetToSeq(S)[i]] \in Int /\ SetToSeq(S)[i] \in S
  BY <1>1
<1>5. Listed(f, S) \in [1 .. Cardinality(S) -> Int]
      /\ \A i \in 1 .. Cardinality(S) : Listed(f, S)[i] = f[SetToSeq(S)[i]]
  BY <1>4 DEF Listed
<1>6. Listed(f, S) \in Seq(Int) /\ Len(Listed(f, S)) = Cardinality(S)
  BY <1>1, <1>5
<1> QED BY <1>1, <1>3, <1>4, <1>5, <1>6

\* The sum changes by what changes at one element.
LEMMA SumOverUpdate ==
    ASSUME NEW S, IsFiniteSet(S), NEW f \in [S -> Int], NEW g \in [S -> Int], NEW x \in S,
           \A y \in S : y # x => g[y] = f[y]
    PROVE  SumOver(g, S) = (SumOver(f, S) - f[x]) + g[x] /\ SumOver(f, S) \in Int
<1>1. PICK i \in 1 .. Cardinality(S) :
         /\ SetToSeq(S)[i] = x
         /\ \A k \in 1 .. Cardinality(S) : SetToSeq(S)[k] = x => k = i
  BY SetToSeqLists
<1> DEFINE F == Listed(f, S)  G == Listed(g, S)
<1>2. /\ SumOver(f, S) = Total(F) /\ SumOver(g, S) = Total(G)
      /\ F \in Seq(Int) /\ G \in Seq(Int) /\ Len(F) = Cardinality(S) /\ Len(G) = Cardinality(S)
      /\ \A k \in 1 .. Cardinality(S) : F[k] = f[SetToSeq(S)[k]] /\ G[k] = g[SetToSeq(S)[k]]
                                        /\ SetToSeq(S)[k] \in S
  BY SumOverIsTotal
<1> HIDE DEF F, G
<1>3. i \in 1 .. Len(F) /\ F[i] = f[x] /\ G[i] = g[x]
  BY <1>1, <1>2
<1>4. ASSUME NEW k \in 1 .. Len(F), k # i PROVE G[k] = F[k]
  <2>1. SetToSeq(S)[k] \in S /\ SetToSeq(S)[k] # x
    BY <1>1, <1>2, <1>4
  <2> QED BY <1>2, <2>1
<1>5. Total(G) = (Total(F) - F[i]) + G[i] /\ Total(F) \in Int
  BY <1>2, <1>3, <1>4, TotalUpdate
<1> QED BY <1>2, <1>3, <1>5, Zenon

LEMMA SumOverMonotone ==
    ASSUME NEW S, IsFiniteSet(S), NEW f \in [S -> Int], NEW g \in [S -> Int],
           \A y \in S : f[y] <= g[y]
    PROVE  SumOver(f, S) <= SumOver(g, S)
<1> DEFINE F == Listed(f, S)  G == Listed(g, S)
<1>2. /\ SumOver(f, S) = Total(F) /\ SumOver(g, S) = Total(G)
      /\ F \in Seq(Int) /\ G \in Seq(Int) /\ Len(F) = Cardinality(S) /\ Len(G) = Cardinality(S)
      /\ \A k \in 1 .. Cardinality(S) : F[k] = f[SetToSeq(S)[k]] /\ G[k] = g[SetToSeq(S)[k]]
                                        /\ SetToSeq(S)[k] \in S
  BY SumOverIsTotal
<1> HIDE DEF F, G
<1>3. \A k \in 1 .. Len(F) : F[k] <= G[k]
  BY <1>2
<1> QED BY <1>2, <1>3, TotalMonotone

=============================================================================
