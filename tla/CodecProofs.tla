----------------------------- MODULE CodecProofs -----------------------------
(***************************************************************************)
(* The four conversions of Codecs agree with their definitions, for every  *)
(* radix, word and byte size, and for texts and lists of tags of every     *)
(* length.                                                                 *)
(*                                                                         *)
(* All of them are recursive: Encode and Power are recursive functions,    *)
(* the others are folds.  What a recursion computes is shown once, for any *)
(* recursion that descends in the natural numbers, and induction is made   *)
(* by a smallest counterexample.                                           *)
(***************************************************************************)
EXTENDS Codecs, FiniteSetTheorems, TLAPS

-----------------------------------------------------------------------------
(* Induction and recursion.                                                *)

\* A set of numbers that is not empty has a smallest one.
LEMMA Smallest ==
  ASSUME NEW T \in SUBSET Nat, T # {}
  PROVE  \E n \in T : \A m \in T : n <= m
<1>1. PICK k \in T : TRUE
  OBVIOUS
<1> DEFINE S == 0..k
           U == {0..(x - 1) : x \in {y \in T : y <= k}}
<1>2. IsFiniteSet(S)
  <2>1. 0 \in Int /\ k \in Int
    OBVIOUS
  <2> QED
    BY <2>1, FS_Interval
<1>3. \A x \in T : x <= k => 0..(x - 1) \in SUBSET S
  OBVIOUS
<1>4. U \subseteq FiniteSubsetsOf(S) /\ U # {}
  <2>1. U \subseteq SUBSET S
    BY <1>3
  <2>2. 0..(k - 1) \in U
    BY <1>1
  <2> QED
    BY <1>2, <2>1, <2>2, FS_FiniteSubsetsOfFinite
<1>5. PICK u \in U : \A v \in U : <<v, u>> \notin StrictSubsetOrdering(S)
  <2> HIDE DEF U
  <2> QED
    BY <1>4, FS_StrictSubsetOrderingWellFounded, WFMin
<1>6. PICK n \in T : n <= k /\ u = 0..(n - 1)
  OBVIOUS
<1>7. ASSUME NEW m \in T, m < n PROVE FALSE
  <2>1. m \in Nat /\ n \in Nat /\ k \in Nat
    OBVIOUS
  <2>2. 0..(m - 1) \subseteq 0..(n - 1) /\ m \in 0..(n - 1) /\ m \notin 0..(m - 1)
    BY <1>7, <2>1
  <2>3. <<0..(m - 1), u>> \in StrictSubsetOrdering(S)
    BY <1>3, <1>6, <1>7, <2>1, <2>2 DEF StrictSubsetOrdering
  <2>4. 0..(m - 1) \in U
    BY <1>6, <1>7, <2>1
  <2> QED
    BY <1>5, <2>3, <2>4
<1> QED
  BY <1>7

\* What holds of 0, and of a number after the one before it, holds of all up to n.
LEMMA UpTo ==
  ASSUME NEW n \in Nat, NEW P, 0 \in P, \A i \in 1..n : i - 1 \in P => i \in P
  PROVE  0..n \subseteq P
<1> DEFINE T == {i \in 0..n : i \notin P}
<1>1. SUFFICES ASSUME T # {} PROVE FALSE
  OBVIOUS
<1>2. T \in SUBSET Nat
  OBVIOUS
<1>3. PICK i \in T : \A j \in T : i <= j
  <2> HIDE DEF T
  <2> QED
    BY <1>1, <1>2, Smallest
<1>4. i \in 1..n /\ i - 1 \in 0..n /\ i - 1 \notin T
  BY <1>3
<1> QED
  BY <1>4

\* One line of a recursion: d is a base case, or is computed from an earlier one.
Obeys(f, d, B, prev, start, op) == f[d] = IF d \in B THEN start[d] ELSE op[<<d, f[prev[d]]>>]

\* A recursion whose argument descends in a measure has a solution.
LEMMA RecursionExists ==
  ASSUME NEW D, NEW V, NEW m \in [D -> Nat], NEW B, NEW prev \in [D -> D],
         NEW start \in [D -> V], NEW op \in [D \X V -> V],
         \A d \in D \ B : m[prev[d]] < m[d]
  PROVE  \E f \in [D -> V] : \A d \in D : Obeys(f, d, B, prev, start, op)
<1> DEFINE Low(k) == {d \in D : m[d] < k}
           Good(k, f) == f \in [D -> V] /\ \A d \in Low(k) : Obeys(f, d, B, prev, start, op)
           Next(f) == [d \in D |-> IF d \in B THEN start[d] ELSE op[<<d, f[prev[d]]>>]]
<1>1. ASSUME NEW k \in Nat, NEW f, Good(k, f) PROVE Good(k + 1, Next(f))
  <2>1. Next(f) \in [D -> V]
    BY <1>1
  <2>2. ASSUME NEW d \in Low(k + 1) PROVE Obeys(Next(f), d, B, prev, start, op)
    <3>1. CASE d \in B
      BY <3>1 DEF Obeys
    <3>2. CASE d \notin B
      <4>1. prev[d] \in Low(k)
        BY <3>2
      <4>2. Next(f)[prev[d]] = f[prev[d]]
        BY <1>1, <4>1 DEF Obeys
      <4> QED
        BY <3>2, <4>2 DEF Obeys
    <3> QED
      BY <3>1, <3>2
  <2> QED
    BY <2>1, <2>2
<1>2. \A k \in Nat : \E f : Good(k, f)
  <2> DEFINE P == {k \in Nat : \E f : Good(k, f)}
  <2>1. 0 \in P
    <3>1. Good(0, start)
      OBVIOUS
    <3> QED
      BY <3>1
  <2>2. ASSUME NEW k \in Nat PROVE k \in P
    <3>1. \A i \in 1..k : i - 1 \in P => i \in P
      <4>1. ASSUME NEW i \in 1..k, i - 1 \in P PROVE i \in P
        <5>1. PICK f : Good(i - 1, f)
          BY <4>1
        <5>2. i - 1 \in Nat /\ i = (i - 1) + 1 /\ i \in Nat
          OBVIOUS
        <5> HIDE DEF Good, Next
        <5>3. Good((i - 1) + 1, Next(f))
          BY <1>1, <5>1, <5>2
        <5>4. Good(i, Next(f))
          BY <5>2, <5>3
        <5> QED
          BY <5>2, <5>4
      <4> QED
        BY <4>1
    <3> HIDE DEF P
    <3>2. 0..k \subseteq P
      BY <2>1, <3>1, UpTo
    <3> QED
      BY <3>2
  <2> QED
    BY <2>2
<1>3. ASSUME NEW k \in Nat, NEW l \in Nat, k <= l, NEW f, NEW g, Good(k, f), Good(l, g)
      PROVE  \A d \in Low(k) : f[d] = g[d]
  <2> DEFINE T == {m[d] : d \in {e \in Low(k) : f[e] # g[e]}}
  <2>1. SUFFICES ASSUME T # {} PROVE FALSE
    OBVIOUS
  <2>2. T \in SUBSET Nat
    OBVIOUS
  <2>3. PICK x \in T : \A y \in T : x <= y
    <3> HIDE DEF T
    <3> QED
      BY <2>1, <2>2, Smallest
  <2>4. PICK d \in Low(k) : f[d] # g[d] /\ m[d] = x
    OBVIOUS
  <2>5. d \in Low(l) /\ d \in D
    BY <1>3
  <2>6. Obeys(f, d, B, prev, start, op) /\ Obeys(g, d, B, prev, start, op)
    BY <1>3, <2>4, <2>5
  <2>7. d \notin B /\ f[prev[d]] # g[prev[d]]
    BY <2>4, <2>6 DEF Obeys
  <2>8. prev[d] \in Low(k) /\ m[prev[d]] < m[d]
    BY <2>5, <2>7
  <2>9. m[prev[d]] \in T
    BY <2>7, <2>8
  <2>10. x <= m[prev[d]]
    BY <2>3, <2>9
  <2> QED
    BY <2>4, <2>5, <2>8, <2>10
<1> DEFINE The(d) == CHOOSE f : Good(m[d] + 1, f)
           F == [d \in D |-> The(d)[d]]
<1>4. ASSUME NEW d \in D PROVE Good(m[d] + 1, The(d)) /\ d \in Low(m[d] + 1)
  <2>1. m[d] + 1 \in Nat
    OBVIOUS
  <2>2. \E f : Good(m[d] + 1, f)
    BY <1>2, <2>1
  <2> QED
    BY <2>2
<1>5. F \in [D -> V]
  BY <1>4
<1>6. ASSUME NEW d \in D PROVE Obeys(F, d, B, prev, start, op)
  <2>1. Obeys(The(d), d, B, prev, start, op)
    BY <1>4
  <2>2. CASE d \in B
    BY <2>1, <2>2 DEF Obeys
  <2>3. CASE d \notin B
    <3> DEFINE e == prev[d]
    <3>1. e \in D /\ m[e] < m[d] /\ m[e] \in Nat /\ m[d] \in Nat
      BY <2>3
    <3>2. Good(m[e] + 1, The(e)) /\ Good(m[d] + 1, The(d)) /\ e \in Low(m[e] + 1)
      BY <1>4, <3>1
    <3>3. m[e] + 1 <= m[d] + 1 /\ m[e] + 1 \in Nat /\ m[d] + 1 \in Nat
      BY <3>1
    <3>4. The(e)[e] = The(d)[e]
      <4> HIDE DEF The, Good, Low, e
      <4>1. \A x \in Low(m[e] + 1) : The(e)[x] = The(d)[x]
        BY <1>3, <3>2, <3>3
      <4> QED
        BY <3>2, <4>1
    <3>5. F[e] = The(d)[e] /\ F[d] = The(d)[d]
      BY <3>1, <3>4
    <3>6. The(d)[d] = op[<<d, The(d)[prev[d]]>>]
      BY <2>1, <2>3 DEF Obeys
    <3> HIDE DEF F, The
    <3> QED
      BY <2>3, <3>5, <3>6 DEF Obeys
  <2> QED
    BY <2>2, <2>3
<1> QED
  BY <1>5, <1>6

\* Power is a recursion; p is the function behind it.
Powers(b, p) == p = [i \in Nat |-> IF i = 0 THEN 1 ELSE b * p[i - 1]]

\* Power obeys the equations of an exponent.
LEMMA PowerIs ==
  ASSUME NEW b \in Nat
  PROVE  /\ Power(b, 0) = 1
         /\ \A k \in Nat : Power(b, k) \in Nat /\ Power(b, k + 1) = b * Power(b, k)
<1> DEFINE id    == [k \in Nat |-> k]
           prev  == [k \in Nat |-> IF k = 0 THEN 0 ELSE k - 1]
           start == [k \in Nat |-> 1]
           op    == [q \in Nat \X Nat |-> b * q[2]]
           it    == CHOOSE p : Powers(b, p)
<1>1. \E f \in [Nat -> Nat] : \A k \in Nat : Obeys(f, k, {0}, prev, start, op)
  <2>1. id \in [Nat -> Nat] /\ prev \in [Nat -> Nat] /\ start \in [Nat -> Nat] /\ op \in [Nat \X Nat -> Nat]
    OBVIOUS
  <2>2. \A k \in Nat \ {0} : id[prev[k]] < id[k]
    OBVIOUS
  <2> HIDE DEF id, prev, start, op
  <2> QED
    BY <2>1, <2>2, RecursionExists
<1>2. PICK f \in [Nat -> Nat] : \A k \in Nat : Obeys(f, k, {0}, prev, start, op)
  BY <1>1
<1>3. \A k \in Nat : f[k] = IF k = 0 THEN 1 ELSE b * f[k - 1]
  <2>1. ASSUME NEW k \in Nat PROVE f[k] = IF k = 0 THEN 1 ELSE b * f[k - 1]
    <3>1. CASE k = 0
      BY <1>2, <3>1 DEF Obeys
    <3>2. CASE k # 0
      <4>1. prev[k] = k - 1 /\ k - 1 \in Nat
        BY <3>2
      <4>2. f[k - 1] \in Nat /\ op[<<k, f[k - 1]>>] = b * f[k - 1]
        BY <4>1
      <4> HIDE DEF op, prev, start
      <4>3. f[k] = op[<<k, f[k - 1]>>]
        BY <1>2, <3>2, <4>1 DEF Obeys
      <4> QED
        BY <3>2, <4>2, <4>3
    <3> QED
      BY <3>1, <3>2
  <2> QED
    BY <2>1
<1>4. Powers(b, f)
  BY <1>3 DEF Powers
<1>5. Powers(b, it)
  BY <1>4
<1>6. \A k : Power(b, k) = it[k]
  BY DEF Power, Powers
<1> HIDE DEF it
<1>7. it[0] = 1 /\ \A k \in Nat : it[k + 1] = b * it[k]
  BY <1>5 DEF Powers
<1>8. ASSUME NEW n \in Nat PROVE it[n] \in Nat
  <2> DEFINE P == {i \in Nat : it[i] \in Nat}
  <2>1. 0 \in P
    BY <1>7
  <2>2. ASSUME NEW i \in 1..n, i - 1 \in P PROVE i \in P
    <3>1. i \in Nat /\ i - 1 \in Nat /\ i = (i - 1) + 1
      OBVIOUS
    <3>2. it[i] = b * it[i - 1]
      BY <1>7, <3>1
    <3> QED
      BY <2>2, <3>1, <3>2
  <2> HIDE DEF P
  <2>3. 0..n \subseteq P
    BY <2>1, <2>2, UpTo
  <2> QED
    BY <2>3 DEF P
<1> QED
  BY <1>6, <1>7, <1>8

\* Sequences are closed under what the codecs do to them.
LEMMA SeqFacts ==
  ASSUME NEW S
  PROVE  /\ <<>> \in Seq(S)
         /\ \A x \in S : <<x>> \in Seq(S)
         /\ \A s \in Seq(S), x \in S : Append(s, x) \in Seq(S)
OBVIOUS

\* Digits are numbers.
LEMMA SeqGrows ==
  ASSUME NEW n \in Nat, NEW s \in Seq(0..(n - 1))
  PROVE  s \in Seq(Nat)
OBVIOUS

\* Digits obeys the equation it is defined by.
LEMMA DigitsIs ==
  \A n \in Nat : /\ Digits[n] \in Seq(0..(Radix - 1))
                 /\ Digits[n] = IF n < Radix THEN <<n>> ELSE Append(Digits[n \div Radix], n % Radix)
<1> DEFINE V     == Seq(0..(Radix - 1))
           id    == [n \in Nat |-> n]
           B     == 0..(Radix - 1)
           prev  == [n \in Nat |-> n \div Radix]
           start == [n \in Nat |-> IF n < Radix THEN <<n>> ELSE <<>>]
           op    == [q \in Nat \X V |-> Append(q[2], q[1] % Radix)]
           Rule(f) == f = [n \in Nat |-> IF n < Radix THEN <<n>>
                                         ELSE Append(f[n \div Radix], n % Radix)]
           it    == CHOOSE f : Rule(f)
<1>0. Radix \in Nat \ {0, 1}
  BY CodecAssumption
<1>1. \A n \in Nat : n % Radix \in 0..(Radix - 1) /\ n \div Radix \in Nat
  BY <1>0
<1>2. \A n \in Nat : n >= Radix => n \div Radix < n
  BY <1>0
<1>3. \E f \in [Nat -> V] : \A n \in Nat : Obeys(f, n, B, prev, start, op)
  <2>1. id \in [Nat -> Nat] /\ prev \in [Nat -> Nat]
    BY <1>1
  <2>2. start \in [Nat -> V]
    <3>1. \A n \in Nat : n < Radix => n \in 0..(Radix - 1)
      BY <1>0
    <3> QED
      BY <3>1, SeqFacts
  <2>3. op \in [Nat \X V -> V]
    <3>1. ASSUME NEW q \in Nat \X V PROVE Append(q[2], q[1] % Radix) \in V
      <4>1. q[1] \in Nat /\ q[2] \in V
        OBVIOUS
      <4> QED
        BY <1>1, <4>1, SeqFacts
    <3> QED
      BY <3>1
  <2>4. \A n \in Nat \ B : id[prev[n]] < id[n]
    <3>1. \A n \in Nat \ B : n >= Radix
      BY <1>0
    <3> QED
      BY <1>1, <1>2, <3>1
  <2> HIDE DEF id, prev, start, op, B, V
  <2> QED
    BY <2>1, <2>2, <2>3, <2>4, RecursionExists
<1>4. PICK f \in [Nat -> V] : \A n \in Nat : Obeys(f, n, B, prev, start, op)
  BY <1>3
<1>5. ASSUME NEW n \in Nat PROVE f[n] = IF n < Radix THEN <<n>> ELSE Append(f[n \div Radix], n % Radix)
  <2>1. CASE n < Radix
    <3>1. n \in B
      BY <1>0, <2>1
    <3> QED
      BY <1>4, <2>1, <3>1 DEF Obeys
  <2>2. CASE ~(n < Radix)
    <3>1. n \notin B
      BY <1>0, <2>2
    <3>2. f[n] = op[<<n, f[n \div Radix]>>] /\ f[n \div Radix] \in V
      BY <1>1, <1>4, <3>1 DEF Obeys
    <3> HIDE DEF V
    <3> QED
      BY <2>2, <3>2
  <2> QED
    BY <2>1, <2>2
<1>6. Rule(f)
  BY <1>5
<1>7. Rule(it) /\ Digits = it
  <2>1. \E g : Rule(g)
    BY <1>6
  <2> QED
    BY <2>1 DEF Digits
<1>8. ASSUME NEW n \in Nat
      PROVE  Digits[n] = IF n < Radix THEN <<n>> ELSE Append(Digits[n \div Radix], n % Radix)
  <2> HIDE DEF it
  <2> QED
    BY <1>7
<1>9. ASSUME NEW n \in Nat PROVE Digits[n] \in V
  <2> DEFINE T == {i \in Nat : Digits[i] \notin V}
  <2>1. SUFFICES ASSUME T # {} PROVE FALSE
    OBVIOUS
  <2>2. PICK i \in T : \A j \in T : i <= j
    <3>1. T \in SUBSET Nat
      OBVIOUS
    <3> HIDE DEF T
    <3> QED
      BY <2>1, <3>1, Smallest
  <2>3. i \in Nat /\ Digits[i] \notin V /\ \A j \in Nat : j < i => Digits[j] \in V
    BY <2>2
  <2> HIDE DEF V
  <2>4. CASE i < Radix
    <3>1. Digits[i] = <<i>> /\ i \in 0..(Radix - 1)
      <4>1. i \in Nat
        BY <2>3
      <4>2. Digits[i] = <<i>>
        BY <1>8, <4>1, <2>4
      <4> QED
        BY <1>0, <2>4, <4>1, <4>2
    <3> QED
      BY <2>3, <3>1, SeqFacts DEF V
  <2>5. CASE ~(i < Radix)
    <3>1. i \div Radix \in Nat /\ i \div Radix < i /\ i % Radix \in 0..(Radix - 1)
      <4>1. i >= Radix
        BY <1>0, <2>3, <2>5
      <4> QED
        BY <1>1, <1>2, <2>3, <4>1
    <3>2. Digits[i \div Radix] \in V
      BY <2>3, <3>1
    <3>3. Digits[i] = Append(Digits[i \div Radix], i % Radix)
      BY <1>8, <2>3, <2>5
    <3> QED
      BY <2>3, <3>1, <3>2, <3>3, SeqFacts DEF V
  <2> QED
    BY <2>4, <2>5
<1> QED
  BY <1>8, <1>9

-----------------------------------------------------------------------------
(* Folds.                                                                  *)

\* What the largest index of a set is: folds take the indices of a sequence
\* from it on downwards.
LEMMA MaxIs ==
  ASSUME NEW n \in Nat, NEW s \in SUBSET (1..n), s # {}
  PROVE  Max(s) \in s /\ \A y \in s : Max(s) >= y
<1> DEFINE T == {n - x : x \in s}
<1>1. T \in SUBSET Nat /\ T # {}
  <2>1. \A x \in s : n - x \in Nat
    OBVIOUS
  <2> QED
    BY <2>1
<1>2. PICK t \in T : \A u \in T : t <= u
  <2> HIDE DEF T
  <2> QED
    BY <1>1, Smallest
<1>3. PICK x \in s : t = n - x
  OBVIOUS
<1>4. \A y \in s : x >= y
  <2>1. ASSUME NEW y \in s PROVE x >= y
    <3>1. n - y \in T
      OBVIOUS
    <3>2. n - x <= n - y
      BY <1>2, <1>3, <3>1
    <3> QED
      BY <3>2
  <2> QED
    BY <2>1
<1> QED
  BY <1>4 DEF Max

\* A prefix of the indices without its last one is the prefix before it.
LEMMA PrefixIs ==
  ASSUME NEW n \in Nat, NEW i \in 1..n
  PROVE  /\ 1..i \in SUBSET (1..n) /\ 1..i # {} /\ Max(1..i) = i
         /\ (1..i) \ {i} = 1..(i - 1) /\ i - 1 \in 0..n
<1>1. 1..i \in SUBSET (1..n) /\ i \in 1..i
  OBVIOUS
<1>2. Max(1..i) \in 1..i /\ \A y \in 1..i : Max(1..i) >= y
  BY <1>1, MaxIs
<1>3. Max(1..i) = i
  BY <1>1, <1>2
<1> QED
  BY <1>1, <1>3

\* g is the function behind a fold of 1..n, which takes c[s] from s.
Folds(g, n, base, op, c) ==
  \A s \in SUBSET (1..n) : g[s] = IF s = {} THEN base ELSE op[<<c[s], g[s \ {c[s]}]>>]

\* The function behind a fold exists, whichever element each step takes.
LEMMA FoldExists ==
  ASSUME NEW n \in Nat, NEW V, NEW base \in V, NEW op \in [(1..n) \X V -> V],
         NEW c, \A s \in SUBSET (1..n) : s # {} => c[s] \in s
  PROVE  \E g \in [SUBSET (1..n) -> V] : Folds(g, n, base, op, c)
<1> DEFINE D     == SUBSET (1..n)
           m     == [s \in D |-> Cardinality(s)]
           prev  == [s \in D |-> s \ {c[s]}]
           start == [s \in D |-> base]
           step  == [q \in D \X V |-> IF q[1] = {} THEN base ELSE op[<<c[q[1]], q[2]>>]]
<1>1. \A s \in D : IsFiniteSet(s) /\ Cardinality(s) \in Nat
  <2>1. 1 \in Int /\ n \in Int
    OBVIOUS
  <2>2. IsFiniteSet(1..n)
    BY <2>1, FS_Interval
  <2> QED
    BY <2>2, FS_Subset, FS_CardinalityType
<1>2. m \in [D -> Nat] /\ prev \in [D -> D] /\ start \in [D -> V]
  BY <1>1
<1>3. step \in [D \X V -> V]
  <2>1. ASSUME NEW q \in D \X V PROVE step[q] \in V
    <3>1. q[1] \in D /\ q[2] \in V
      OBVIOUS
    <3>2. CASE q[1] = {}
      BY <3>2
    <3>3. CASE q[1] # {}
      <4>1. <<c[q[1]], q[2]>> \in (1..n) \X V
        BY <3>1, <3>3
      <4> QED
        BY <3>3, <4>1
    <3> QED
      BY <3>2, <3>3
  <2> QED
    BY <2>1
<1>4. ASSUME NEW s \in D \ {{}} PROVE m[prev[s]] < m[s]
  <2>1. c[s] \in s /\ IsFiniteSet(s)
    BY <1>1
  <2>2. Cardinality(s \ {c[s]}) = Cardinality(s) - 1
    BY <2>1, FS_RemoveElement
  <2>3. m[s] = Cardinality(s) /\ m[prev[s]] = Cardinality(s \ {c[s]})
    OBVIOUS
  <2> QED
    BY <1>1, <2>2, <2>3
<1>5. \E g \in [D -> V] : \A s \in D : Obeys(g, s, {{}}, prev, start, step)
  <2> HIDE DEF D, m, prev, start, step
  <2> QED
    BY <1>2, <1>3, <1>4, RecursionExists
<1>6. PICK g \in [D -> V] : \A s \in D : Obeys(g, s, {{}}, prev, start, step)
  BY <1>5
<1>7. ASSUME NEW s \in D PROVE g[s] = IF s = {} THEN base ELSE op[<<c[s], g[s \ {c[s]}]>>]
  <2>1. CASE s = {}
    BY <1>6, <2>1 DEF Obeys
  <2>2. CASE s # {}
    <3>1. prev[s] = s \ {c[s]} /\ prev[s] \in D /\ g[prev[s]] \in V
      OBVIOUS
    <3>2. step[<<s, g[prev[s]]>>] = op[<<c[s], g[prev[s]]>>]
      BY <2>2, <3>1
    <3> HIDE DEF step, prev
    <3>3. g[s] = step[<<s, g[prev[s]]>>]
      BY <1>6, <2>2 DEF Obeys
    <3> QED
      BY <2>2, <3>1, <3>2, <3>3
  <2> QED
    BY <2>1, <2>2
<1> QED
  BY <1>7 DEF Folds

\* A fold from the left takes the last element first.
LeftFolds(g, n, base, op) ==
  \A s \in SUBSET (1..n) : g[s] = IF s = {} THEN base ELSE op[<<Max(s), g[s \ {Max(s)}]>>]

\* A fold over the indices of a sequence exists: the last one is taken first.
LEMMA LeftFoldExists ==
  ASSUME NEW n \in Nat, NEW V, NEW base \in V, NEW op \in [(1..n) \X V -> V]
  PROVE  \E g \in [SUBSET (1..n) -> V] : LeftFolds(g, n, base, op)
<1> DEFINE c == [s \in SUBSET (1..n) |-> Max(s)]
<1>1. \A s \in SUBSET (1..n) : c[s] = Max(s)
  OBVIOUS
<1>2. \A s \in SUBSET (1..n) : s # {} => c[s] \in s
  BY MaxIs
<1> HIDE DEF c
<1>3. PICK g \in [SUBSET (1..n) -> V] : Folds(g, n, base, op, c)
  BY <1>2, FoldExists
<1>4. LeftFolds(g, n, base, op)
  BY <1>1, <1>3 DEF Folds, LeftFolds
<1> QED
  BY <1>4

-----------------------------------------------------------------------------
(* Base 62.                                                                *)

\* What decoding a prefix gives.
Partial == {NoValue} \cup {Ok(k) : k \in Nat}

\* One digit more leaves a number, or the refusal.
LEMMA PushType ==
  ASSUME NEW p \in Partial, NEW v \in Nat
  PROVE  Push(p, v) \in Partial
<1>1. CASE p = NoValue
  BY <1>1 DEF Push, Partial, NoValue
<1>2. ASSUME NEW k \in Nat, p = Ok(k) PROVE Push(p, v) \in Partial
  <2>1. (k * Radix + v) % Word \in Nat
    BY CodecAssumption
  <2> QED
    BY <1>2, <2>1 DEF Push, Partial, Ok
<1> QED
  BY <1>1, <1>2 DEF Partial

PushFold(text, g) ==
  g = [s \in SUBSET (DOMAIN text) |->
         IF s = {} THEN Ok(0) ELSE LET x == Max(s) IN Push(g[s \ {x}], text[x])]

\* h[i] is what the loop of Decode has after i digits.
DecodeRun(text, h) ==
  h[0] = Ok(0) /\ \A i \in 1..Len(text) : h[i] = Push(h[i - 1], text[i])

\* Decode goes through its text from left to right.
LEMMA DecodeRuns ==
  ASSUME NEW text \in Seq(Nat)
  PROVE  \E h : DecodeRun(text, h) /\ FoldLeft(Push, Ok(0), text) = h[Len(text)]
<1> DEFINE n  == Len(text)
           op == [q \in (1..n) \X Partial |-> Push(q[2], text[q[1]])]
           it == CHOOSE g : PushFold(text, g)
           h  == [i \in 0..n |-> it[1..i]]
<1>1. n \in Nat /\ DOMAIN text = 1..n /\ \A i \in 1..n : text[i] \in Nat
  OBVIOUS
<1>2. op \in [(1..n) \X Partial -> Partial] /\ Ok(0) \in Partial
  BY <1>1, PushType DEF Partial
<1>3. \E g \in [SUBSET (1..n) -> Partial] : LeftFolds(g, n, Ok(0), op)
  <2> HIDE DEF op, n
  <2> QED
    BY <1>1, <1>2, LeftFoldExists
<1>4. PICK g \in [SUBSET (1..n) -> Partial] : LeftFolds(g, n, Ok(0), op)
  BY <1>3
<1>5. ASSUME NEW s \in SUBSET (1..n), s # {} PROVE g[s] = Push(g[s \ {Max(s)}], text[Max(s)])
  <2>1. Max(s) \in 1..n /\ g[s \ {Max(s)}] \in Partial
    BY <1>1, <1>5, MaxIs
  <2>2. op[<<Max(s), g[s \ {Max(s)}]>>] = Push(g[s \ {Max(s)}], text[Max(s)])
    BY <2>1
  <2> HIDE DEF op
  <2> QED
    BY <1>4, <1>5, <2>2 DEF LeftFolds
<1>6. PushFold(text, g)
  <2> HIDE DEF op
  <2> QED
    BY <1>1, <1>4, <1>5 DEF PushFold, LeftFolds
<1>7. PushFold(text, it)
  BY <1>6
<1>8. FoldLeft(Push, Ok(0), text) = it[DOMAIN text]
  BY DEF FoldLeft, MapThenFoldSet, PushFold
<1> HIDE DEF it
<1>9. it[{}] = Ok(0) /\ \A s \in SUBSET (1..n) : s # {} => it[s] = Push(it[s \ {Max(s)}], text[Max(s)])
  BY <1>1, <1>7 DEF PushFold
<1>10. h[0] = Ok(0)
  BY <1>1, <1>9
<1>11. ASSUME NEW i \in 1..n PROVE h[i] = Push(h[i - 1], text[i])
  <2>1. /\ 1..i \in SUBSET (1..n) /\ 1..i # {} /\ Max(1..i) = i
        /\ (1..i) \ {i} = 1..(i - 1) /\ i - 1 \in 0..n
    BY <1>1, PrefixIs
  <2>2. it[1..i] = Push(it[1..(i - 1)], text[i])
    BY <1>9, <2>1
  <2> QED
    BY <2>1, <2>2
<1>12. h[n] = it[DOMAIN text]
  BY <1>1
<1> QED
  BY <1>8, <1>10, <1>11, <1>12 DEF DecodeRun

\* One digit more.
LEMMA DecodeAppend ==
  ASSUME NEW text \in Seq(Nat), NEW v \in Nat
  PROVE  FoldLeft(Push, Ok(0), Append(text, v)) = Push(FoldLeft(Push, Ok(0), text), v)
<1> DEFINE n == Len(text)
           t == Append(text, v)
<1>1. /\ n \in Nat /\ t \in Seq(Nat) /\ Len(t) = n + 1 /\ t[n + 1] = v
      /\ \A i \in 1..n : t[i] = text[i]
  OBVIOUS
<1> HIDE DEF n, t
<1>2. PICK h : DecodeRun(text, h) /\ FoldLeft(Push, Ok(0), text) = h[Len(text)]
  BY DecodeRuns
<1>3. PICK k : DecodeRun(t, k) /\ FoldLeft(Push, Ok(0), t) = k[Len(t)]
  BY <1>1, DecodeRuns
<1> DEFINE P == {i \in 0..n : h[i] = k[i]}
<1>4. 0 \in P
  BY <1>1, <1>2, <1>3 DEF DecodeRun
<1>5. ASSUME NEW i \in 1..n, i - 1 \in P PROVE i \in P
  <2>1. i \in 1..Len(text) /\ i \in 1..Len(t) /\ t[i] = text[i]
    BY <1>1 DEF n
  <2>2. h[i] = Push(h[i - 1], text[i]) /\ k[i] = Push(k[i - 1], t[i])
    BY <1>2, <1>3, <2>1 DEF DecodeRun
  <2> QED
    BY <1>5, <2>1, <2>2
<1>6. h[n] = k[n]
  <2> HIDE DEF P
  <2>1. 0..n \subseteq P
    BY <1>1, <1>4, <1>5, UpTo
  <2>2. n \in 0..n
    BY <1>1
  <2> QED
    BY <2>1, <2>2 DEF P
<1>7. k[n + 1] = Push(k[n], v)
  <2>1. n + 1 \in 1..Len(t) /\ (n + 1) - 1 = n
    BY <1>1
  <2> QED
    BY <1>1, <1>3, <2>1 DEF DecodeRun
<1> QED
  BY <1>1, <1>2, <1>3, <1>6, <1>7 DEF n, t

\* The guard refuses exactly what does not fit in a word.
LEMMA PushFits ==
  ASSUME NEW k \in Nat, NEW v \in Nat
  PROVE  Push(Ok(k), v) = IF v < Radix /\ k * Radix + v < Word THEN Ok(k * Radix + v) ELSE NoValue
<1>1. Radix \in Nat \ {0} /\ Word \in Nat \ {0}
  BY CodecAssumption
<1>2. k > (Word - 1 - v) \div Radix <=> k * Radix + v >= Word
  BY <1>1
<1>3. k * Radix + v \in Nat
  BY <1>1
<1>4. k * Radix + v < Word => (k * Radix + v) % Word = k * Radix + v
  <2> DEFINE m == k * Radix + v
  <2>1. m \in Nat
    BY <1>3
  <2> HIDE DEF m
  <2>2. m < Word => m % Word = m
    BY <1>1, <2>1
  <2> QED
    BY <2>2 DEF m
<1>5. v >= Radix <=> ~(v < Radix)
  BY <1>1
<1>6. k * Radix + v >= Word <=> ~(k * Radix + v < Word)
  BY <1>1, <1>3
<1> QED
  BY <1>2, <1>4, <1>5, <1>6 DEF Push, Ok

\* Division by the radix: quotient and digit give the number back, and the
\* quotient is smaller.
LEMMA Division ==
  ASSUME NEW n \in Nat
  PROVE  /\ n \div Radix \in Nat /\ n % Radix \in 0..(Radix - 1)
         /\ n = (n % Radix) + (n \div Radix) * Radix
         /\ n >= Radix => n \div Radix < n /\ n \div Radix > 0
<1>1. Radix \in Nat /\ Radix > 1
  BY CodecAssumption
<1>2. n \div Radix \in Nat /\ n % Radix \in 0..(Radix - 1)
  BY <1>1
<1>3. n = (n % Radix) + (n \div Radix) * Radix
  <2>1. Radix \in Int /\ Radix > 0 /\ n \in Int
    BY <1>1
  <2> QED
    BY <2>1, SMTT(60)
<1>4. n >= Radix => n \div Radix < n /\ n \div Radix > 0
  BY <1>1
<1> QED
  BY <1>2, <1>3, <1>4

\* What Encode writes, Decode reads back, and it starts with a digit that counts.
LEMMA EncodeInverts ==
  ASSUME NEW n \in 0..(Word - 1)
  PROVE  /\ Digits[n] # <<>> /\ FoldLeft(Push, Ok(0), Digits[n]) = Ok(n)
         /\ Len(Digits[n]) > 1 => Digits[n][1] # 0
<1> DEFINE Right(m) == /\ Digits[m] # <<>> /\ FoldLeft(Push, Ok(0), Digits[m]) = Ok(m)
                       /\ m > 0 => Digits[m][1] # 0
                       /\ Len(Digits[m]) > 1 => m > 0
           T == {m \in 0..(Word - 1) : ~Right(m)}
<1>0. Radix \in Nat /\ Radix > 1 /\ Word \in Nat
  BY CodecAssumption
<1>1. SUFFICES Right(n)
  OBVIOUS
<1>2. SUFFICES ASSUME T # {} PROVE FALSE
  OBVIOUS
<1>3. PICK m \in T : \A j \in T : m <= j
  <2>1. T \in SUBSET Nat
    BY <1>0
  <2> HIDE DEF T
  <2> QED
    BY <1>2, <2>1, Smallest
<1>4. /\ m \in Nat /\ m < Word /\ ~Right(m)
      /\ \A j \in Nat : j < m => Right(j)
  BY <1>0, <1>3
<1> HIDE DEF T
<1>5. CASE m < Radix
  <2>1. Digits[m] = <<m>>
    BY <1>4, <1>5, DigitsIs
  <2>2. <<m>> = Append(<<>>, m) /\ <<>> \in Seq(Nat)
    OBVIOUS
  <2>3. FoldLeft(Push, Ok(0), <<m>>) = Push(FoldLeft(Push, Ok(0), <<>>), m)
    BY <1>4, <2>2, DecodeAppend
  <2>4. FoldLeft(Push, Ok(0), <<>>) = Ok(0)
    <3>1. PICK h : DecodeRun(<<>>, h) /\ FoldLeft(Push, Ok(0), <<>>) = h[Len(<<>>)]
      BY <2>2, DecodeRuns
    <3>2. Len(<<>>) = 0
      OBVIOUS
    <3> QED
      BY <3>1, <3>2 DEF DecodeRun
  <2>5. 0 * Radix + m = m
    BY <1>0, <1>4
  <2>6. Push(Ok(0), m) = Ok(m)
    BY <1>4, <1>5, <2>5, PushFits
  <2>7. Right(m)
    <3>1. FoldLeft(Push, Ok(0), Digits[m]) = Ok(m)
      BY <2>1, <2>3, <2>4, <2>6
    <3>2. <<m>> # <<>> /\ <<m>>[1] = m /\ Len(<<m>>) = 1
      OBVIOUS
    <3> QED
      BY <1>4, <2>1, <3>1, <3>2
  <2> QED
    BY <1>4, <2>7
<1>6. CASE ~(m < Radix)
  <2> DEFINE q == m \div Radix
             r == m % Radix
  <2>1. m >= Radix
    BY <1>0, <1>4, <1>6
  <2>2. q \in Nat /\ r \in 0..(Radix - 1) /\ q * Radix + r = m /\ q < m /\ q > 0
    <3>1. m \in Nat
      BY <1>4
    <3>2. q \in Nat /\ r \in 0..(Radix - 1)
      BY <3>1, Division
    <3>3. m = r + q * Radix
      BY <3>1, Division
    <3>4. q < m /\ q > 0
      BY <1>4, <2>1, Division
    <3> HIDE DEF q, r
    <3> QED
      BY <1>0, <3>1, <3>2, <3>3, <3>4
  <2>3. Digits[m] = Append(Digits[q], r)
    BY <1>4, <1>6, DigitsIs
  <2> HIDE DEF q, r
  <2>4. Right(q)
    BY <1>4, <2>2
  <2>5. Digits[q] \in Seq(0..(Radix - 1)) /\ Digits[q] \in Seq(Nat) /\ r \in Nat /\ r < Radix
    <3>1. Digits[q] \in Seq(0..(Radix - 1))
      BY <2>2, DigitsIs
    <3>2. r \in Nat /\ r < Radix
      BY <1>0, <2>2
    <3>3. Digits[q] \in Seq(Nat)
      BY <1>0, <3>1, SeqGrows
    <3> QED
      BY <3>1, <3>2, <3>3
  <2>6. FoldLeft(Push, Ok(0), Digits[m]) = Push(Ok(q), r)
    BY <2>3, <2>4, <2>5, DecodeAppend
  <2>7. Push(Ok(q), r) = Ok(m)
    BY <1>4, <2>2, <2>5, PushFits
  <2>8. Digits[m] # <<>> /\ Digits[m][1] = Digits[q][1]
    <3>1. Digits[q] # <<>>
      BY <2>4
    <3> DEFINE d == Digits[q]
    <3>2. d \in Seq(Nat) /\ d # <<>>
      BY <2>5, <3>1
    <3> HIDE DEF d
    <3>3. Append(d, r) # <<>> /\ Append(d, r)[1] = d[1]
      BY <2>5, <3>2
    <3> QED
      BY <2>3, <3>3 DEF d
  <2>9. Right(m)
    BY <2>2, <2>4, <2>6, <2>7, <2>8, <1>0, <2>1
  <2> QED
    BY <1>4, <2>9
<1> QED
  BY <1>5, <1>6

-----------------------------------------------------------------------------
(* Numbers: the sum over the positions, and the loop over the digits.      *)

\* g is the function behind the sum of w over 1..n.
SumFold(n, w, g) ==
  g = [s \in SUBSET (1..n) |->
         IF s = {} THEN 0 ELSE LET x == CHOOSE x \in s : TRUE IN w[x] + g[s \ {x}]]

SumRun(n, w, S) ==
  S \in [0..n -> Nat] /\ S[0] = 0 /\ \A i \in 1..n : S[i] = w[i] + S[i - 1]

\* A sum that may take its elements in any order.
Additive(n, w, g) ==
  g[{}] = 0 /\ \A s \in SUBSET (1..n) : \A x \in s : g[s] = w[x] + g[s \ {x}]

\* A sum that takes the largest index first may take any index first.
LEMMA LargestFirst ==
  ASSUME NEW n \in Nat, NEW w \in [1..n -> Nat], NEW g \in [SUBSET (1..n) -> Nat],
         g[{}] = 0,
         \A s \in SUBSET (1..n) : s # {} => g[s] = w[Max(s)] + g[s \ {Max(s)}]
  PROVE  Additive(n, w, g)
<1> DEFINE Bad(s) == \E x \in s : g[s] # w[x] + g[s \ {x}]
           T == {Max(s) : s \in {r \in SUBSET (1..n) : Bad(r)}}
<1>1. SUFFICES ASSUME NEW r \in SUBSET (1..n), Bad(r) PROVE FALSE
  BY DEF Additive
<1>2. T \in SUBSET Nat /\ T # {}
  <2>1. ASSUME NEW s \in SUBSET (1..n), Bad(s) PROVE Max(s) \in 1..n
    <3>1. s # {}
      BY <2>1
    <3> QED
      BY <3>1, MaxIs
  <2>2. T \subseteq 1..n
    <3> HIDE DEF Bad
    <3> QED
      BY <2>1
  <2>3. Max(r) \in T
    <3> HIDE DEF Bad
    <3> QED
      BY <1>1
  <2> HIDE DEF T
  <2> QED
    BY <2>2, <2>3
<1>3. PICK t \in T : \A u \in T : t <= u
  <2> HIDE DEF T
  <2> QED
    BY <1>2, Smallest
<1>4. PICK s \in SUBSET (1..n) : Bad(s) /\ t = Max(s)
  <2> HIDE DEF Bad
  <2> QED
    OBVIOUS
<1>5. PICK x \in s : g[s] # w[x] + g[s \ {x}]
  BY <1>4
<1> DEFINE M == Max(s)
<1>6. M \in s /\ \A y \in s : M >= y
  BY <1>5, MaxIs
<1> HIDE DEF M
<1>7. g[s] = w[M] + g[s \ {M}] /\ M # x
  BY <1>5 DEF M
<1>8. M \in 1..n /\ x \in 1..n /\ M \in Nat
  BY <1>6
<1> DEFINE a == s \ {M}
           b == s \ {x}
<1>9. /\ a \in SUBSET (1..n) /\ x \in a /\ a \subseteq s /\ M \notin a
      /\ b \in SUBSET (1..n) /\ M \in b /\ b \subseteq s
      /\ a \ {x} = b \ {M} /\ a \ {x} \in SUBSET (1..n)
  BY <1>6, <1>7
<1> HIDE DEF a, b
<1>10. Max(b) = M
  <2>1. Max(b) \in b /\ \A y \in b : Max(b) >= y
    BY <1>9, MaxIs
  <2>2. Max(b) \in 1..n /\ Max(b) >= M /\ M >= Max(b)
    BY <1>6, <1>9, <2>1
  <2> QED
    BY <1>8, <2>2
<1>11. g[b] = w[M] + g[b \ {M}]
  <2>1. b # {}
    BY <1>9
  <2> QED
    BY <1>9, <1>10, <2>1
<1>12. ~Bad(a)
  <2>1. Max(a) \in a
    BY <1>9, MaxIs
  <2>2. Max(a) \in 1..n /\ M >= Max(a) /\ Max(a) # M
    BY <1>6, <1>9, <2>1
  <2>3. Max(a) < M
    BY <1>8, <2>2
  <2>4. ASSUME Bad(a) PROVE FALSE
    <3>1. Max(a) \in T
      <4> HIDE DEF Bad
      <4> QED
        BY <1>9, <2>4
    <3> HIDE DEF T, Bad
    <3>2. t <= Max(a) /\ t = M
      BY <1>3, <1>4, <3>1 DEF M
    <3> QED
      BY <1>8, <2>2, <2>3, <3>2
  <2> QED
    BY <2>4
<1>13. g[a] = w[x] + g[a \ {x}]
  BY <1>9, <1>12
<1>14. w[x] \in Nat /\ w[M] \in Nat /\ g[a \ {x}] \in Nat
  BY <1>8, <1>9
<1>15. g[s] = w[M] + g[a] /\ g[s] # w[x] + g[b]
  BY <1>5, <1>7 DEF a, b
<1> DEFINE rest == g[a \ {x}]
<1>16. g[a] = w[x] + rest /\ g[b] = w[M] + rest /\ rest \in Nat
  BY <1>9, <1>11, <1>13, <1>14
<1> HIDE DEF T, Bad, rest
<1>17. w[M] + (w[x] + rest) = w[x] + (w[M] + rest)
  BY <1>14, <1>16
<1> QED
  BY <1>15, <1>16, <1>17, Zenon

\* The sum is well defined, and goes through the positions like a loop does.
LEMMA SumRuns ==
  ASSUME NEW n \in Nat, NEW w \in [1..n -> Nat]
  PROVE  /\ \E g : SumFold(n, w, g)
         /\ \E S : SumRun(n, w, S) /\ \A g : SumFold(n, w, g) => g[1..n] = S[n]
<1> DEFINE op == [q \in (1..n) \X Nat |-> w[q[1]] + q[2]]
           c  == [s \in SUBSET (1..n) |-> CHOOSE x \in s : TRUE]
<1>1. op \in [(1..n) \X Nat -> Nat]
  OBVIOUS
<1>2. \A x \in 1..n, v \in Nat : op[<<x, v>>] = w[x] + v
  OBVIOUS
<1>3. \A s \in SUBSET (1..n) : c[s] = CHOOSE x \in s : TRUE
  OBVIOUS
<1>4. \A s \in SUBSET (1..n) : s # {} => c[s] \in s
  OBVIOUS
<1> HIDE DEF op, c
<1>5. \E g : SumFold(n, w, g)
  <2>1. PICK g \in [SUBSET (1..n) -> Nat] : Folds(g, n, 0, op, c)
    BY <1>1, <1>4, FoldExists
  <2>2. ASSUME NEW s \in SUBSET (1..n), s # {} PROVE g[s] = w[c[s]] + g[s \ {c[s]}]
    <3>1. c[s] \in 1..n /\ g[s \ {c[s]}] \in Nat
      BY <1>4, <2>2
    <3> QED
      BY <1>2, <2>1, <2>2, <3>1 DEF Folds
  <2>3. g[{}] = 0
    BY <2>1 DEF Folds
  <2>4. SumFold(n, w, g)
    BY <1>3, <2>2, <2>3 DEF SumFold
  <2> QED
    BY <2>4
<1>6. PICK F \in [SUBSET (1..n) -> Nat] : LeftFolds(F, n, 0, op)
  BY <1>1, LeftFoldExists
<1>7. Additive(n, w, F)
  <2>1. ASSUME NEW s \in SUBSET (1..n), s # {} PROVE F[s] = w[Max(s)] + F[s \ {Max(s)}]
    <3>1. Max(s) \in 1..n /\ F[s \ {Max(s)}] \in Nat
      BY <2>1, MaxIs
    <3> QED
      BY <1>2, <1>6, <2>1, <3>1 DEF LeftFolds
  <2>2. F[{}] = 0
    BY <1>6 DEF LeftFolds
  <2> QED
    BY <2>1, <2>2, LargestFirst
<1> DEFINE S == [i \in 0..n |-> F[1..i]]
<1>8. SumRun(n, w, S)
  <2>1. S \in [0..n -> Nat]
    <3>1. \A i \in 0..n : 1..i \in SUBSET (1..n)
      OBVIOUS
    <3> QED
      BY <3>1
  <2>2. S[0] = 0
    <3>1. 1..0 = {} /\ 0 \in 0..n
      OBVIOUS
    <3> QED
      BY <1>7, <3>1 DEF Additive
  <2>3. ASSUME NEW i \in 1..n PROVE S[i] = w[i] + S[i - 1]
    <3>1. /\ 1..i \in SUBSET (1..n) /\ i \in 1..i /\ (1..i) \ {i} = 1..(i - 1)
          /\ i - 1 \in 0..n /\ i \in 0..n
      <4>1. i \in 1..i /\ i \in 0..n
        OBVIOUS
      <4> QED
        BY <4>1, PrefixIs
    <3>2. F[1..i] = w[i] + F[(1..i) \ {i}]
      BY <1>7, <3>1 DEF Additive
    <3> QED
      BY <3>1, <3>2
  <2> HIDE DEF S
  <2> QED
    BY <2>1, <2>2, <2>3 DEF SumRun
<1>9. ASSUME NEW g, SumFold(n, w, g) PROVE g[1..n] = S[n]
  <2> DEFINE Equal(i) == \A s \in SUBSET (1..n) : Cardinality(s) = i => g[s] = F[s]
             P == {i \in 0..n : Equal(i)}
  <2>1. \A s \in SUBSET (1..n) : IsFiniteSet(s) /\ Cardinality(s) \in 0..n
    <3>1. 1 \in Int /\ n \in Int /\ (1 > n <=> n = 0)
      OBVIOUS
    <3>2. IsFiniteSet(1..n) /\ Cardinality(1..n) = IF 1 > n THEN 0 ELSE n - 1 + 1
      BY <3>1, FS_Interval
    <3>3. Cardinality(1..n) = n
      BY <3>1, <3>2
    <3>4. \A s \in SUBSET (1..n) : IsFiniteSet(s) /\ Cardinality(s) <= n
      BY <3>2, <3>3, FS_Subset
    <3> QED
      BY <3>4, FS_CardinalityType
  <2>2. g[{}] = 0 /\ \A s \in SUBSET (1..n) : s # {} => \E x \in s : g[s] = w[x] + g[s \ {x}]
    <3>1. g[{}] = 0
      BY <1>9 DEF SumFold
    <3>2. ASSUME NEW s \in SUBSET (1..n), s # {} PROVE \E x \in s : g[s] = w[x] + g[s \ {x}]
      <4>1. g[s] = w[c[s]] + g[s \ {c[s]}]
        BY <1>3, <1>9, <3>2 DEF SumFold
      <4> QED
        BY <1>4, <3>2, <4>1
    <3> QED
      BY <3>1, <3>2
  <2>3. 0 \in P
    <3>1. \A s \in SUBSET (1..n) : Cardinality(s) = 0 => s = {}
      BY <2>1, FS_EmptySet
    <3>2. F[{}] = 0
      BY <1>7 DEF Additive
    <3>3. Equal(0)
      BY <2>2, <3>1, <3>2
    <3> QED
      BY <3>3
  <2>4. ASSUME NEW i \in 1..n, i - 1 \in P PROVE i \in P
    <3>1. ASSUME NEW s \in SUBSET (1..n), Cardinality(s) = i PROVE g[s] = F[s]
      <4>1. s # {}
        <5>1. Cardinality({}) = 0 /\ i # 0
          BY FS_EmptySet
        <5> QED
          BY <3>1, <5>1
      <4>2. PICK x \in s : g[s] = w[x] + g[s \ {x}]
        BY <2>2, <4>1
      <4>3. F[s] = w[x] + F[s \ {x}]
        BY <1>7 DEF Additive
      <4>4. Cardinality(s \ {x}) = i - 1 /\ s \ {x} \in SUBSET (1..n)
        BY <2>1, <3>1, FS_RemoveElement
      <4>5. g[s \ {x}] = F[s \ {x}]
        BY <2>4, <4>4
      <4> QED
        BY <4>2, <4>3, <4>5
    <3> QED
      BY <3>1
  <2>5. 0..n \subseteq P
    <3> HIDE DEF P
    <3> QED
      BY <2>3, <2>4, UpTo
  <2>6. \A s \in SUBSET (1..n) : g[s] = F[s]
    BY <2>1, <2>5
  <2>7. 1..n \in SUBSET (1..n) /\ n \in 0..n
    OBVIOUS
  <2> QED
    BY <2>6, <2>7
<1> QED
  BY <1>5, <1>8, <1>9

\* Products stay numbers.
LEMMA MulAdd ==
  ASSUME NEW x \in Nat, NEW y \in Nat, NEW z \in Nat
  PROVE  x * y \in Nat /\ x * y + z \in Nat
OBVIOUS

\* What strconv computes, digit by digit.
Loop(text, base) == FoldLeft(LAMBDA n, d : n * base + d, 0, text)

LoopFold(text, base, g) ==
  g = [s \in SUBSET (DOMAIN text) |->
         IF s = {} THEN 0 ELSE LET x == Max(s) IN g[s \ {x}] * base + text[x]]

\* k[i] is what the first i digits write.
LoopRun(text, base, k) ==
  /\ k \in [0..Len(text) -> Nat] /\ k[0] = 0
  /\ \A i \in 1..Len(text) : k[i] = k[i - 1] * base + text[i]

\* The loop of strconv goes through its digits from left to right.
LEMMA LoopRuns ==
  ASSUME NEW text \in Seq(Nat), NEW base \in Nat
  PROVE  \E k : LoopRun(text, base, k) /\ Loop(text, base) = k[Len(text)]
<1> DEFINE n  == Len(text)
           op == [q \in (1..n) \X Nat |-> q[2] * base + text[q[1]]]
           it == CHOOSE g : LoopFold(text, base, g)
           k  == [i \in 0..n |-> it[1..i]]
<1>1. n \in Nat /\ DOMAIN text = 1..n /\ \A i \in 1..n : text[i] \in Nat
  OBVIOUS
<1> HIDE DEF n
<1>2. op \in [(1..n) \X Nat -> Nat] /\ \A x \in 1..n, v \in Nat : op[<<x, v>>] = v * base + text[x]
  <2>1. ASSUME NEW q \in (1..n) \X Nat PROVE q[2] * base + text[q[1]] \in Nat
    <3>1. q[2] \in Nat /\ text[q[1]] \in Nat
      BY <1>1
    <3> QED
      BY <3>1, MulAdd
  <2>2. op \in [(1..n) \X Nat -> Nat]
    BY <2>1
  <2>3. \A x \in 1..n, v \in Nat : op[<<x, v>>] = v * base + text[x]
    OBVIOUS
  <2> HIDE DEF op
  <2> QED
    BY <2>2, <2>3
<1> HIDE DEF op
<1>3. PICK g \in [SUBSET (1..n) -> Nat] : LeftFolds(g, n, 0, op)
  BY <1>1, <1>2, LeftFoldExists
<1>4. ASSUME NEW s \in SUBSET (1..n), s # {} PROVE g[s] = g[s \ {Max(s)}] * base + text[Max(s)]
  <2>1. Max(s) \in 1..n /\ g[s \ {Max(s)}] \in Nat
    BY <1>1, <1>4, MaxIs
  <2> QED
    BY <1>2, <1>3, <1>4, <2>1 DEF LeftFolds
<1>5. g[{}] = 0
  BY <1>3 DEF LeftFolds
<1>6. LoopFold(text, base, g)
  BY <1>1, <1>4, <1>5 DEF LoopFold
<1>7. LoopFold(text, base, it)
  BY <1>6
<1>8. Loop(text, base) = it[DOMAIN text]
  BY DEF Loop, FoldLeft, MapThenFoldSet, LoopFold
<1> HIDE DEF it
<1>9. it[{}] = 0 /\ \A s \in SUBSET (1..n) : s # {} => it[s] = it[s \ {Max(s)}] * base + text[Max(s)]
  BY <1>1, <1>7 DEF LoopFold
<1>10. k[0] = 0
  BY <1>1, <1>9
<1>11. ASSUME NEW i \in 1..n PROVE k[i] = k[i - 1] * base + text[i]
  <2>1. /\ 1..i \in SUBSET (1..n) /\ 1..i # {} /\ Max(1..i) = i
        /\ (1..i) \ {i} = 1..(i - 1) /\ i - 1 \in 0..n
    BY <1>1, PrefixIs
  <2>2. it[1..i] = it[1..(i - 1)] * base + text[i]
    BY <1>9, <2>1
  <2>3. i \in 0..n
    OBVIOUS
  <2> QED
    BY <2>1, <2>2, <2>3
<1>12. k[n] = it[DOMAIN text]
  BY <1>1
<1> DEFINE P == {i \in 0..n : k[i] \in Nat}
<1>13. k \in [0..n -> Nat]
  <2>1. k = [i \in 0..n |-> k[i]]
    OBVIOUS
  <2> HIDE DEF k
  <2>2. 0 \in P
    BY <1>1, <1>10
  <2>3. ASSUME NEW i \in 1..n, i - 1 \in P PROVE i \in P
    <3>1. k[i - 1] \in Nat /\ text[i] \in Nat
      BY <1>1, <2>3
    <3>2. k[i - 1] * base + text[i] \in Nat
      BY <3>1, MulAdd
    <3> QED
      BY <1>11, <3>2
  <2>4. 0..n \subseteq P
    <3> HIDE DEF P
    <3> QED
      BY <1>1, <2>2, <2>3, UpTo
  <2> QED
    BY <2>1, <2>4
<1> HIDE DEF k
<1>14. LoopRun(text, base, k)
  BY <1>10, <1>11, <1>13 DEF LoopRun, n
<1> QED
  BY <1>8, <1>12, <1>14 DEF n

NumberFold(text, base, g) ==
  g = [s \in SUBSET (DOMAIN text) |->
         IF s = {} THEN 0
         ELSE LET x == CHOOSE x \in s : TRUE
              IN  text[x] * Power(base, Len(text) - x) + g[s \ {x}]]

\* The loop computes the number that the text writes.
LEMMA LoopIsNumber ==
  ASSUME NEW text \in Seq(Nat), NEW base \in Nat, NEW k, LoopRun(text, base, k)
  PROVE  NumberOf(text, base) = k[Len(text)]
<1> DEFINE n  == Len(text)
           w  == [i \in 1..n |-> text[i] * Power(base, n - i)]
           it == CHOOSE g : NumberFold(text, base, g)
<1>1. n \in Nat /\ DOMAIN text = 1..n /\ \A i \in 1..n : text[i] \in Nat
  OBVIOUS
<1>2. \A i \in 0..n : Power(base, n - i) \in Nat
  <2>1. \A i \in 0..n : n - i \in Nat
    BY <1>1
  <2> QED
    BY <2>1, PowerIs
<1>3. w \in [1..n -> Nat]
  <2>1. ASSUME NEW i \in 1..n PROVE text[i] * Power(base, n - i) \in Nat
    BY <1>1, <1>2
  <2> QED
    BY <2>1
<1>4. \A g : NumberFold(text, base, g) <=> SumFold(n, w, g)
  <2>1. ASSUME NEW s \in SUBSET (1..n), s # {}, NEW g
        PROVE  LET x == CHOOSE x \in s : TRUE
               IN  text[x] * Power(base, n - x) + g[s \ {x}] = w[x] + g[s \ {x}]
    <3> DEFINE x == CHOOSE x \in s : TRUE
    <3>1. x \in 1..n
      BY <2>1
    <3>2. w[x] = text[x] * Power(base, n - x)
      BY <3>1
    <3> HIDE DEF w
    <3> QED
      BY <3>2
  <2> DEFINE A(g, s) == IF s = {} THEN 0 ELSE LET x == CHOOSE x \in s : TRUE
                                              IN  text[x] * Power(base, n - x) + g[s \ {x}]
             C(g, s) == IF s = {} THEN 0 ELSE LET x == CHOOSE x \in s : TRUE IN w[x] + g[s \ {x}]
  <2>2. ASSUME NEW g, NEW s \in SUBSET (1..n) PROVE A(g, s) = C(g, s)
    <3> HIDE DEF w
    <3> QED
      BY <2>1
  <2>3. ASSUME NEW g PROVE [s \in SUBSET (1..n) |-> A(g, s)] = [s \in SUBSET (1..n) |-> C(g, s)]
    <3> HIDE DEF A, C
    <3> QED
      BY <2>2
  <2>4. \A g : NumberFold(text, base, g) <=> g = [s \in SUBSET (1..n) |-> A(g, s)]
    BY <1>1 DEF NumberFold
  <2>5. \A g : SumFold(n, w, g) <=> g = [s \in SUBSET (1..n) |-> C(g, s)]
    <3> HIDE DEF w
    <3> QED
      BY DEF SumFold
  <2> HIDE DEF A, C, w, n
  <2> QED
    BY <2>3, <2>4, <2>5
<1>5. (\E g : SumFold(n, w, g))
      /\ \E S : SumRun(n, w, S) /\ \A g : SumFold(n, w, g) => g[1..n] = S[n]
  <2> HIDE DEF w, n
  <2> QED
    BY <1>1, <1>3, SumRuns
<1>6. PICK S : SumRun(n, w, S) /\ \A g : SumFold(n, w, g) => g[1..n] = S[n]
  BY <1>5
<1>7. NumberFold(text, base, it)
  <2> HIDE DEF w, n
  <2>1. \E g : NumberFold(text, base, g)
    BY <1>4, <1>5
  <2> QED
    BY <2>1
<1>8. NumberOf(text, base) = it[DOMAIN text]
  BY DEF NumberOf, MapThenSumSet, MapThenFoldSet, NumberFold
<1> HIDE DEF it
<1>9. NumberOf(text, base) = S[n]
  <2> HIDE DEF w, n
  <2> QED
    BY <1>1, <1>4, <1>6, <1>7, <1>8
<1> DEFINE P == {i \in 0..n : S[i] = k[i] * Power(base, n - i)}
<1>10. n \in P
  <2>1. 0 \in P
    <3>1. k[0] = 0 /\ S[0] = 0 /\ Power(base, n - 0) \in Nat
      BY <1>1, <1>2, <1>6 DEF LoopRun, SumRun
    <3>2. 0 * Power(base, n - 0) = 0
      BY <3>1
    <3> QED
      BY <1>1, <3>1, <3>2
  <2>2. ASSUME NEW i \in 1..n, i - 1 \in P PROVE i \in P
    <3> DEFINE b == Power(base, n - i)
    <3>1. b \in Nat /\ Power(base, n - (i - 1)) = base * b
      <4>1. n - i \in Nat /\ n - (i - 1) = (n - i) + 1
        BY <1>1
      <4> QED
        BY <4>1, PowerIs
    <3>2. /\ k[i] = k[i - 1] * base + text[i] /\ k[i - 1] \in Nat /\ text[i] \in Nat
      <4>1. i - 1 \in 0..n /\ text[i] \in Nat
        BY <1>1
      <4> QED
        BY <4>1 DEF LoopRun
    <3>3. S[i] = text[i] * b + S[i - 1]
      <4>1. S[i] = w[i] + S[i - 1]
        <5> HIDE DEF w
        <5> QED
          BY <1>6 DEF SumRun
      <4> QED
        BY <4>1
    <3>4. S[i - 1] = k[i - 1] * (base * b)
      BY <2>2, <3>1
    <3> HIDE DEF b, w, n
    <3>5. text[i] * b + k[i - 1] * (base * b) = (k[i - 1] * base + text[i]) * b
      BY <3>1, <3>2
    <3> QED
      BY <3>2, <3>3, <3>4, <3>5 DEF b
  <2> HIDE DEF P, w, n
  <2>3. 0..n \subseteq P
    BY <1>1, <2>1, <2>2, UpTo
  <2> QED
    BY <1>1, <2>3
<1>11. Power(base, n - n) = 1
  <2>1. n - n = 0
    BY <1>1
  <2> QED
    BY <2>1, PowerIs
<1>12. k[n] \in Nat /\ S[n] = k[n] * 1
  BY <1>1, <1>10, <1>11 DEF LoopRun
<1> QED
  BY <1>9, <1>12

\* A text of digits is decoded to its number if that fits in a word; else it is refused.
LEMMA DecodeIs ==
  ASSUME NEW text \in Seq(Nat)
  PROVE  FoldLeft(Push, Ok(0), text) =
           IF (\A d \in Range(text) : d < Radix) /\ NumberOf(text, Radix) < Word
           THEN Ok(NumberOf(text, Radix)) ELSE NoValue
<1> DEFINE n == Len(text)
           Valid(i) == \A j \in 1..i : text[j] < Radix
<1>0. Radix \in Nat /\ Radix > 1 /\ Word \in Nat /\ Word > 0
  BY CodecAssumption
<1>1. n \in Nat /\ DOMAIN text = 1..n /\ \A i \in 1..n : text[i] \in Nat
  OBVIOUS
<1>2. PICK h : DecodeRun(text, h) /\ FoldLeft(Push, Ok(0), text) = h[n]
  BY DecodeRuns
<1>3. PICK k : LoopRun(text, Radix, k)
  BY <1>0, LoopRuns
<1>4. NumberOf(text, Radix) = k[n]
  BY <1>0, <1>3, LoopIsNumber
<1>5. \A i \in 0..n : k[i] \in Nat
  BY <1>3 DEF LoopRun
<1> DEFINE Right(i) == h[i] = IF Valid(i) /\ k[i] < Word THEN Ok(k[i]) ELSE NoValue
           P == {i \in 0..n : Right(i)}
<1>6. 0 \in P
  <2>1. h[0] = Ok(0) /\ k[0] = 0 /\ Valid(0)
    BY <1>2, <1>3 DEF DecodeRun, LoopRun
  <2> QED
    BY <1>0, <1>1, <2>1
<1>7. ASSUME NEW i \in 1..n, i - 1 \in P PROVE i \in P
  <2> DEFINE a == k[i - 1]
             v == text[i]
  <2>1. a \in Nat /\ v \in Nat /\ k[i] = a * Radix + v /\ i - 1 \in 0..n
    BY <1>1, <1>3, <1>5 DEF LoopRun
  <2>2. h[i] = Push(h[i - 1], v)
    BY <1>2 DEF DecodeRun
  <2>3. Right(i - 1)
    BY <1>7
  <2>4. Valid(i) <=> Valid(i - 1) /\ v < Radix
    <3>1. 1..i = (1..(i - 1)) \cup {i}
      OBVIOUS
    <3> QED
      BY <3>1
  <2> HIDE DEF a, v, Valid, P
  <2>5. a <= a * Radix + v
    BY <1>0, <2>1
  <2>6. CASE Valid(i - 1) /\ a < Word
    <3>1. h[i] = Push(Ok(a), v)
      BY <2>2, <2>3, <2>6 DEF a
    <3> QED
      BY <2>1, <2>4, <2>6, <3>1, PushFits DEF P
  <2>7. CASE ~(Valid(i - 1) /\ a < Word)
    <3>1. h[i] = Push(NoValue, v)
      BY <2>2, <2>3, <2>7 DEF a
    <3>2. Push(NoValue, v) = NoValue
      BY DEF Push, NoValue
    <3>3. ~(Valid(i) /\ k[i] < Word)
      <4>1. CASE ~Valid(i - 1)
        BY <2>4, <4>1
      <4>2. CASE ~(a < Word)
        <5>1. a * Radix + v \in Nat
          BY <1>0, <2>1, MulAdd
        <5> QED
          BY <1>0, <2>1, <2>5, <4>2, <5>1
      <4> QED
        BY <2>7, <4>1, <4>2
    <3> QED
      BY <3>1, <3>2, <3>3 DEF P
  <2> QED
    BY <2>6, <2>7
<1>8. Right(n)
  <2> HIDE DEF P, Right
  <2>1. 0..n \subseteq P
    BY <1>1, <1>6, <1>7, UpTo
  <2> QED
    BY <1>1, <2>1 DEF P
<1>9. Valid(n) <=> \A d \in Range(text) : d < Radix
  BY <1>1 DEF Range
<1> HIDE DEF n, Valid
<1> QED
  BY <1>2, <1>4, <1>8, <1>9

-----------------------------------------------------------------------------
(* Addresses.                                                              *)

WellFormed(part) == part.digits # <<>> /\ \A d \in Range(part.digits) : d < Radixes[part.prefix]
Number(part)     == NumberOf(part.digits, Radixes[part.prefix])

\* parseLooseUint accepts what has digits and only digits of its base, and
\* gives the number they spell.
LEMMA UintIs ==
  ASSUME NEW part \in NumberTexts
  PROVE  /\ ParseLooseUint(part) = IF WellFormed(part) THEN Ok(Number(part)) ELSE NoValue
         /\ Number(part) \in Nat
<1> DEFINE base == Radixes[part.prefix]
           text == part.digits
<1>1. base \in Nat /\ text \in Seq(Nat)
  BY SampleAssumption
<1> HIDE DEF base, text
<1>2. PICK k : LoopRun(text, base, k) /\ Loop(text, base) = k[Len(text)]
  BY <1>1, LoopRuns
<1>3. NumberOf(text, base) = k[Len(text)]
  BY <1>1, <1>2, LoopIsNumber
<1>4. k[Len(text)] \in Nat
  BY <1>1, <1>2 DEF LoopRun
<1>5. (\E d \in Range(text) : d >= base) <=> ~(\A d \in Range(text) : d < base)
  <2>1. \A d \in Range(text) : d \in Nat
    BY <1>1 DEF Range
  <2> QED
    BY <1>1, <2>1
<1>6. ParseLooseUint(part) = IF text = <<>> \/ \E d \in Range(text) : d >= base THEN NoValue
                             ELSE Ok(Loop(text, base))
  BY DEF ParseLooseUint, Loop, text, base, FoldLeft, MapThenFoldSet
<1>7. Number(part) = NumberOf(text, base)
      /\ (WellFormed(part) <=> text # <<>> /\ \A d \in Range(text) : d < base)
  BY DEF Number, WellFormed, text, base
<1> QED
  BY <1>2, <1>3, <1>4, <1>5, <1>6, <1>7

\* All parts of an address but the last are a byte each.
HeadSum(parts) == MapThenSumSet(LAMBDA i : Number(parts[i]) * Bytes(4 - i), 1..(Len(parts) - 1))
Address(parts) == HeadSum(parts) + Number(parts[Len(parts)])
Written(parts) ==
  /\ Len(parts) <= 4
  /\ \A p \in Range(parts) : WellFormed(p)
  /\ \A i \in 1..(Len(parts) - 1) : Number(parts[i]) < ByteSize
  /\ Number(parts[Len(parts)]) < Bytes(5 - Len(parts))

HeadFold(parts, g) ==
  g = [s \in SUBSET (1..(Len(parts) - 1)) |->
         IF s = {} THEN 0
         ELSE LET x == CHOOSE x \in s : TRUE
              IN  Number(parts[x]) * Bytes(4 - x) + g[s \ {x}]]

\* The parts before the last one fill one byte each, the first one highest.
LEMMA HeadIs ==
  ASSUME NEW n \in 1..4, NEW parts \in [1..n -> NumberTexts]
  PROVE  LET byte(i) == Number(parts[i]) * Bytes(4 - i)
         IN  /\ n = 1 => HeadSum(parts) = 0
             /\ n = 2 => HeadSum(parts) = byte(1)
             /\ n = 3 => HeadSum(parts) = byte(1) + byte(2)
             /\ n = 4 => HeadSum(parts) = byte(1) + byte(2) + byte(3)
             /\ HeadSum(parts) \in Nat
<1> DEFINE m  == n - 1
           w  == [i \in 1..m |-> Number(parts[i]) * Bytes(4 - i)]
           it == CHOOSE g : HeadFold(parts, g)
<1>1. m \in 0..3 /\ Len(parts) = n /\ Len(parts) - 1 = m
  OBVIOUS
<1>2. ASSUME NEW i \in 1..m PROVE Number(parts[i]) * Bytes(4 - i) \in Nat
  <2>1. parts[i] \in NumberTexts /\ 4 - i \in Nat
    OBVIOUS
  <2>2. Number(parts[i]) \in Nat /\ Bytes(4 - i) \in Nat
    BY <2>1, UintIs, PowerIs, CodecAssumption DEF Bytes
  <2> QED
    BY <2>2, MulAdd
<1>3. w \in [1..m -> Nat]
  BY <1>2
<1>4. \A g : HeadFold(parts, g) <=> SumFold(m, w, g)
  <2> DEFINE A(g, s) == IF s = {} THEN 0 ELSE LET x == CHOOSE x \in s : TRUE
                                              IN  Number(parts[x]) * Bytes(4 - x) + g[s \ {x}]
             C(g, s) == IF s = {} THEN 0 ELSE LET x == CHOOSE x \in s : TRUE IN w[x] + g[s \ {x}]
  <2>1. ASSUME NEW g, NEW s \in SUBSET (1..m) PROVE A(g, s) = C(g, s)
    <3>1. CASE s = {}
      BY <3>1
    <3>2. CASE s # {}
      <4> DEFINE x == CHOOSE x \in s : TRUE
      <4>1. x \in 1..m
        BY <3>2
      <4>2. w[x] = Number(parts[x]) * Bytes(4 - x)
        BY <4>1
      <4> HIDE DEF w
      <4> QED
        BY <3>2, <4>2
    <3> QED
      BY <3>1, <3>2
  <2>2. ASSUME NEW g PROVE [s \in SUBSET (1..m) |-> A(g, s)] = [s \in SUBSET (1..m) |-> C(g, s)]
    <3> HIDE DEF A, C
    <3> QED
      BY <2>1
  <2>3. \A g : HeadFold(parts, g) <=> g = [s \in SUBSET (1..m) |-> A(g, s)]
    <3> HIDE DEF m
    <3> QED
      BY <1>1 DEF HeadFold
  <2>4. \A g : SumFold(m, w, g) <=> g = [s \in SUBSET (1..m) |-> C(g, s)]
    <3> HIDE DEF w
    <3> QED
      BY DEF SumFold
  <2> HIDE DEF A, C, w, m
  <2>5. ASSUME NEW g PROVE HeadFold(parts, g) <=> SumFold(m, w, g)
    <3> DEFINE fA == [s \in SUBSET (1..m) |-> A(g, s)]
               fC == [s \in SUBSET (1..m) |-> C(g, s)]
    <3>1. (HeadFold(parts, g) <=> g = fA) /\ (SumFold(m, w, g) <=> g = fC) /\ fA = fC
      BY <2>2, <2>3, <2>4, Zenon
    <3> HIDE DEF fA, fC
    <3> QED
      BY <3>1
  <2> QED
    BY <2>5
<1> HIDE DEF m
<1>5. (\E g : SumFold(m, w, g))
      /\ \E S : SumRun(m, w, S) /\ \A g : SumFold(m, w, g) => g[1..m] = S[m]
  <2>1. m \in Nat
    BY <1>1
  <2> HIDE DEF w
  <2> QED
    BY <1>3, <2>1, SumRuns
<1>6. PICK S : SumRun(m, w, S) /\ \A g : SumFold(m, w, g) => g[1..m] = S[m]
  BY <1>5
<1>7. HeadFold(parts, it)
  <2> HIDE DEF w
  <2>1. \E g : HeadFold(parts, g)
    BY <1>4, <1>5
  <2> QED
    BY <2>1
<1>8. HeadSum(parts) = it[1..(Len(parts) - 1)]
  BY DEF HeadSum, MapThenSumSet, MapThenFoldSet, HeadFold
<1> HIDE DEF it
<1>9. HeadSum(parts) = S[m]
  <2> HIDE DEF w
  <2> QED
    BY <1>1, <1>4, <1>6, <1>7, <1>8
<1>10. S \in [0..m -> Nat] /\ S[0] = 0 /\ \A i \in 1..m : S[i] = w[i] + S[i - 1]
  BY <1>6 DEF SumRun
<1>11. \A i \in 1..m : S[i] = Number(parts[i]) * Bytes(4 - i) + S[i - 1] /\ S[i - 1] \in Nat
  <2>1. \A i \in 1..m : i - 1 \in 0..m
    BY <1>1
  <2> QED
    BY <1>10, <2>1
<1> HIDE DEF w
<1>12. HeadSum(parts) \in Nat
  BY <1>1, <1>9, <1>10
<1> DEFINE byte(i) == Number(parts[i]) * Bytes(4 - i)
<1>13. \A i \in 1..m : S[i] = byte(i) + S[i - 1] /\ byte(i) \in Nat /\ S[i - 1] \in Nat
  BY <1>2, <1>11
<1> HIDE DEF byte
<1>14. CASE n = 1
  <2>1. m = 0
    BY <1>14 DEF m
  <2> QED
    BY <1>9, <1>10, <1>12, <1>14, <2>1
<1>15. CASE n = 2
  <2>1. m = 1 /\ 1 \in 1..1 /\ 1 - 1 = 0
    BY <1>15 DEF m
  <2>2. S[1] = byte(1) + 0 /\ byte(1) \in Nat
    BY <1>10, <1>13, <2>1
  <2>3. HeadSum(parts) = byte(1)
    BY <1>9, <2>1, <2>2
  <2> QED
    BY <1>12, <1>15, <2>3 DEF byte
<1>16. CASE n = 3
  <2>1. m = 2 /\ 1 \in 1..2 /\ 2 \in 1..2 /\ 1 - 1 = 0 /\ 2 - 1 = 1
    BY <1>16 DEF m
  <2>2. S[1] = byte(1) + 0 /\ byte(1) \in Nat
    BY <1>10, <1>13, <2>1
  <2>3. S[2] = byte(2) + S[1] /\ byte(2) \in Nat
    BY <1>13, <2>1
  <2>4. HeadSum(parts) = byte(1) + byte(2)
    BY <1>9, <2>1, <2>2, <2>3
  <2> QED
    BY <1>12, <1>16, <2>4 DEF byte
<1>17. CASE n = 4
  <2>1. m = 3 /\ 1 \in 1..3 /\ 2 \in 1..3 /\ 3 \in 1..3 /\ 1 - 1 = 0 /\ 2 - 1 = 1 /\ 3 - 1 = 2
    BY <1>17 DEF m
  <2>2. S[1] = byte(1) + 0 /\ byte(1) \in Nat
    BY <1>10, <1>13, <2>1
  <2>3. S[2] = byte(2) + S[1] /\ byte(2) \in Nat
    BY <1>13, <2>1
  <2>4. S[3] = byte(3) + S[2] /\ byte(3) \in Nat
    BY <1>13, <2>1
  <2>5. HeadSum(parts) = byte(1) + byte(2) + byte(3)
    BY <1>9, <2>1, <2>2, <2>3, <2>4
  <2> QED
    BY <1>12, <1>17, <2>5 DEF byte
<1> QED
  BY <1>14, <1>15, <1>16, <1>17

\* What is parsed is the address that is written, and nothing else.
LEMMA AddressIs ==
  ASSUME NEW n \in 1..5, NEW parts \in [1..n -> NumberTexts]
  PROVE  /\ ParseLooseIPv4(parts) = IF Written(parts) THEN Ok(Address(parts)) ELSE NoValue
         /\ Written(parts) => Address(parts) \in Nat
<1> DEFINE vals == [i \in DOMAIN parts |-> ParseLooseUint(parts[i])]
<1>1. Len(parts) = n /\ DOMAIN parts = 1..n
  OBVIOUS
<1>2. \A i \in 1..n : parts[i] \in NumberTexts
  OBVIOUS
<1>3. \A i \in 1..n : vals[i] = IF WellFormed(parts[i]) THEN Ok(Number(parts[i])) ELSE NoValue
  BY <1>1, <1>2, UintIs
<1>4. Range(parts) = {parts[i] : i \in 1..n} /\ Range(vals) = {vals[i] : i \in 1..n}
  BY <1>1 DEF Range
<1> HIDE DEF vals
<1>5. (\E v \in Range(vals) : ~v.ok) <=> ~(\A p \in Range(parts) : WellFormed(p))
  <2>1. \A i \in 1..n : vals[i].ok <=> WellFormed(parts[i])
    <3>1. \A x : Ok(x).ok = TRUE
      BY DEF Ok
    <3>2. NoValue.ok = FALSE
      BY DEF NoValue
    <3> QED
      BY <1>3, <3>1, <3>2
  <2>2. (\E v \in Range(vals) : ~v.ok) <=> \E i \in 1..n : ~vals[i].ok
    BY <1>4
  <2>3. (\A p \in Range(parts) : WellFormed(p)) <=> \A i \in 1..n : WellFormed(parts[i])
    BY <1>4
  <2> QED
    BY <2>1, <2>2, <2>3
<1>6. CASE n = 5 \/ ~(\A p \in Range(parts) : WellFormed(p))
  <2>1. ~Written(parts)
    BY <1>1, <1>6 DEF Written
  <2>2. ParseLooseIPv4(parts) = NoValue
    BY <1>1, <1>5, <1>6 DEF ParseLooseIPv4, vals
  <2> QED
    BY <2>1, <2>2
<1>7. CASE n # 5 /\ \A p \in Range(parts) : WellFormed(p)
  <2>1. n \in 1..4 /\ ~(Len(parts) > 4) /\ Len(parts) <= 4
    BY <1>1, <1>7
  <2>2. \A i \in 1..n : vals[i].of = Number(parts[i]) /\ Number(parts[i]) \in Nat
    BY <1>2, <1>3, <1>4, <1>7, UintIs DEF Ok
  <2> DEFINE byte(i) == Number(parts[i]) * Bytes(4 - i)
             when(ok, x) == IF ok THEN Ok(x) ELSE NoValue
             fits(i, k) == Number(parts[i]) < Bytes(k)
  <2>3. ParseLooseIPv4(parts) =
          CASE n = 1 -> when(vals[1].of < Bytes(4), vals[1].of)
            [] n = 2 -> when(vals[1].of < Bytes(1) /\ vals[2].of < Bytes(3),
                             vals[1].of * Bytes(4 - 1) + vals[2].of)
            [] n = 3 -> when(vals[1].of < Bytes(1) /\ vals[2].of < Bytes(1) /\ vals[3].of < Bytes(2),
                             vals[1].of * Bytes(4 - 1) + vals[2].of * Bytes(4 - 2) + vals[3].of)
            [] n = 4 -> when(\A i \in 1..4 : vals[i].of < Bytes(1),
                             vals[1].of * Bytes(4 - 1) + vals[2].of * Bytes(4 - 2)
                               + vals[3].of * Bytes(4 - 3) + vals[4].of)
    BY <1>1, <1>5, <1>7, <2>1 DEF ParseLooseIPv4, vals
  <2>4. Bytes(1) = ByteSize
    <3>1. ByteSize \in Nat /\ 0 \in Nat /\ 0 + 1 = 1
      BY CodecAssumption
    <3>2. Power(ByteSize, 0) = 1 /\ Power(ByteSize, 0 + 1) = ByteSize * Power(ByteSize, 0)
      BY <3>1, PowerIs
    <3>3. Power(ByteSize, 1) = ByteSize * 1
      BY <3>1, <3>2
    <3> QED
      BY <3>1, <3>3 DEF Bytes
  <2>5. Written(parts) <=> (\A i \in 1..(n - 1) : Number(parts[i]) < ByteSize)
                             /\ Number(parts[n]) < Bytes(5 - n)
    BY <1>1, <1>7, <2>1 DEF Written
  <2>6. Address(parts) = HeadSum(parts) + Number(parts[n]) /\ Address(parts) \in Nat
    <3>1. HeadSum(parts) \in Nat /\ Number(parts[n]) \in Nat
      <4>1. HeadSum(parts) \in Nat
        BY <2>1, HeadIs
      <4> QED
        BY <2>1, <2>2, <4>1
    <3> QED
      BY <1>1, <3>1 DEF Address
  <2> HIDE DEF byte
  <2>7. CASE n = 1
    <3>1. HeadSum(parts) = 0
      BY <2>1, <2>7, HeadIs
    <3>2. Address(parts) = Number(parts[1])
      BY <2>2, <2>6, <2>7, <3>1
    <3>3. Written(parts) <=> fits(1, 4)
      BY <2>5, <2>7
    <3>4. ParseLooseIPv4(parts) = when(fits(1, 4), Number(parts[1]))
      BY <2>2, <2>3, <2>7
    <3> QED
      BY <2>6, <3>2, <3>3, <3>4
  <2>8. CASE n = 2
    <3>1. HeadSum(parts) = byte(1)
      BY <2>1, <2>8, HeadIs DEF byte
    <3>2. Address(parts) = byte(1) + Number(parts[2])
      BY <2>6, <2>8, <3>1
    <3>3. Written(parts) <=> fits(1, 1) /\ fits(2, 3)
      BY <2>4, <2>5, <2>8
    <3>4. ParseLooseIPv4(parts) = when(fits(1, 1) /\ fits(2, 3), byte(1) + Number(parts[2]))
      BY <2>2, <2>3, <2>8 DEF byte
    <3> QED
      BY <2>6, <3>2, <3>3, <3>4
  <2>9. CASE n = 3
    <3>1. HeadSum(parts) = byte(1) + byte(2)
      BY <2>1, <2>9, HeadIs DEF byte
    <3>2. Address(parts) = byte(1) + byte(2) + Number(parts[3])
      BY <2>6, <2>9, <3>1
    <3>3. Written(parts) <=> fits(1, 1) /\ fits(2, 1) /\ fits(3, 2)
      BY <2>4, <2>5, <2>9
    <3>4. ParseLooseIPv4(parts) = when(fits(1, 1) /\ fits(2, 1) /\ fits(3, 2),
                                       byte(1) + byte(2) + Number(parts[3]))
      BY <2>2, <2>3, <2>9 DEF byte
    <3> QED
      BY <2>6, <3>2, <3>3, <3>4
  <2>10. CASE n = 4
    <3>1. HeadSum(parts) = byte(1) + byte(2) + byte(3)
      BY <2>1, <2>10, HeadIs DEF byte
    <3>2. Address(parts) = byte(1) + byte(2) + byte(3) + Number(parts[4])
      BY <2>6, <2>10, <3>1
    <3>3. Written(parts) <=> \A i \in 1..4 : fits(i, 1)
      BY <2>4, <2>5, <2>10
    <3>4. ParseLooseIPv4(parts) = when(\A i \in 1..4 : fits(i, 1),
                                       byte(1) + byte(2) + byte(3) + Number(parts[4]))
      BY <2>2, <2>3, <2>10 DEF byte
    <3> QED
      BY <2>6, <3>2, <3>3, <3>4
  <2> QED
    BY <2>1, <2>7, <2>8, <2>9, <2>10
<1> QED
  BY <1>6, <1>7

-----------------------------------------------------------------------------
(* Tags.                                                                   *)

Filters == {NormalizeTagFilter(raw) : raw \in TagTexts}

\* What keeping the tags of a prefix gives.
Kept == {NoValue} \cup {Ok(s) : s \in Seq(Filters)}

\* One tag more leaves a list of filters, or the refusal.
LEMMA KeepType ==
  ASSUME NEW out \in Kept, NEW raw \in TagTexts
  PROVE  Keep(out, raw) \in Kept
<1>1. NormalizeTagFilter(raw) \in Filters
  BY DEF Filters
<1>2. CASE out = NoValue
  BY <1>2 DEF Keep, Kept, NoValue
<1>3. ASSUME NEW s \in Seq(Filters), out = Ok(s) PROVE Keep(out, raw) \in Kept
  <2>1. Append(s, NormalizeTagFilter(raw)) \in Seq(Filters)
    BY <1>1, SeqFacts
  <2>2. out.of = s
    BY <1>3 DEF Ok
  <2> QED
    BY <2>1, <2>2 DEF Keep, Kept
<1> QED
  BY <1>2, <1>3 DEF Kept

KeepFold(raw, g) ==
  g = [s \in SUBSET (DOMAIN raw) |->
         IF s = {} THEN Ok(<<>>) ELSE LET x == Max(s) IN Keep(g[s \ {x}], raw[x])]

\* h[i] is what the loop of NormalizeTags has after i tags.
KeepRun(raw, h) ==
  h[0] = Ok(<<>>) /\ \A i \in 1..Len(raw) : h[i] = Keep(h[i - 1], raw[i])

\* NormalizeTags goes through the tags from left to right.
LEMMA KeepRuns ==
  ASSUME NEW raw \in Seq(TagTexts)
  PROVE  \E h : KeepRun(raw, h) /\ FoldLeft(Keep, Ok(<<>>), raw) = h[Len(raw)]
<1> DEFINE n  == Len(raw)
           op == [q \in (1..n) \X Kept |-> Keep(q[2], raw[q[1]])]
           it == CHOOSE g : KeepFold(raw, g)
           h  == [i \in 0..n |-> it[1..i]]
<1>1. n \in Nat /\ DOMAIN raw = 1..n /\ \A i \in 1..n : raw[i] \in TagTexts
  OBVIOUS
<1>2. op \in [(1..n) \X Kept -> Kept] /\ Ok(<<>>) \in Kept
  <2>1. \A q \in (1..n) \X Kept : Keep(q[2], raw[q[1]]) \in Kept
    BY <1>1, KeepType
  <2>2. <<>> \in Seq(Filters)
    OBVIOUS
  <2> QED
    BY <2>1, <2>2 DEF Kept
<1>3. \E g \in [SUBSET (1..n) -> Kept] : LeftFolds(g, n, Ok(<<>>), op)
  <2> HIDE DEF op, n
  <2> QED
    BY <1>1, <1>2, LeftFoldExists
<1>4. PICK g \in [SUBSET (1..n) -> Kept] : LeftFolds(g, n, Ok(<<>>), op)
  BY <1>3
<1>5. ASSUME NEW s \in SUBSET (1..n), s # {} PROVE g[s] = Keep(g[s \ {Max(s)}], raw[Max(s)])
  <2>1. Max(s) \in 1..n /\ g[s \ {Max(s)}] \in Kept
    BY <1>1, <1>5, MaxIs
  <2>2. op[<<Max(s), g[s \ {Max(s)}]>>] = Keep(g[s \ {Max(s)}], raw[Max(s)])
    BY <2>1
  <2> HIDE DEF op
  <2> QED
    BY <1>4, <1>5, <2>2 DEF LeftFolds
<1>6. KeepFold(raw, g)
  <2> HIDE DEF op
  <2> QED
    BY <1>1, <1>4, <1>5 DEF KeepFold, LeftFolds
<1>7. KeepFold(raw, it)
  BY <1>6
<1>8. FoldLeft(Keep, Ok(<<>>), raw) = it[DOMAIN raw]
  BY DEF FoldLeft, MapThenFoldSet, KeepFold
<1> HIDE DEF it
<1>9. it[{}] = Ok(<<>>) /\ \A s \in SUBSET (1..n) : s # {} => it[s] = Keep(it[s \ {Max(s)}], raw[Max(s)])
  BY <1>1, <1>7 DEF KeepFold
<1>10. h[0] = Ok(<<>>)
  BY <1>1, <1>9
<1>11. ASSUME NEW i \in 1..n PROVE h[i] = Keep(h[i - 1], raw[i])
  <2>1. /\ 1..i \in SUBSET (1..n) /\ 1..i # {} /\ Max(1..i) = i
        /\ (1..i) \ {i} = 1..(i - 1) /\ i - 1 \in 0..n
    BY <1>1, PrefixIs
  <2>2. it[1..i] = Keep(it[1..(i - 1)], raw[i])
    BY <1>9, <2>1
  <2> QED
    BY <2>1, <2>2
<1>12. h[n] = it[DOMAIN raw]
  BY <1>1
<1> QED
  BY <1>8, <1>10, <1>11, <1>12 DEF KeepRun

\* The filters of the first i tags that are not blank.
FiltersOf(raw, i) == {NormalizeTagFilter(raw[j]) : j \in {l \in 1..i : raw[l].name # Blank}}

Once(s) == \A a, b \in 1..Len(s) : s[a] = s[b] => a = b

\* After each tag: every filter so far, once; or one of them is too long.
KeptSoFar(out, F) ==
  \/ \E s \in Seq(Filters) : out = Ok(s) /\ Range(s) = F /\ Once(s)
  \/ out = NoValue /\ \E f \in F : f.length > MaxTagLength

\* Appending what a sequence does not have adds it, once.
LEMMA AppendFacts ==
  ASSUME NEW S, NEW s \in Seq(S), NEW x \in S
  PROVE  /\ Range(Append(s, x)) = Range(s) \cup {x}
         /\ Once(s) /\ x \notin Range(s) => Once(Append(s, x))
<1> DEFINE t == Append(s, x)
           n == Len(s)
<1>1. /\ n \in Nat /\ Len(t) = n + 1 /\ t[n + 1] = x /\ \A i \in 1..n : t[i] = s[i]
      /\ DOMAIN s = 1..n /\ DOMAIN t = 1..(n + 1)
  OBVIOUS
<1> HIDE DEF t
<1>2. 1..(n + 1) = (1..n) \cup {n + 1}
  BY <1>1
<1>3. Range(s) = {s[i] : i \in 1..n} /\ Range(t) = {t[i] : i \in 1..(n + 1)}
  BY <1>1 DEF Range
<1>4. Range(t) = Range(s) \cup {x}
  BY <1>1, <1>2, <1>3
<1>5. ASSUME Once(s), x \notin Range(s), NEW a \in 1..(n + 1), NEW b \in 1..(n + 1), t[a] = t[b]
      PROVE  a = b
  <2>1. CASE a \in 1..n /\ b \in 1..n
    BY <1>1, <1>5, <2>1 DEF Once
  <2>2. CASE a \in 1..n /\ b = n + 1
    BY <1>1, <1>3, <1>5, <2>2
  <2>3. CASE a = n + 1 /\ b \in 1..n
    BY <1>1, <1>3, <1>5, <2>3
  <2> QED
    BY <1>2, <1>5, <2>1, <2>2, <2>3
<1>6. Once(s) /\ x \notin Range(s) => Once(t)
  BY <1>1, <1>5 DEF Once
<1> QED
  BY <1>4, <1>6 DEF t

\* One tag more: what was kept so far stays kept, and the new one joins it
\* unless it is blank or there already.
LEMMA KeepStep ==
  ASSUME NEW F \in SUBSET Filters, NEW out, KeptSoFar(out, F), NEW raw \in TagTexts
  PROVE  KeptSoFar(Keep(out, raw),
                   IF raw.name # Blank THEN F \cup {NormalizeTagFilter(raw)} ELSE F)
<1> DEFINE tag == NormalizeTagFilter(raw)
<1>1. tag \in Filters /\ tag.name = raw.name /\ tag.length = raw.length /\ tag.length \in Nat
  BY SampleAssumption DEF Filters, NormalizeTagFilter
<1> HIDE DEF tag
<1>2. CASE out = NoValue /\ \E f \in F : f.length > MaxTagLength
  <2>1. Keep(out, raw) = NoValue
    BY <1>2 DEF Keep, NoValue
  <2> QED
    BY <1>2, <2>1 DEF KeptSoFar
<1>3. ASSUME NEW s \in Seq(Filters), out = Ok(s), Range(s) = F, Once(s)
      PROVE  KeptSoFar(Keep(out, raw), IF raw.name # Blank THEN F \cup {tag} ELSE F)
  <2>1. out.ok = TRUE /\ out.of = s
    BY <1>3 DEF Ok
  <2>2. CASE raw.name = Blank
    <3>1. Keep(out, raw) = out
      BY <1>1, <2>1, <2>2 DEF Keep, tag
    <3> QED
      BY <1>3, <2>2, <3>1 DEF KeptSoFar
  <2>3. CASE raw.name # Blank /\ tag.length > MaxTagLength
    <3>1. Keep(out, raw) = NoValue
      BY <1>1, <2>1, <2>3 DEF Keep, tag
    <3> QED
      BY <2>3, <3>1 DEF KeptSoFar
  <2>4. CASE raw.name # Blank /\ ~(tag.length > MaxTagLength) /\ tag \in F
    <3>1. Keep(out, raw) = out
      BY <1>1, <1>3, <2>1, <2>4 DEF Keep, tag
    <3>2. F \cup {tag} = F
      BY <2>4
    <3> QED
      BY <1>3, <2>4, <3>1, <3>2 DEF KeptSoFar
  <2>5. CASE raw.name # Blank /\ ~(tag.length > MaxTagLength) /\ tag \notin F
    <3>1. Keep(out, raw) = Ok(Append(s, tag))
      BY <1>1, <1>3, <2>1, <2>5 DEF Keep, tag
    <3>2. Append(s, tag) \in Seq(Filters)
      BY <1>1, SeqFacts
    <3>3. Range(Append(s, tag)) = F \cup {tag} /\ Once(Append(s, tag))
      BY <1>1, <1>3, <2>5, AppendFacts
    <3> QED
      BY <2>5, <3>1, <3>2, <3>3 DEF KeptSoFar
  <2> QED
    BY <2>2, <2>3, <2>4, <2>5
<1> QED
  BY <1>2, <1>3 DEF KeptSoFar, tag

\* After the last tag everything that is not blank is kept once, or one of
\* them was too long.
LEMMA TagsAre ==
  ASSUME NEW raw \in Seq(TagTexts)
  PROVE  KeptSoFar(FoldLeft(Keep, Ok(<<>>), raw), FiltersOf(raw, Len(raw)))
<1> DEFINE n == Len(raw)
           F(i) == FiltersOf(raw, i)
<1>1. n \in Nat /\ \A i \in 1..n : raw[i] \in TagTexts
  OBVIOUS
<1>2. PICK h : KeepRun(raw, h) /\ FoldLeft(Keep, Ok(<<>>), raw) = h[n]
  BY KeepRuns
<1> DEFINE P == {i \in 0..n : KeptSoFar(h[i], F(i))}
<1>3. 0 \in P
  <2>1. F(0) = {}
    BY DEF FiltersOf
  <2>2. <<>> \in Seq(Filters) /\ Range(<<>>) = {} /\ Once(<<>>)
    BY DEF Range, Once
  <2>3. KeptSoFar(h[0], F(0))
    BY <1>2, <2>1, <2>2 DEF KeptSoFar, KeepRun
  <2> QED
    BY <1>1, <2>3
<1>4. ASSUME NEW i \in 1..n, i - 1 \in P PROVE i \in P
  <2>1. h[i] = Keep(h[i - 1], raw[i]) /\ raw[i] \in TagTexts /\ KeptSoFar(h[i - 1], F(i - 1))
    BY <1>1, <1>2, <1>4 DEF KeepRun
  <2>2. F(i) = IF raw[i].name # Blank THEN F(i - 1) \cup {NormalizeTagFilter(raw[i])} ELSE F(i - 1)
    <3>1. 1..i = (1..(i - 1)) \cup {i}
      OBVIOUS
    <3> DEFINE L(k) == {l \in 1..k : raw[l].name # Blank}
    <3>2. L(i) = IF raw[i].name # Blank THEN L(i - 1) \cup {i} ELSE L(i - 1)
      BY <3>1
    <3>3. \A k : F(k) = {NormalizeTagFilter(raw[j]) : j \in L(k)}
      BY DEF FiltersOf
    <3> HIDE DEF L, F
    <3> QED
      BY <3>2, <3>3
  <2>3. F(i - 1) \in SUBSET Filters
    <3>1. \A j \in 1..(i - 1) : raw[j] \in TagTexts
      BY <1>1
    <3> QED
      BY <3>1 DEF FiltersOf, Filters
  <2> HIDE DEF F
  <2>4. KeptSoFar(h[i], F(i))
    BY <2>1, <2>2, <2>3, KeepStep
  <2> QED
    BY <2>4
<1>5. 0..n \subseteq P
  <2> HIDE DEF P
  <2> QED
    BY <1>1, <1>3, <1>4, UpTo
<1> QED
  BY <1>1, <1>2, <1>5

\* A list without repetitions is as long as the set of its elements.
LEMMA OnceIsCardinality ==
  ASSUME NEW S, NEW s \in Seq(S), Once(s)
  PROVE  IsFiniteSet(Range(s)) /\ Len(s) = Cardinality(Range(s))
<1>1. Len(s) \in Nat /\ DOMAIN s = 1..Len(s)
  OBVIOUS
<1>2. s \in [1..Len(s) -> Range(s)]
  BY <1>1 DEF Range
<1>3. s \in Bijection(1..Len(s), Range(s))
  BY <1>1, <1>2 DEF Bijection, Injection, Surjection, IsInjective, Range, Once
<1>4. ExistsBijection(1..Len(s), Range(s))
  BY <1>3 DEF ExistsBijection
<1> QED
  BY <1>1, <1>4, FS_CountingElements, FS_NatBijection

-----------------------------------------------------------------------------
(* The specification.                                                      *)

\* What is converted stays, and what came out is its conversion.
CodecStrong ==
  /\ sample \in Samples
  /\ result # <<>> =>
       /\ sample.kind = "number"  => result = <<Encode(sample.of)>>
       /\ sample.kind = "text"    => result = <<Decode(sample.of)>>
       /\ sample.kind = "address" => result = <<IsPrivateHost(sample.of)>>
       /\ sample.kind = "tags"    => result = <<NormalizeTags(sample.of)>>

\* Bounded sequences are sequences.
LEMMA BoundedIsSeq ==
  ASSUME NEW S, NEW T, NEW n \in Nat, NEW s \in BoundedSeq(S, n), S \subseteq T
  PROVE  s \in Seq(T)
<1>1. PICK m \in 0..n : s \in [1..m -> S]
  BY DEF BoundedSeq, SeqOf
<1> QED
  BY <1>1

\* What the samples of each kind are.
LEMMA SampleIs ==
  ASSUME sample \in Samples
  PROVE  /\ sample.kind \in {"number", "text", "address", "tags"}
         /\ sample.kind = "number"  => sample.of \in 0..(Word - 1)
         /\ sample.kind = "text"    => sample.of \in Seq(Nat)
         /\ sample.kind = "address" => \E n \in 1..5 : sample.of \in [1..n -> NumberTexts]
         /\ sample.kind = "tags"    => sample.of \in Seq(TagTexts)
<1>1. 0..Radix \subseteq Nat /\ MaxText \in Nat /\ MaxTags + 2 \in Nat
  BY CodecAssumption
<1>2. CASE sample \in [kind : {"number"}, of : 0..(Word - 1)]
  BY <1>2
<1>3. CASE sample \in [kind : {"text"}, of : BoundedSeq(0..Radix, MaxText)]
  <2>1. sample.kind = "text" /\ sample.of \in BoundedSeq(0..Radix, MaxText)
    BY <1>3
  <2> QED
    BY <1>1, <2>1, BoundedIsSeq
<1>4. CASE sample \in [kind : {"address"}, of : UNION {[1..n -> NumberTexts] : n \in 1..5}]
  BY <1>4
<1>5. CASE sample \in [kind : {"tags"}, of : BoundedSeq(TagTexts, MaxTags + 2)]
  <2>1. sample.kind = "tags" /\ sample.of \in BoundedSeq(TagTexts, MaxTags + 2)
    BY <1>5
  <2> QED
    BY <1>1, <2>1, BoundedIsSeq
<1> QED
  BY <1>2, <1>3, <1>4, <1>5 DEF Samples

\* Encode is inverted by Decode, without leading zeros.
LEMMA StrongImpliesEncode == ASSUME CodecStrong PROVE EncodeIsInverted
<1> SUFFICES ASSUME Converted("number")
             PROVE  /\ Decode(result[1]) = Ok(sample.of)
                    /\ Len(result[1]) > 1 => result[1][1] # 0
  BY DEF EncodeIsInverted
<1>1. sample.of \in 0..(Word - 1) /\ result = <<Digits[sample.of]>>
  BY SampleIs DEF CodecStrong, Converted, Encode
<1>2. result[1] = Digits[sample.of]
  BY <1>1
<1> QED
  BY <1>1, <1>2, EncodeInverts DEF Decode

\* Decode accepts exactly what fits into the word.
LEMMA StrongImpliesDecode == ASSUME CodecStrong PROVE DecodeNeverWraps
<1> DEFINE text == sample.of
           valid == text # <<>> /\ \A d \in Range(text) : d < Radix
<1> SUFFICES ASSUME Converted("text")
             PROVE  result[1] = IF valid /\ NumberOf(text, Radix) < Word THEN Ok(NumberOf(text, Radix))
                                ELSE NoValue
  BY DEF DecodeNeverWraps
<1>1. text \in Seq(Nat) /\ result[1] = Decode(text)
  BY SampleIs DEF CodecStrong, Converted
<1> HIDE DEF text
<1>2. CASE text = <<>>
  BY <1>1, <1>2 DEF Decode
<1>3. CASE text # <<>>
  BY <1>1, <1>3, DecodeIs DEF Decode
<1> QED
  BY <1>2, <1>3

\* An address is private exactly when the number it spells is in a range
\* that is not public, in whatever way it is spelled.
LEMMA StrongImpliesAddress == ASSUME CodecStrong PROVE SpellingsAgree
<1> SUFFICES ASSUME Converted("address") PROVE SpellingsAgree
  BY DEF SpellingsAgree
<1> DEFINE parts == sample.of
<1>1. result[1] = IsPrivateHost(parts) /\ \E n \in 1..5 : parts \in [1..n -> NumberTexts]
  BY SampleIs DEF CodecStrong, Converted
<1>2. PICK n \in 1..5 : parts \in [1..n -> NumberTexts]
  BY <1>1
<1>3. /\ ParseLooseIPv4(parts) = IF Written(parts) THEN Ok(Address(parts)) ELSE NoValue
      /\ Written(parts) => Address(parts) \in Nat
  BY <1>2, AddressIs
<1>4. Written(parts) => /\ ParseLooseIPv4(parts).ok = TRUE
                        /\ ParseLooseIPv4(parts).of = Address(parts)
  BY <1>3 DEF Ok
<1>5. ~Written(parts) => ParseLooseIPv4(parts).ok = FALSE
  BY <1>3 DEF NoValue
<1>6. Written(parts) => (IsNonPublicAddr(Address(parts)) <=> \E r \in NonPublic : Address(parts) \in r[1]..r[2])
  <2>1. \A r \in NonPublic : r[1] \in Nat /\ r[2] \in Nat
    BY SampleAssumption
  <2> QED
    BY <1>3, <2>1 DEF IsNonPublicAddr
<1>7. result[1] <=> Written(parts) /\ \E r \in NonPublic : Address(parts) \in r[1]..r[2]
  BY <1>1, <1>4, <1>5, <1>6 DEF IsPrivateHost
<1> QED
  BY <1>7 DEF SpellingsAgree, Written, Address, HeadSum, Number, WellFormed,
              MapThenSumSet, MapThenFoldSet

\* The tags that are stored are those a filter finds.
LEMMA StrongImpliesTags == ASSUME CodecStrong PROVE TagsAreFound
<1> DEFINE raw == sample.of
           filters == {NormalizeTagFilter(r) : r \in {x \in Range(raw) : x.name # Blank}}
           out == FoldLeft(Keep, Ok(<<>>), raw)
<1> SUFFICES ASSUME Converted("tags")
             PROVE  IF result[1].ok
                    THEN Range(result[1].of) = filters /\ Len(result[1].of) = Cardinality(filters)
                    ELSE Cardinality(filters) > MaxTags \/ \E f \in filters : f.length > MaxTagLength
  BY DEF TagsAreFound
<1>1. raw \in Seq(TagTexts) /\ result[1] = NormalizeTags(raw)
  BY SampleIs DEF CodecStrong, Converted
<1>2. filters = FiltersOf(raw, Len(raw))
  <2>1. DOMAIN raw = 1..Len(raw)
    BY <1>1
  <2> QED
    BY <2>1 DEF FiltersOf, Range
<1>3. KeptSoFar(out, filters)
  BY <1>1, <1>2, TagsAre
<1>4. result[1] = IF out.ok /\ Len(out.of) > MaxTags THEN NoValue ELSE out
  BY <1>1 DEF NormalizeTags
<1> HIDE DEF raw, filters, out
<1>5. CASE out = NoValue /\ \E f \in filters : f.length > MaxTagLength
  BY <1>4, <1>5 DEF NoValue
<1>6. ASSUME NEW s \in Seq(Filters), out = Ok(s), Range(s) = filters, Once(s)
      PROVE  IF result[1].ok
             THEN Range(result[1].of) = filters /\ Len(result[1].of) = Cardinality(filters)
             ELSE Cardinality(filters) > MaxTags \/ \E f \in filters : f.length > MaxTagLength
  <2>1. out.ok = TRUE /\ out.of = s
    BY <1>6 DEF Ok
  <2>2. Len(s) = Cardinality(filters)
    BY <1>6, OnceIsCardinality
  <2>3. CASE Len(s) > MaxTags
    BY <1>4, <2>1, <2>2, <2>3 DEF NoValue
  <2>4. CASE ~(Len(s) > MaxTags)
    BY <1>4, <1>6, <2>1, <2>2, <2>4
  <2> QED
    BY <2>3, <2>4
<1> QED
  BY <1>3, <1>5, <1>6 DEF KeptSoFar

\* Numbers, texts, addresses and tags are converted as defined: no number is encoded to a
\* text of another, no text wraps around, no notation hides an address, no tag is lost.
THEOREM CodecIsRight == CodecSpec => []CodecInv
<1>1. CodecInit => CodecStrong
  BY DEF CodecInit, CodecStrong
<1>2. CodecStrong /\ [Convert]_codecVars => CodecStrong'
  <2>1. ASSUME CodecStrong, Convert PROVE CodecStrong'
    <3>1. sample' = sample /\ sample \in Samples
      BY <2>1 DEF CodecStrong, Convert
    <3>2. /\ sample.kind = "number"  => result' = <<Encode(sample.of)>>
          /\ sample.kind = "text"    => result' = <<Decode(sample.of)>>
          /\ sample.kind = "address" => result' = <<IsPrivateHost(sample.of)>>
          /\ sample.kind = "tags"    => result' = <<NormalizeTags(sample.of)>>
      BY <2>1 DEF Convert
    <3> QED
      BY <3>1, <3>2 DEF CodecStrong
  <2>2. ASSUME CodecStrong, UNCHANGED codecVars PROVE CodecStrong'
    BY <2>2 DEF CodecStrong, codecVars
  <2> QED
    BY <2>1, <2>2
<1>3. CodecStrong => CodecInv
  BY StrongImpliesEncode, StrongImpliesDecode, StrongImpliesAddress, StrongImpliesTags DEF CodecInv
<1> QED
  BY <1>1, <1>2, <1>3, PTL DEF CodecSpec

=============================================================================
