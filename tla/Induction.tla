------------------------------ MODULE Induction ------------------------------
(***************************************************************************)
(* Induction and recursion with sets and functions in the place of         *)
(* operators: what the proofs about data rest on.                          *)
(***************************************************************************)
EXTENDS Integers, FiniteSets, FiniteSetsExt, FiniteSetTheorems, TLAPS

(* A nonempty set of naturals has a least element: the interval below it is  *)
(* minimal for strict inclusion, which is well-founded on finite sets.       *)
LEMMA LeastNatural ==
  ASSUME NEW T \in SUBSET Nat, T # {}
  PROVE  \E m \in T : \A k \in T : m <= k
<1> DEFINE below(m) == 0 .. m - 1
           R == StrictSubsetOrdering(Nat)
           B == {below(m) : m \in T}
<1>1. IsWellFoundedOn(R, FiniteSubsetsOf(Nat))
  BY FS_StrictSubsetOrderingWellFounded
<1>2. B \subseteq FiniteSubsetsOf(Nat) /\ B # {}
  <2>1. \A m \in T : IsFiniteSet(below(m)) /\ below(m) \subseteq Nat
    BY FS_Interval
  <2> QED BY <2>1 DEF FiniteSubsetsOf
<1>3. PICK b \in B : \A c \in B : <<c, b>> \notin R
  <2> HIDE DEF R, B
  <2> QED BY <1>1, <1>2, WFMin
<1>4. PICK m \in T : b = below(m)
  OBVIOUS
<1>5. ASSUME NEW k \in T, k < m PROVE FALSE
  <2>1. below(k) \in B
    OBVIOUS
  <2>2. k \in below(m) /\ k \notin below(k) /\ below(k) \subseteq below(m)
    BY <1>5
  <2>3. <<below(k), b>> \in R
    <3>1. below(k) \in SUBSET Nat /\ b \in SUBSET Nat
      BY <1>4
    <3>2. below(k) \subseteq b /\ below(k) # b
      BY <2>2, <1>4
    <3> HIDE DEF below
    <3> QED BY <3>1, <3>2 DEF StrictSubsetOrdering
  <2> QED BY <1>3, <2>1, <2>3
<1> QED BY <1>5

(* The community modules call it Min.                                        *)
LEMMA MinOfNaturals ==
  ASSUME NEW T \in SUBSET Nat, T # {}
  PROVE  Min(T) \in T /\ \A k \in T : Min(T) <= k
BY LeastNatural DEF Min

(* The naturals are the least set with 0 and the successor of each of its    *)
(* elements.                                                                 *)
LEMMA NaturalsByInduction ==
  ASSUME NEW S, 0 \in S, \A n \in Nat : n \in S => n + 1 \in S
  PROVE  Nat \subseteq S
<1> SUFFICES ASSUME Nat \ S # {} PROVE FALSE
  OBVIOUS
<1>1. PICK m \in Nat \ S : \A k \in Nat \ S : m <= k
  BY LeastNatural, Nat \ S \in SUBSET Nat
<1>2. m # 0 /\ m - 1 \in Nat
  BY <1>1
<1>3. m - 1 \in S
  BY <1>1, <1>2
<1> QED BY <1>1, <1>2, <1>3, (m - 1) + 1 = m

(* The same up to a bound.                                                   *)
LEMMA IntervalByInduction ==
  ASSUME NEW n \in Nat, NEW S, 0 \in S, \A i \in 1 .. n : i - 1 \in S => i \in S
  PROVE  0 .. n \subseteq S
<1> DEFINE T == {k \in Nat : k <= n => k \in S}
<1>1. 0 \in T
  OBVIOUS
<1>2. ASSUME NEW k \in Nat, k \in T PROVE k + 1 \in T
  <2>1. CASE k + 1 <= n
    <3>1. k + 1 \in 1 .. n /\ (k + 1) - 1 = k /\ k \in S
      BY <1>2, <2>1
    <3>2. k + 1 \in S
      BY <3>1
    <3> QED BY <3>2
  <2> QED BY <2>1
<1>3. Nat \subseteq T
  <2> HIDE DEF T
  <2> QED BY <1>1, <1>2, NaturalsByInduction
<1> QED BY <1>3

(* The table of a function on 0 .. n that starts with a and goes on by the   *)
(* step h, and that there is one.                                            *)
RecursionTable(f, n, D, a, h) ==
  f \in [0 .. n -> D] /\ f[0] = a /\ \A i \in 1 .. n : f[i] = h[<<i, f[i - 1]>>]

(* Every step function has a table: one more row at a time.                  *)
LEMMA RecursionOnInterval ==
  ASSUME NEW n \in Nat, NEW D, NEW a \in D, NEW h \in [(1 .. n) \X D -> D]
  PROVE  \E f : RecursionTable(f, n, D, a, h)
<1> DEFINE ok(f, k) == /\ f \in [0 .. k -> D] /\ f[0] = a
                       /\ \A i \in 1 .. k : f[i] = h[<<i, f[i - 1]>>]
           S == {k \in Nat : \E f : ok(f, k)}
<1>1. 0 \in S
  <2>1. ok([i \in 0 .. 0 |-> a], 0)
    OBVIOUS
  <2> QED BY <2>1
<1>2. ASSUME NEW i \in 1 .. n, i - 1 \in S PROVE i \in S
  <2>1. PICK f : ok(f, i - 1)
    BY <1>2
  <2> DEFINE g == [j \in 0 .. i |-> IF j = i THEN h[<<i, f[i - 1]>>] ELSE f[j]]
  <2>2. f[i - 1] \in D
    BY <2>1
  <2>3. g \in [0 .. i -> D]
    BY <2>1, <2>2
  <2>4. \A j \in 0 .. i - 1 : g[j] = f[j]
    OBVIOUS
  <2>5. g[i] = h[<<i, f[i - 1]>>]
    OBVIOUS
  <2>6. g[0] = a
    BY <2>1, <2>4
  <2>7. ASSUME NEW j \in 1 .. i PROVE g[j] = h[<<j, g[j - 1]>>]
    <3>1. CASE j = i
      <4>1. g[j - 1] = f[i - 1]
        BY <3>1, <2>4, i - 1 \in 0 .. i - 1
      <4> HIDE DEF g
      <4> QED BY <3>1, <4>1, <2>5
    <3>2. CASE j # i
      <4>1. j \in 1 .. i - 1 /\ j \in 0 .. i - 1 /\ j - 1 \in 0 .. i - 1
        BY <3>2
      <4>2. f[j] = h[<<j, f[j - 1]>>]
        BY <2>1, <4>1
      <4>3. g[j] = f[j] /\ g[j - 1] = f[j - 1]
        BY <2>4, <4>1
      <4> HIDE DEF g
      <4> QED BY <4>2, <4>3
    <3> QED BY <3>1, <3>2
  <2>8. ok(g, i)
    <3> HIDE DEF g
    <3> QED BY <2>3, <2>6, <2>7
  <2>9. i \in Nat /\ \E e : ok(e, i)
    <3> HIDE DEF ok, g
    <3> QED BY <2>8
  <2> HIDE DEF ok, g
  <2> QED BY <2>9
<1>3. n \in S
  <2> HIDE DEF S
  <2> QED BY <1>1, <1>2, IntervalByInduction
<1>4. PICK f : ok(f, n)
  BY <1>3
<1>5. RecursionTable(f, n, D, a, h)
  BY <1>4 DEF RecursionTable
<1> QED BY <1>5

(* The greatest element of a nonempty set of naturals with an upper bound.   *)
LEMMA GreatestNatural ==
  ASSUME NEW n \in Nat, NEW T \in SUBSET (0 .. n), T # {}
  PROVE  Max(T) \in T /\ \A k \in T : k <= Max(T)
<1> DEFINE B == {n - k : k \in T}
<1>1. B \in SUBSET Nat /\ B # {}
  <2>1. \A k \in T : n - k \in Nat
    OBVIOUS
  <2>2. PICK k \in T : TRUE
    OBVIOUS
  <2>3. n - k \in B
    OBVIOUS
  <2> QED BY <2>1, <2>3
<1>2. PICK b \in B : \A k \in B : b <= k
  BY <1>1, LeastNatural
<1>3. PICK m \in T : b = n - m
  OBVIOUS
<1>4. \A k \in T : m >= k
  <2> SUFFICES ASSUME NEW k \in T PROVE m >= k
    OBVIOUS
  <2>1. n - k \in B
    OBVIOUS
  <2> QED BY <1>2, <1>3, <2>1
<1> QED BY <1>4 DEF Max

(* The same for positions of a sequence.                                     *)
LEMMA MaxInInterval ==
  ASSUME NEW n \in Nat, NEW T \in SUBSET (1 .. n), T # {}
  PROVE  Max(T) \in T /\ Max(T) \in 1 .. n
<1>1. T \in SUBSET (0 .. n)
  OBVIOUS
<1>2. Max(T) \in T
  BY <1>1, GreatestNatural
<1> QED BY <1>2

(* An interval without its last position.                                    *)
LEMMA IntervalPeeled ==
  ASSUME NEW n \in Nat, NEW i \in 1 .. n
  PROVE  /\ 1 .. i \in SUBSET (1 .. n) /\ 1 .. i # {}
         /\ Max(1 .. i) = i /\ (1 .. i) \ {i} = 1 .. (i - 1)
<1>1. i \in Nat /\ 1 .. i \in SUBSET (0 .. i) /\ i \in 1 .. i /\ 1 .. i # {}
  OBVIOUS
<1>2. Max(1 .. i) \in 1 .. i /\ i <= Max(1 .. i)
  BY <1>1, GreatestNatural
<1>3. Max(1 .. i) = i
  BY <1>1, <1>2
<1> QED BY <1>1, <1>3

(* The table that a fold over 1 .. n computes with the step h, and that      *)
(* there is one.                                                             *)
FoldTable(f, n, D, a, h) ==
  /\ f \in [SUBSET (1 .. n) -> D]
  /\ f[{}] = a
  /\ \A s \in SUBSET (1 .. n) : s # {} => f[s] = h[<<Max(s), f[s \ {Max(s)}]>>]

(* Every step function has a fold: one more position at a time.              *)
LEMMA FoldOnInterval ==
  ASSUME NEW n \in Nat, NEW D, NEW a \in D, NEW h \in [(1 .. n) \X D -> D]
  PROVE  \E f : FoldTable(f, n, D, a, h)
<1> DEFINE ok(f, k) ==
             /\ f \in [SUBSET (1 .. k) -> D]
             /\ \A s \in SUBSET (1 .. k) :
                  f[s] = IF s = {} THEN a ELSE h[<<Max(s), f[s \ {Max(s)}]>>]
           S == {k \in Nat : \E f : ok(f, k)}
<1>1. 0 \in S
  <2> DEFINE f == [s \in SUBSET (1 .. 0) |-> a]
  <2>1. \A s \in SUBSET (1 .. 0) : s = {}
    OBVIOUS
  <2>2. ok(f, 0)
    BY <2>1
  <2>3. \E g : ok(g, 0)
    <3> HIDE DEF ok, f
    <3> QED BY <2>2
  <2> HIDE DEF ok
  <2> QED BY <2>3
<1>2. ASSUME NEW i \in 1 .. n, i - 1 \in S PROVE i \in S
  <2>1. PICK f : ok(f, i - 1)
    BY <1>2
  <2> DEFINE g == [s \in SUBSET (1 .. i) |->
                     IF i \in s THEN h[<<i, f[s \ {i}]>>] ELSE f[s]]
  <2>2. \A s \in SUBSET (1 .. i) : s \ {i} \in SUBSET (1 .. i - 1)
    OBVIOUS
  <2>3. \A s \in SUBSET (1 .. i) : i \notin s => s \in SUBSET (1 .. i - 1)
    OBVIOUS
  <2>4. \A s \in SUBSET (1 .. i - 1) : f[s] \in D
    BY <2>1
  <2>5. \A s \in SUBSET (1 .. i) : g[s] \in D
    BY <2>2, <2>3, <2>4
  <2>6. \A s \in SUBSET (1 .. i - 1) : s \in SUBSET (1 .. i) /\ g[s] = f[s]
    OBVIOUS
  <2>7. ASSUME NEW s \in SUBSET (1 .. i)
        PROVE  g[s] = IF s = {} THEN a ELSE h[<<Max(s), g[s \ {Max(s)}]>>]
    <3>1. CASE i \in s
      <4>1. Max(s) = i
        <5>1. i \in Nat /\ s \in SUBSET (0 .. i) /\ s # {}
          BY <3>1
        <5>2. Max(s) \in s /\ i <= Max(s)
          BY <3>1, <5>1, GreatestNatural
        <5>3. Max(s) \in 1 .. i
          BY <5>2
        <5> HIDE DEF g, ok
        <5> QED BY <5>1, <5>2, <5>3
      <4>2. g[s \ {i}] = f[s \ {i}] /\ g[s] = h[<<i, f[s \ {i}]>>]
        BY <2>2, <2>6, <3>1
      <4> HIDE DEF g
      <4> QED BY <3>1, <4>1, <4>2
    <3>2. CASE i \notin s
      <4>1. s \in SUBSET (1 .. i - 1) /\ s \ {Max(s)} \in SUBSET (1 .. i - 1)
        BY <2>3, <3>2
      <4>2. g[s] = f[s] /\ g[s \ {Max(s)}] = f[s \ {Max(s)}]
        BY <2>6, <4>1
      <4>3. f[s] = IF s = {} THEN a ELSE h[<<Max(s), f[s \ {Max(s)}]>>]
        BY <2>1, <4>1
      <4> HIDE DEF g
      <4> QED BY <4>2, <4>3
    <3> QED BY <3>1, <3>2
  <2>8. g \in [SUBSET (1 .. i) -> D]
    BY <2>5
  <2>9. i \in Nat /\ ok(g, i)
    <3> HIDE DEF g
    <3> QED BY <2>7, <2>8
  <2> HIDE DEF ok, g
  <2> QED BY <2>9
<1>3. n \in S
  <2> HIDE DEF S
  <2> QED BY <1>1, <1>2, IntervalByInduction
<1>4. PICK f : ok(f, n)
  BY <1>3
<1>5. f[{}] = a
  BY <1>4
<1>6. FoldTable(f, n, D, a, h)
  BY <1>4, <1>5 DEF FoldTable
<1> QED BY <1>6
==============================================================================
