------------------------- MODULE SentenceChunker_proofs -------------------------
(***************************************************************************)
(* What TLAPS proves of SentenceChunker: for turns of any length, cut into *)
(* deltas of any length, and any least length of a chunk.                  *)
(***************************************************************************)
EXTENDS SentenceChunker, Induction, SequenceTheorems

(* The sequences over S are the least set with the empty one that is closed  *)
(* under Append.                                                             *)
LEMMA SequencesByInduction ==
  ASSUME NEW S, NEW T, \A e \in Seq(S) : Len(e) = 0 => e \in T,
         \A s \in Seq(S), x \in S : s \in T => Append(s, x) \in T
  PROVE  Seq(S) \subseteq T
<1> DEFINE L == {n \in Nat : \A s \in Seq(S) : Len(s) = n => s \in T}
<1>1. 0 \in L
  OBVIOUS
<1>2. ASSUME NEW n \in Nat, n \in L PROVE n + 1 \in L
  <2> SUFFICES ASSUME NEW s \in Seq(S), Len(s) = n + 1 PROVE s \in T
    BY <1>2
  <2> DEFINE front == [i \in 1 .. n |-> s[i]]
             x == s[n + 1]
  <2>1. front \in Seq(S) /\ Len(front) = n /\ x \in S
    <3>1. \A i \in 1 .. n + 1 : s[i] \in S
      BY ElementOfSeq
    <3> QED BY <3>1
  <2>2. s = Append(front, x)
    <3>1. Append(front, x) \in Seq(S) /\ Len(Append(front, x)) = n + 1
      BY <2>1
    <3>2. ASSUME NEW i \in 1 .. n + 1 PROVE s[i] = Append(front, x)[i]
      <4>1. CASE i = n + 1
        <5> HIDE DEF front, x
        <5>1. Append(front, x)[n + 1] = x
          BY <2>1
        <5> QED BY <4>1, <5>1 DEF x
      <4>2. CASE i # n + 1
        <5>1. i \in 1 .. n /\ front[i] = s[i]
          BY <4>2
        <5> HIDE DEF front, x
        <5> QED BY <2>1, <5>1
      <4> QED BY <4>1, <4>2
    <3> HIDE DEF front, x
    <3> QED BY <3>1, <3>2, SeqEqual
  <2>3. front \in T
    BY <1>2, <2>1
  <2> HIDE DEF front, x
  <2> QED BY <2>1, <2>2, <2>3
<1>3. Nat \subseteq L
  <2> HIDE DEF L
  <2> QED BY <1>1, <1>2, NaturalsByInduction
<1> QED BY <1>3

-----------------------------------------------------------------------------
(* Pick *)

PickStep(s, P, kept, i) == IF i \in P THEN Append(kept, s[i]) ELSE kept

(* The fold looks at the positions one by one.                               *)
LEMMA PickedStepwise ==
  ASSUME NEW S, NEW s \in Seq(S), NEW P
  PROVE  \E acc :
           /\ acc \in [0 .. Len(s) -> Seq(S)]
           /\ acc[0] = <<>>
           /\ \A i \in 1 .. Len(s) : acc[i] = PickStep(s, P, acc[i - 1], i)
           /\ acc[Len(s)] = Pick(s, P)
<1> DEFINE n == Len(s)
           D == Seq(S)
           h == [p \in (1 .. n) \X D |-> PickStep(s, P, p[2], p[1])]
           is(f) == f = [q \in SUBSET (1 .. n) |->
                           IF q = {} THEN <<>>
                           ELSE PickStep(s, P, f[q \ {Max(q)}], [i \in 1 .. n |-> i][Max(q)])]
           t == CHOOSE f : is(f)
<1>1. Pick(s, P) = t[1 .. n]
  BY DOMAIN s = 1 .. n DEF Pick, FoldLeftDomain, FoldLeft, MapThenFoldSet, PickStep
<1>2. n \in Nat /\ <<>> \in D
  OBVIOUS
<1>3. \A i \in 1 .. n, d \in D : PickStep(s, P, d, i) \in D
  <2> SUFFICES ASSUME NEW i \in 1 .. n, NEW d \in D PROVE PickStep(s, P, d, i) \in D
    OBVIOUS
  <2>1. s[i] \in S
    BY ElementOfSeq
  <2>2. Append(d, s[i]) \in D
    BY <2>1
  <2> QED BY <2>2 DEF PickStep
<1>4. h \in [(1 .. n) \X D -> D]
  BY <1>3
<1>5. PICK f : FoldTable(f, n, D, <<>>, h)
  <2> HIDE DEF h, D, n
  <2> QED BY <1>2, <1>4, FoldOnInterval
<1>6. is(f)
  <2> SUFFICES ASSUME NEW q \in SUBSET (1 .. n)
               PROVE  f[q] = IF q = {} THEN <<>>
                             ELSE PickStep(s, P, f[q \ {Max(q)}], [i \in 1 .. n |-> i][Max(q)])
    BY <1>5 DEF FoldTable
  <2>1. CASE q = {}
    BY <1>5, <2>1 DEF FoldTable
  <2>2. CASE q # {}
    <3>1. Max(q) \in 1 .. n
      BY <1>2, <2>2, MaxInInterval
    <3>2. f[q \ {Max(q)}] \in D
      BY <1>5 DEF FoldTable
    <3> QED BY <1>5, <2>2, <3>1, <3>2 DEF FoldTable
  <2> QED BY <2>1, <2>2
<1>7. is(t)
  BY <1>6
<1>8. t[1 .. 0] = <<>>
  <2>1. 1 .. 0 = {} /\ {} \in SUBSET (1 .. n)
    OBVIOUS
  <2> QED BY <1>7, <2>1
<1>9. ASSUME NEW i \in 1 .. n
      PROVE  t[1 .. i] = PickStep(s, P, t[1 .. (i - 1)], i)
  <2>1. 1 .. i \in SUBSET (1 .. n) /\ 1 .. i # {} /\ Max(1 .. i) = i
        /\ (1 .. i) \ {i} = 1 .. (i - 1)
    BY <1>2, IntervalPeeled
  <2> HIDE DEF t
  <2> QED BY <1>7, <2>1
<1> DEFINE acc == [i \in 0 .. n |-> t[1 .. i]]
<1>10. /\ acc[0] = <<>>
       /\ \A i \in 1 .. n : acc[i] = PickStep(s, P, acc[i - 1], i)
       /\ acc[n] = Pick(s, P)
  <2>1. \A i \in 0 .. n : acc[i] = t[1 .. i]
    OBVIOUS
  <2>2. \A i \in 1 .. n : i \in 0 .. n /\ i - 1 \in 0 .. n
    OBVIOUS
  <2>3. 0 \in 0 .. n /\ n \in 0 .. n
    BY <1>2
  <2> HIDE DEF acc, t
  <2> QED BY <1>1, <1>8, <1>9, <2>1, <2>2, <2>3
<1>11. \A i \in 0 .. n : acc[i] \in D
  <2> DEFINE T == {i \in 0 .. n : acc[i] \in D}
  <2>1. 0 \in T
    <3>1. acc[0] = <<>>
      BY <1>10
    <3>2. 0 \in 0 .. n /\ <<>> \in D
      BY <1>2
    <3> HIDE DEF acc, D
    <3> QED BY <3>1, <3>2
  <2>2. ASSUME NEW i \in 1 .. n, i - 1 \in T PROVE i \in T
    <3> HIDE DEF acc
    <3> QED BY <1>3, <1>10, <2>2
  <2> HIDE DEF T
  <2>3. 0 .. n \subseteq T
    BY <1>2, <2>1, <2>2, IntervalByInduction
  <2> QED BY <2>3 DEF T
<1>12. acc \in [0 .. n -> D]
  BY <1>11
<1> HIDE DEF acc
<1> QED BY <1>10, <1>12

\* u is s and, at position n, x.
Longer(u, s, x) == u = Append(s, x)
Grown(u, s, x, n) == Longer(u, s, x) /\ n = Len(s) + 1

(* An element appended to the second of two sequences.                       *)
LEMMA AppendConcat ==
  ASSUME NEW S, NEW a \in Seq(S), NEW b \in Seq(S), NEW x \in S,
         NEW u, Longer(u, b, x)
  PROVE  Longer(a \o u, a \o b, x)
<1>1. <<x>> \in Seq(S) /\ a \o b \in Seq(S)
  OBVIOUS
<1>2. Append(a \o b, x) = (a \o b) \o <<x>> /\ Append(b, x) = b \o <<x>>
  BY <1>1, AppendIsConcat
<1> QED BY <1>1, <1>2, ConcatAssociative DEF Longer

(* Pick of no element, and of one element more.                              *)
LEMMA PickNone ==
  ASSUME NEW S, NEW s \in Seq(S), Len(s) = 0, NEW P
  PROVE  Pick(s, P) = <<>>
<1>1. PICK acc : acc[0] = <<>> /\ acc[Len(s)] = Pick(s, P)
  BY PickedStepwise
<1> QED BY <1>1

LEMMA PickMore ==
  ASSUME NEW S, NEW s \in Seq(S), NEW x \in S, NEW P,
         NEW u, NEW m, Grown(u, s, x, m)
  PROVE  /\ Pick(s, P) \in Seq(S)
         /\ m \in P => Longer(Pick(u, P), Pick(s, P), x)
         /\ m \notin P => Pick(u, P) = Pick(s, P)
<1> DEFINE n == Len(s)
<1>1. n \in Nat /\ u \in Seq(S) /\ Len(u) = n + 1 /\ u[n + 1] = x /\ \A i \in 1 .. n : u[i] = s[i]
  BY DEF Grown, Longer
<1>2. PICK a : /\ a \in [0 .. n -> Seq(S)] /\ a[0] = <<>>
               /\ \A i \in 1 .. n : a[i] = PickStep(s, P, a[i - 1], i)
               /\ a[n] = Pick(s, P)
  BY PickedStepwise
<1>3. PICK b : /\ b[0] = <<>>
               /\ \A i \in 1 .. n + 1 : b[i] = PickStep(u, P, b[i - 1], i)
               /\ b[n + 1] = Pick(u, P)
  <2> HIDE DEF n
  <2> QED BY <1>1, PickedStepwise
<1> HIDE DEF n
<1>4. 0 .. n \subseteq {i \in 0 .. n : a[i] = b[i]}
  <2> DEFINE T == {i \in 0 .. n : a[i] = b[i]}
  <2>1. 0 \in T
    BY <1>1, <1>2, <1>3
  <2>2. ASSUME NEW i \in 1 .. n, i - 1 \in T PROVE i \in T
    <3>1. i \in 1 .. n + 1 /\ a[i - 1] = b[i - 1]
      BY <1>1, <2>2
    <3>2. a[i] = PickStep(s, P, b[i - 1], i) /\ b[i] = PickStep(u, P, b[i - 1], i)
      BY <1>2, <1>3, <3>1
    <3>3. u[i] = s[i]
      BY <1>1
    <3> QED BY <1>1, <3>2, <3>3 DEF PickStep
  <2> HIDE DEF T
  <2>3. 0 .. n \subseteq T
    BY <1>1, <2>1, <2>2, IntervalByInduction
  <2> QED BY <2>3 DEF T
<1>5. b[n] = Pick(s, P) /\ Pick(s, P) \in Seq(S)
  BY <1>1, <1>2, <1>4
<1>6. Pick(u, P) = PickStep(u, P, Pick(s, P), n + 1)
  <2>1. n + 1 \in 1 .. n + 1 /\ (n + 1) - 1 = n
    BY <1>1
  <2>2. b[n + 1] = PickStep(u, P, b[(n + 1) - 1], n + 1)
    BY <1>3, <2>1
  <2>3. b[(n + 1) - 1] = Pick(s, P)
    BY <1>5, <2>1
  <2>4. Pick(u, P) = b[n + 1]
    BY <1>3
  <2> QED BY <2>2, <2>3, <2>4
<1>7. m = n + 1
  BY DEF Grown, n
<1> QED BY <1>1, <1>5, <1>6, <1>7 DEF PickStep, Longer

(* An appended element by its position.                                      *)
LEMMA Appended ==
  ASSUME NEW S, NEW s \in Seq(S), NEW x \in S, NEW u, NEW n, Grown(u, s, x, n)
  PROVE  /\ u \in Seq(S) /\ Len(s) \in Nat /\ n \in Nat /\ n > Len(s) /\ Len(u) = n /\ u[n] = x
         /\ n \in 1 .. Len(u)
         /\ \A i \in 1 .. Len(s) : u[i] = s[i] /\ i \in 1 .. Len(u) /\ i < n
         /\ \A i \in 1 .. Len(u) : i \in 1 .. Len(s) \/ i = n
BY DEF Grown, Longer

(* What is picked has the properties of the elements picked.                 *)
LEMMA PickType ==
  ASSUME NEW S, NEW R, NEW s \in Seq(S), NEW P, \A i \in 1 .. Len(s) : i \in P => s[i] \in R
  PROVE  Pick(s, P) \in Seq(R)
<1> DEFINE ok(u) == (\A i \in 1 .. Len(u) : i \in P => u[i] \in R) => Pick(u, P) \in Seq(R)
           T == {u \in Seq(S) : ok(u)}
<1>1. ASSUME NEW e \in Seq(S), Len(e) = 0 PROVE e \in T
  <2>1. Pick(e, P) = <<>>
    BY <1>1, PickNone
  <2> QED BY <2>1
<1>2. ASSUME NEW v \in Seq(S), NEW x \in S, v \in T PROVE Append(v, x) \in T
  <2>1. PICK u, n : Grown(u, v, x, n)
    BY DEF Grown, Longer
  <2>2. u \in Seq(S) /\ n \in 1 .. Len(u) /\ u[n] = x
        /\ \A i \in 1 .. Len(v) : u[i] = v[i] /\ i \in 1 .. Len(u)
    BY <2>1, Appended
  <2>3. /\ n \in P => Longer(Pick(u, P), Pick(v, P), x)
        /\ n \notin P => Pick(u, P) = Pick(v, P)
    BY <2>1, PickMore
  <2>4. ASSUME \A i \in 1 .. Len(u) : i \in P => u[i] \in R PROVE Pick(u, P) \in Seq(R)
    <3>1. Pick(v, P) \in Seq(R)
      BY <1>2, <2>2, <2>4
    <3>2. CASE n \in P
      <4>1. x \in R
        BY <2>2, <2>4, <3>2
      <4>2. Append(Pick(v, P), x) \in Seq(R)
        BY <3>1, <4>1
      <4> QED BY <2>3, <3>2, <4>2 DEF Longer
    <3>3. CASE n \notin P
      BY <2>3, <3>1, <3>3
    <3> QED BY <3>2, <3>3
  <2>5. u \in T
    BY <2>2, <2>4
  <2> QED BY <2>1, <2>5 DEF Grown, Longer
<1>3. Seq(S) \subseteq T
  <2> HIDE DEF T
  <2> QED BY <1>1, <1>2, SequencesByInduction
<1> QED BY <1>3

(* Two sets that agree on the positions pick the same.                       *)
LEMMA PickAgrees ==
  ASSUME NEW S, NEW s \in Seq(S), NEW P, NEW Q, \A i \in 1 .. Len(s) : i \in P <=> i \in Q
  PROVE  Pick(s, P) = Pick(s, Q)
<1> DEFINE ok(u) == (\A i \in 1 .. Len(u) : i \in P <=> i \in Q) => Pick(u, P) = Pick(u, Q)
           T == {u \in Seq(S) : ok(u)}
<1>1. ASSUME NEW e \in Seq(S), Len(e) = 0 PROVE e \in T
  <2>1. Pick(e, P) = <<>> /\ Pick(e, Q) = <<>>
    BY <1>1, PickNone
  <2> QED BY <2>1
<1>2. ASSUME NEW v \in Seq(S), NEW x \in S, v \in T PROVE Append(v, x) \in T
  <2>1. PICK u, n : Grown(u, v, x, n)
    BY DEF Grown, Longer
  <2>2. u \in Seq(S) /\ n \in 1 .. Len(u) /\ \A i \in 1 .. Len(v) : i \in 1 .. Len(u)
    BY <2>1, Appended
  <2>3. /\ n \in P => Longer(Pick(u, P), Pick(v, P), x)
        /\ n \notin P => Pick(u, P) = Pick(v, P)
        /\ n \in Q => Longer(Pick(u, Q), Pick(v, Q), x)
        /\ n \notin Q => Pick(u, Q) = Pick(v, Q)
    BY <2>1, PickMore
  <2>4. ASSUME \A i \in 1 .. Len(u) : i \in P <=> i \in Q PROVE Pick(u, P) = Pick(u, Q)
    <3>1. Pick(v, P) = Pick(v, Q)
      BY <1>2, <2>2, <2>4
    <3> QED BY <2>2, <2>3, <2>4, <3>1 DEF Longer
  <2>5. u \in T
    BY <2>2, <2>4
  <2> QED BY <2>1, <2>5 DEF Grown, Longer
<1>3. Seq(S) \subseteq T
  <2> HIDE DEF T
  <2> QED BY <1>1, <1>2, SequencesByInduction
<1> QED BY <1>3

(* Every position: the sequence itself.                                      *)
LEMMA PickAll ==
  ASSUME NEW S, NEW s \in Seq(S), NEW P, \A i \in 1 .. Len(s) : i \in P
  PROVE  Pick(s, P) = s
<1> DEFINE ok(u) == (\A i \in 1 .. Len(u) : i \in P) => Pick(u, P) = u
           T == {u \in Seq(S) : ok(u)}
<1>1. ASSUME NEW e \in Seq(S), Len(e) = 0 PROVE e \in T
  <2>1. Pick(e, P) = <<>>
    BY <1>1, PickNone
  <2>2. e = <<>>
    BY <1>1
  <2> QED BY <2>1, <2>2
<1>2. ASSUME NEW v \in Seq(S), NEW x \in S, v \in T PROVE Append(v, x) \in T
  <2>1. PICK u, n : Grown(u, v, x, n)
    BY DEF Grown, Longer
  <2>2. u \in Seq(S) /\ n \in 1 .. Len(u) /\ \A i \in 1 .. Len(v) : i \in 1 .. Len(u)
    BY <2>1, Appended
  <2>3. n \in P => Longer(Pick(u, P), Pick(v, P), x)
    BY <2>1, PickMore
  <2>4. ASSUME \A i \in 1 .. Len(u) : i \in P PROVE Pick(u, P) = u
    <3>1. Pick(v, P) = v /\ n \in P
      BY <1>2, <2>2, <2>4
    <3> QED BY <2>1, <2>3, <3>1 DEF Grown, Longer
  <2>5. u \in T
    BY <2>2, <2>4
  <2> QED BY <2>1, <2>5 DEF Grown, Longer
<1>3. Seq(S) \subseteq T
  <2> HIDE DEF T
  <2> QED BY <1>1, <1>2, SequencesByInduction
<1> QED BY <1>3

\* The positions up to k and the others.
Apart(P, k, front, rest) == front = P \cap (1 .. k) /\ rest = P \ (1 .. k)

(* What is picked before k, then what is picked behind it.                   *)
LEMMA PickApart ==
  ASSUME NEW S, NEW s \in Seq(S), NEW P, NEW k \in Nat,
         NEW front, NEW rest, Apart(P, k, front, rest)
  PROVE  Pick(s, P) = Pick(s, front) \o Pick(s, rest)
<1>0. front = P \cap (1 .. k) /\ rest = P \ (1 .. k)
  BY DEF Apart
<1> DEFINE ok(u) == Pick(u, P) = Pick(u, front) \o Pick(u, rest)
           T == {u \in Seq(S) : ok(u)}
<1>1. ASSUME NEW e \in Seq(S), Len(e) = 0 PROVE e \in T
  <2>1. Pick(e, P) = <<>> /\ Pick(e, front) = <<>> /\ Pick(e, rest) = <<>>
    BY <1>1, PickNone
  <2>2. <<>> \o <<>> = <<>>
    OBVIOUS
  <2> QED BY <2>1, <2>2
<1>2. ASSUME NEW v \in Seq(S), NEW x \in S, v \in T PROVE Append(v, x) \in T
  <2>1. PICK u, n : Grown(u, v, x, n)
    BY DEF Grown, Longer
  <2>2. u \in Seq(S) /\ n \in Nat /\ Len(v) \in Nat /\ n > Len(v) /\ n \in 1 .. Len(u)
    BY <2>1, Appended
  <2>3. ASSUME NEW Q
        PROVE  /\ Pick(v, Q) \in Seq(S)
               /\ n \in Q => Longer(Pick(u, Q), Pick(v, Q), x)
               /\ n \notin Q => Pick(u, Q) = Pick(v, Q)
    BY <2>1, PickMore
  <2>4. PICK a, b : a = Pick(v, front) /\ b = Pick(v, rest)
    OBVIOUS
  <2>5. a \in Seq(S) /\ b \in Seq(S)
    BY <2>3, <2>4
  <2>6. n \in 1 .. k => b = <<>>
    <3> SUFFICES ASSUME n \in 1 .. k PROVE b = <<>>
      OBVIOUS
    <3>1. \A i \in 1 .. Len(v) : i \in rest => v[i] \in {}
      BY <1>0, <2>2
    <3>2. b \in Seq({})
      BY <2>4, <3>1, PickType
    <3> QED BY <3>2
  <2>7. /\ n \in P /\ n \in 1 .. k => n \in front /\ n \notin rest
        /\ n \in P /\ n \notin 1 .. k => n \notin front /\ n \in rest
        /\ n \notin P => n \notin front /\ n \notin rest
    BY <1>0
  <2>8. Pick(v, P) = a \o b
    BY <1>2, <2>4
  <2>9. ASSUME NEW bx, Longer(bx, b, x) PROVE Longer(a \o bx, a \o b, x)
    BY <2>5, <2>9, AppendConcat
  <2>10. b = <<>> => a \o b = a /\ \A ax : Longer(ax, a, x) => ax \o b = ax
    BY <2>5 DEF Longer
  <2>11. Pick(u, P) = Pick(u, front) \o Pick(u, rest)
    <3>1. CASE n \notin P
      <4>1. n \notin front /\ n \notin rest
        BY <2>7, <3>1
      <4>2. Pick(u, P) = Pick(v, P)
        BY <2>3, <3>1
      <4>3. Pick(u, front) = Pick(v, front) /\ Pick(u, rest) = Pick(v, rest)
        BY <2>3, <4>1
      <4> QED BY <2>4, <2>8, <4>2, <4>3
    <3>2. CASE n \in P /\ n \in 1 .. k
      <4>1. n \in front /\ n \notin rest
        BY <2>7, <3>2
      <4>2. Longer(Pick(u, P), Pick(v, P), x) /\ Longer(Pick(u, front), Pick(v, front), x)
            /\ Pick(u, rest) = Pick(v, rest)
        BY <2>3, <3>2, <4>1
      <4>3. b = <<>>
        BY <2>6, <3>2
      <4>4. Pick(v, P) = a
        BY <2>8, <2>10, <4>3
      <4>5. Pick(u, P) = Pick(u, front)
        BY <2>4, <4>2, <4>4 DEF Longer
      <4>6. Pick(u, front) \o b = Pick(u, front)
        BY <2>4, <2>10, <4>2, <4>3
      <4> QED BY <2>4, <4>2, <4>5, <4>6
    <3>3. CASE n \in P /\ n \notin 1 .. k
      BY <2>3, <2>4, <2>7, <2>8, <2>9, <3>3 DEF Longer
    <3> QED BY <3>1, <3>2, <3>3
  <2>12. u \in T
    BY <2>2, <2>11
  <2> QED BY <2>1, <2>12 DEF Grown, Longer
<1>3. Seq(S) \subseteq T
  <2> HIDE DEF T
  <2> QED BY <1>1, <1>2, SequencesByInduction
<1> QED BY <1>3

-----------------------------------------------------------------------------
(* What a text holds, and in which order                                     *)

Holds(s, x) == \E i \in 1 .. Len(s) : s[i] = x
Before(s, x, y) == \E i, j \in 1 .. Len(s) : i < j /\ s[i] = x /\ s[j] = y

(* An appended element comes after the others.                               *)
LEMMA HeldAppended ==
  ASSUME NEW S, NEW s \in Seq(S), NEW z \in S, NEW u, Longer(u, s, z), NEW x, NEW y
  PROVE  /\ Holds(u, x) <=> Holds(s, x) \/ z = x
         /\ Before(u, x, y) <=> Before(s, x, y) \/ (Holds(s, x) /\ z = y)
<1>1. PICK n : Grown(u, s, z, n)
  BY DEF Grown
<1>2. /\ u \in Seq(S) /\ Len(s) \in Nat /\ n \in Nat /\ n > Len(s) /\ Len(u) = n /\ u[n] = z
      /\ n \in 1 .. Len(u)
      /\ \A i \in 1 .. Len(s) : u[i] = s[i] /\ i \in 1 .. Len(u) /\ i < n
      /\ \A i \in 1 .. Len(u) : i \in 1 .. Len(s) \/ i = n
  BY <1>1, Appended
<1>3. Holds(u, x) <=> Holds(s, x) \/ z = x
  BY <1>2 DEF Holds
<1>4. Before(u, x, y) => Before(s, x, y) \/ (Holds(s, x) /\ z = y)
  <2> SUFFICES ASSUME NEW i \in 1 .. Len(u), NEW j \in 1 .. Len(u), i < j, u[i] = x, u[j] = y
               PROVE  Before(s, x, y) \/ (Holds(s, x) /\ z = y)
    BY DEF Before
  <2>1. i \in 1 .. Len(s) /\ s[i] = x
    BY <1>2
  <2>2. CASE j = n
    BY <1>2, <2>1, <2>2 DEF Holds
  <2>3. CASE j # n
    <3>1. j \in 1 .. Len(s) /\ s[j] = y
      BY <1>2, <2>3
    <3> QED BY <2>1, <3>1 DEF Before
  <2> QED BY <2>2, <2>3
<1>5. Before(s, x, y) => Before(u, x, y)
  BY <1>2 DEF Before
<1>6. Holds(s, x) /\ z = y => Before(u, x, y)
  BY <1>2 DEF Before, Holds
<1> QED BY <1>3, <1>4, <1>5, <1>6

(* The second of two texts comes after the first.                            *)
LEMMA HeldConcat ==
  ASSUME NEW S, NEW a \in Seq(S), NEW b \in Seq(S), NEW x, NEW y
  PROVE  /\ Holds(a \o b, x) <=> Holds(a, x) \/ Holds(b, x)
         /\ Before(a \o b, x, y)
              <=> Before(a, x, y) \/ Before(b, x, y) \/ (Holds(a, x) /\ Holds(b, y))
<1> DEFINE ok(u) == /\ Holds(a \o u, x) <=> Holds(a, x) \/ Holds(u, x)
                    /\ Before(a \o u, x, y)
                         <=> Before(a, x, y) \/ Before(u, x, y) \/ (Holds(a, x) /\ Holds(u, y))
           T == {u \in Seq(S) : ok(u)}
<1>1. ASSUME NEW e \in Seq(S), Len(e) = 0 PROVE e \in T
  <2>1. a \o e = a
    BY <1>1
  <2>2. \A z : ~Holds(e, z) /\ ~Before(e, x, z)
    BY <1>1 DEF Holds, Before
  <2> QED BY <2>1, <2>2
<1>2. ASSUME NEW v \in Seq(S), NEW z \in S, v \in T PROVE Append(v, z) \in T
  <2>1. PICK u : Longer(u, v, z)
    BY DEF Longer
  <2>2. u \in Seq(S) /\ a \o v \in Seq(S)
    BY <2>1, ConcatProperties DEF Longer
  <2>3. Longer(a \o u, a \o v, z)
    BY <2>1, AppendConcat
  <2>4. /\ Holds(u, x) <=> Holds(v, x) \/ z = x
        /\ Holds(u, y) <=> Holds(v, y) \/ z = y
        /\ Before(u, x, y) <=> Before(v, x, y) \/ (Holds(v, x) /\ z = y)
    BY <2>1, HeldAppended
  <2>5. /\ Holds(a \o u, x) <=> Holds(a \o v, x) \/ z = x
        /\ Before(a \o u, x, y) <=> Before(a \o v, x, y) \/ (Holds(a \o v, x) /\ z = y)
    BY <2>2, <2>3, HeldAppended
  <2>6. /\ Holds(a \o v, x) <=> Holds(a, x) \/ Holds(v, x)
        /\ Before(a \o v, x, y)
             <=> Before(a, x, y) \/ Before(v, x, y) \/ (Holds(a, x) /\ Holds(v, y))
    BY <1>2
  <2>7. ok(u)
    BY <2>4, <2>5, <2>6
  <2> QED BY <2>1, <2>2, <2>7 DEF Longer
<1>3. Seq(S) \subseteq T
  <2> HIDE DEF T
  <2> QED BY <1>1, <1>2, SequencesByInduction
<1> QED BY <1>3

(* What is picked was there, in the same order.                              *)
LEMMA PickHolds ==
  ASSUME NEW S, NEW s \in Seq(S), NEW P, NEW x, NEW y
  PROVE  /\ Holds(Pick(s, P), x) <=> \E i \in 1 .. Len(s) : i \in P /\ s[i] = x
         /\ Before(Pick(s, P), x, y) => Before(s, x, y)
<1> DEFINE held(u, z) == \E i \in 1 .. Len(u) : i \in P /\ u[i] = z
           ok(u) == /\ Holds(Pick(u, P), x) <=> held(u, x)
                    /\ Before(Pick(u, P), x, y) => Before(u, x, y)
           T == {u \in Seq(S) : ok(u)}
<1>1. ASSUME NEW e \in Seq(S), Len(e) = 0 PROVE e \in T
  <2>1. Pick(e, P) = <<>>
    BY <1>1, PickNone
  <2>2. ~Holds(<<>>, x) /\ ~Before(<<>>, x, y)
    BY DEF Holds, Before
  <2>3. ~held(e, x)
    BY <1>1
  <2> QED BY <2>1, <2>2, <2>3
<1>2. ASSUME NEW v \in Seq(S), NEW z \in S, v \in T PROVE Append(v, z) \in T
  <2>1. PICK u, n : Grown(u, v, z, n)
    BY DEF Grown, Longer
  <2>2. /\ u \in Seq(S) /\ n \in 1 .. Len(u) /\ u[n] = z
        /\ \A i \in 1 .. Len(v) : u[i] = v[i] /\ i \in 1 .. Len(u)
        /\ \A i \in 1 .. Len(u) : i \in 1 .. Len(v) \/ i = n
    BY <2>1, Appended
  <2>3. /\ Pick(v, P) \in Seq(S)
        /\ n \in P => Longer(Pick(u, P), Pick(v, P), z)
        /\ n \notin P => Pick(u, P) = Pick(v, P)
    BY <2>1, PickMore
  <2>4. /\ Holds(u, x) <=> Holds(v, x) \/ z = x
        /\ Before(u, x, y) <=> Before(v, x, y) \/ (Holds(v, x) /\ z = y)
    BY <2>1, HeldAppended DEF Grown
  <2>5. held(u, x) <=> held(v, x) \/ (n \in P /\ z = x)
    BY <2>2
  <2>6. held(v, x) => Holds(v, x)
    BY DEF Holds
  <2>7. /\ Holds(Pick(v, P), x) <=> held(v, x)
        /\ Before(Pick(v, P), x, y) => Before(v, x, y)
    BY <1>2
  <2> HIDE DEF held
  <2>8. CASE n \in P
    <3>1. /\ Holds(Pick(u, P), x) <=> Holds(Pick(v, P), x) \/ z = x
          /\ Before(Pick(u, P), x, y)
               <=> Before(Pick(v, P), x, y) \/ (Holds(Pick(v, P), x) /\ z = y)
      BY <2>3, <2>8, HeldAppended
    <3> QED BY <2>1, <2>2, <2>4, <2>5, <2>6, <2>7, <2>8, <3>1 DEF Grown, Longer
  <2>9. CASE n \notin P
    <3>1. Pick(u, P) = Pick(v, P)
      BY <2>3, <2>9
    <3> QED BY <2>1, <2>2, <2>4, <2>5, <2>6, <2>7, <2>9, <3>1 DEF Grown, Longer
  <2> QED BY <2>8, <2>9
<1>3. Seq(S) \subseteq T
  <2> HIDE DEF T
  <2> QED BY <1>1, <1>2, SequencesByInduction
<1> QED BY <1>3

(* What is picked begins with the first element picked.                      *)
LEMMA PickFirst ==
  ASSUME NEW S, NEW s \in Seq(S), NEW P, NEW k \in 1 .. Len(s), k \in P,
         \A i \in 1 .. k - 1 : i \notin P
  PROVE  Len(Pick(s, P)) > 0 /\ Pick(s, P)[1] = s[k]
<1> DEFINE ok(u) == k <= Len(u) => Len(Pick(u, P)) > 0 /\ Pick(u, P)[1] = u[k]
           T == {u \in Seq(S) : ok(u)}
<1>1. ASSUME NEW e \in Seq(S), Len(e) = 0 PROVE e \in T
  BY <1>1
<1>2. ASSUME NEW v \in Seq(S), NEW z \in S, v \in T PROVE Append(v, z) \in T
  <2>1. PICK u, n : Grown(u, v, z, n)
    BY DEF Grown, Longer
  <2>2. /\ u \in Seq(S) /\ Len(u) = n /\ n = Len(v) + 1 /\ u[n] = z /\ Len(v) \in Nat
        /\ \A i \in 1 .. Len(v) : u[i] = v[i]
    BY <2>1, Appended DEF Grown
  <2>3. /\ Pick(v, P) \in Seq(S)
        /\ n \in P => Longer(Pick(u, P), Pick(v, P), z)
        /\ n \notin P => Pick(u, P) = Pick(v, P)
    BY <2>1, PickMore
  <2>4. ASSUME k <= Len(u) PROVE Len(Pick(u, P)) > 0 /\ Pick(u, P)[1] = u[k]
    <3>1. CASE k = n
      <4>1. \A i \in 1 .. Len(v) : i \in P => v[i] \in {}
        BY <2>2, <3>1
      <4>2. Pick(v, P) \in Seq({})
        BY <4>1, PickType
      <4>3. Pick(v, P) = <<>>
        BY <4>2
      <4>4. Pick(u, P) = Append(<<>>, z)
        BY <2>3, <3>1, <4>3 DEF Longer
      <4>5. Len(Append(<<>>, z)) = 1 /\ Append(<<>>, z)[1] = z
        OBVIOUS
      <4> QED BY <2>2, <3>1, <4>4, <4>5
    <3>2. CASE k # n
      <4>1. k <= Len(v) /\ u[k] = v[k]
        BY <2>2, <2>4, <3>2
      <4>2. PICK p \in Seq(S) : p = Pick(v, P) /\ Len(p) > 0 /\ p[1] = u[k]
        BY <1>2, <2>3, <4>1
      <4>3. Len(Append(p, z)) > 0 /\ Append(p, z)[1] = u[k]
        BY <4>2
      <4>4. Pick(u, P) = Append(p, z) \/ Pick(u, P) = p
        BY <2>3, <4>2 DEF Longer
      <4> QED BY <4>2, <4>3, <4>4
    <3> QED BY <3>1, <3>2
  <2>5. u \in T
    BY <2>2, <2>4
  <2> QED BY <2>1, <2>5 DEF Grown, Longer
<1>3. Seq(S) \subseteq T
  <2> HIDE DEF T
  <2> QED BY <1>1, <1>2, SequencesByInduction
<1> QED BY <1>3

-----------------------------------------------------------------------------
(* Tool calls                                                                *)

\* No tool call is complete.
Callless(s) == ~Before(s, "call", "end")

\* The piece x arrives at e, where no tool call is complete: closing braces take all
\* that follows the first head with them.
Swallowed(e, x, r) ==
  \/ (x # "end" \/ ~Holds(e, "call")) /\ Longer(r, e, x)
  \/ /\ x = "end"
     /\ ~Holds(r, "call")
     /\ \E b \in Seq(Plain) : Len(b) > 0 /\ b[1] = "call" /\ e = r \o b

Kept(s) ==
  {i \in DOMAIN s :
     ~ \E h \in 1 .. i : /\ s[h] = "call"
                         /\ \A k \in h .. (i - 1) : s[k] # "end"
                         /\ \E t \in i .. Len(s) : s[t] = "end"}

(* A head of a tool call is kept if no braces follow it, and a head that is  *)
(* kept is followed by none.                                                 *)
LEMMA KeptHeads ==
  ASSUME NEW s \in Seq(Plain), NEW h \in 1 .. Len(s), s[h] = "call"
  PROVE  h \in Kept(s) <=> \A t \in h .. Len(s) : s[t] # "end"
<1>1. DOMAIN s = 1 .. Len(s) /\ Len(s) \in Nat
  OBVIOUS
<1>2. h \in 1 .. h /\ h .. (h - 1) = {}
  OBVIOUS
<1> QED BY <1>1, <1>2 DEF Kept

(* DropToolCalls of one piece more.                                          *)
LEMMA DropMore ==
  ASSUME NEW s \in Seq(Plain), NEW x \in Plain, NEW u, Longer(u, s, x)
  PROVE  /\ DropToolCalls(s) \in Seq(Plain)
         /\ Swallowed(DropToolCalls(s), x, DropToolCalls(u))
<1>1. PICK n : Grown(u, s, x, n)
  BY DEF Grown
<1>2. /\ u \in Seq(Plain) /\ Len(s) \in Nat /\ n = Len(s) + 1 /\ Len(u) = n /\ u[n] = x
      /\ \A i \in 1 .. Len(s) : u[i] = s[i]
  BY <1>1, Appended DEF Grown
<1>3. DropToolCalls(s) = Pick(s, Kept(s)) /\ DropToolCalls(u) = Pick(u, Kept(u))
  BY DEF DropToolCalls, Kept
<1>4. ASSUME NEW P
      PROVE  /\ Pick(s, P) \in Seq(Plain)
             /\ n \in P => Longer(Pick(u, P), Pick(s, P), x)
             /\ n \notin P => Pick(u, P) = Pick(s, P)
  BY <1>1, PickMore
<1> DEFINE open(i) == \E h \in 1 .. i : u[h] = "call" /\ \A k \in h .. (i - 1) : u[k] # "end"
<1>5. \A i \in 1 .. Len(s) :
         i \in Kept(s) <=> ~(open(i) /\ \E t \in i .. Len(s) : s[t] = "end")
  <2> SUFFICES ASSUME NEW i \in 1 .. Len(s)
               PROVE  i \in Kept(s) <=> ~(open(i) /\ \E t \in i .. Len(s) : s[t] = "end")
    OBVIOUS
  <2>1. i \in DOMAIN s /\ \A h \in 1 .. i : h \in 1 .. Len(s) /\ \A k \in h .. (i - 1) : k \in 1 .. Len(s)
    BY <1>2
  <2> QED BY <1>2, <2>1 DEF Kept
<1>6. \A i \in 1 .. n :
         i \in Kept(u) <=> ~(open(i) /\ \E t \in i .. n : u[t] = "end")
  <2>1. DOMAIN u = 1 .. n
    BY <1>2
  <2> QED BY <1>2, <2>1 DEF Kept
<1>7. CASE x # "end"
  <2>1. \A i \in 1 .. Len(s) : i \in Kept(u) <=> i \in Kept(s)
    <3> SUFFICES ASSUME NEW i \in 1 .. Len(s) PROVE i \in Kept(u) <=> i \in Kept(s)
      OBVIOUS
    <3>1. (\E t \in i .. n : u[t] = "end") <=> (\E t \in i .. Len(s) : s[t] = "end")
      BY <1>2, <1>7
    <3>2. i \in 1 .. n
      BY <1>2
    <3> HIDE DEF open
    <3> QED BY <1>5, <1>6, <3>1, <3>2
  <2>2. n \in Kept(u)
    <3>1. n \in 1 .. n /\ ~ \E t \in n .. n : u[t] = "end"
      BY <1>2, <1>7
    <3> HIDE DEF open
    <3> QED BY <1>6, <3>1
  <2>3. Pick(s, Kept(u)) = Pick(s, Kept(s))
    BY <2>1, PickAgrees
  <2>4. Longer(Pick(u, Kept(u)), Pick(s, Kept(s)), x)
    BY <1>4, <2>2, <2>3
  <2> QED BY <1>3, <1>4, <1>7, <2>4 DEF Swallowed
<1>8. CASE x = "end"
  <2>0. \A i \in 1 .. n : i \in Kept(u) <=> ~open(i)
    <3> SUFFICES ASSUME NEW i \in 1 .. n PROVE i \in Kept(u) <=> ~open(i)
      OBVIOUS
    <3>1. n \in i .. n /\ u[n] = "end"
      BY <1>2, <1>8
    <3> HIDE DEF open
    <3> QED BY <1>6, <3>1
  <2> DEFINE H == {h \in 1 .. Len(s) : s[h] = "call" /\ h \in Kept(s)}
  <2>1. Holds(Pick(s, Kept(s)), "call") <=> H # {}
    BY PickHolds
  <2>2. \A h \in 1 .. Len(s) : h \in H <=> s[h] = "call" /\ \A t \in h .. Len(s) : s[t] # "end"
    BY KeptHeads
  <2> HIDE DEF H
  <2>3. ASSUME NEW i \in 1 .. n, open(i), \A t \in i .. Len(s) : s[t] # "end"
        PROVE  \E h \in H : h <= i
    <3>1. PICK h \in 1 .. i : u[h] = "call" /\ \A k \in h .. (i - 1) : u[k] # "end"
      BY <2>3
    <3>2. h \in 1 .. Len(s) /\ s[h] = "call"
      BY <1>2, <1>8, <3>1
    <3>3. ASSUME NEW t \in h .. Len(s) PROVE s[t] # "end"
      <4>1. CASE t < i
        BY <1>2, <3>1, <4>1
      <4>2. CASE ~(t < i)
        BY <1>2, <2>3, <4>2
      <4> QED BY <4>1, <4>2
    <3> QED BY <2>2, <3>2, <3>3
  <2>4. CASE H = {}
    <3>1. \A i \in 1 .. Len(s) : i \in Kept(u) <=> i \in Kept(s)
      <4> SUFFICES ASSUME NEW i \in 1 .. Len(s) PROVE i \in Kept(u) <=> i \in Kept(s)
        OBVIOUS
      <4>1. i \in 1 .. n
        BY <1>2
      <4> HIDE DEF open
      <4> QED BY <1>5, <2>0, <2>3, <2>4, <4>1
    <3>2. n \in Kept(u)
      <4>1. n \in 1 .. n /\ \A t \in n .. Len(s) : s[t] # "end"
        BY <1>2
      <4> HIDE DEF open
      <4> QED BY <2>0, <2>3, <2>4, <4>1
    <3>3. Pick(s, Kept(u)) = Pick(s, Kept(s))
      BY <3>1, PickAgrees
    <3>4. Longer(Pick(u, Kept(u)), Pick(s, Kept(s)), x)
      BY <1>4, <3>2, <3>3
    <3> QED BY <1>3, <1>4, <2>1, <2>4, <3>4 DEF Swallowed
  <2>5. CASE H # {}
    <3>1. H \in SUBSET Nat
      BY DEF H
    <3>2. PICK m \in H : \A h \in H : m <= h
      BY <2>5, <3>1, LeastNatural
    <3>3. m \in 1 .. Len(s) /\ s[m] = "call" /\ m \in Kept(s) /\ \A t \in m .. Len(s) : s[t] # "end"
      BY <2>2 DEF H
    <3> DEFINE k == m - 1
               front == Kept(s) \cap (1 .. k)
               rest == Kept(s) \ (1 .. k)
    <3>4. k \in Nat
      BY <3>3
    <3>5. Pick(s, Kept(s)) = Pick(s, front) \o Pick(s, rest)
      <4>1. front = Kept(s) \cap (1 .. k) /\ rest = Kept(s) \ (1 .. k)
        OBVIOUS
      <4> HIDE DEF k, front, rest
      <4>2. Apart(Kept(s), k, front, rest)
        BY <4>1 DEF Apart
      <4> QED BY <3>4, <4>2, PickApart
    <3>6. \A i \in 1 .. Len(s) : i \in Kept(u) <=> i \in front
      <4> SUFFICES ASSUME NEW i \in 1 .. Len(s) PROVE i \in Kept(u) <=> i \in front
        OBVIOUS
      <4>1. i \in 1 .. n
        BY <1>2
      <4>2. CASE i < m
        <5>1. i \in Kept(s) <=> i \in front
          BY <3>3, <4>2
        <5>2. ~ \E h \in H : h <= i
          BY <3>1, <3>2, <3>3, <4>2
        <5>3. open(i) => \E t \in i .. Len(s) : s[t] = "end"
          <6> HIDE DEF open
          <6> QED BY <2>3, <4>1, <5>2
        <5> HIDE DEF open, front
        <5> QED BY <1>5, <2>0, <4>1, <5>1, <5>3
      <4>3. CASE ~(i < m)
        <5>1. i \notin front
          BY <3>3, <4>3
        <5>2. m \in 1 .. i /\ u[m] = "call" /\ \A j \in m .. (i - 1) : u[j] # "end"
          BY <1>2, <3>3, <4>3
        <5>3. open(i)
          BY <5>2
        <5> HIDE DEF open, front
        <5> QED BY <2>0, <4>1, <5>1, <5>3
      <4> QED BY <4>2, <4>3
    <3>7. n \notin Kept(u)
      <4>1. m \in 1 .. n /\ u[m] = "call" /\ \A j \in m .. (n - 1) : u[j] # "end"
        BY <1>2, <3>3
      <4>2. open(n) /\ n \in 1 .. n
        BY <1>2, <4>1
      <4> HIDE DEF open
      <4> QED BY <2>0, <4>2
    <3>8. Pick(u, Kept(u)) = Pick(s, front)
      <4>1. Pick(s, Kept(u)) = Pick(s, front)
        <5> HIDE DEF front
        <5> QED BY <3>6, PickAgrees
      <4> QED BY <1>4, <3>7, <4>1
    <3>9. ~Holds(Pick(s, front), "call")
      <4>1. ~ \E i \in 1 .. Len(s) : i \in front /\ s[i] = "call"
        <5> SUFFICES ASSUME NEW i \in 1 .. Len(s), i \in front, s[i] = "call" PROVE FALSE
          OBVIOUS
        <5>1. i \in H /\ i < m
          BY <3>3 DEF H
        <5> QED BY <3>1, <3>2, <5>1
      <4> HIDE DEF front
      <4> QED BY <4>1, PickHolds
    <3>10. Pick(s, rest) \in Seq(Plain) /\ Len(Pick(s, rest)) > 0 /\ Pick(s, rest)[1] = "call"
      <4>1. m \in rest /\ \A i \in 1 .. m - 1 : i \notin rest
        BY <3>3
      <4> HIDE DEF rest
      <4> QED BY <1>4, <3>3, <4>1, PickFirst
    <3> HIDE DEF front, rest
    <3> QED BY <1>3, <1>4, <1>8, <3>5, <3>8, <3>9, <3>10 DEF Swallowed
  <2> QED BY <2>4, <2>5
<1> QED BY <1>7, <1>8

(* The result depends on the text and the piece alone.                       *)
LEMMA SwallowedOnce ==
  ASSUME NEW e \in Seq(Plain), NEW x,
         NEW r \in Seq(Plain), Swallowed(e, x, r), NEW q \in Seq(Plain), Swallowed(e, x, q)
  PROVE  r = q
<1>1. CASE x # "end" \/ ~Holds(e, "call")
  <2>1. r = Append(e, x)
    <3>1. CASE Longer(r, e, x)
      BY <3>1 DEF Longer
    <3>2. CASE ~Longer(r, e, x)
      <4>1. PICK b \in Seq(Plain) : Len(b) > 0 /\ b[1] = "call" /\ e = r \o b /\ x = "end"
        BY <3>2 DEF Swallowed
      <4>2. Holds(b, "call")
        BY <4>1 DEF Holds
      <4>3. Holds(r \o b, "call")
        BY <4>2, HeldConcat
      <4> QED BY <1>1, <4>1, <4>3
    <3> QED BY <3>1, <3>2
  <2>2. q = Append(e, x)
    <3>1. CASE Longer(q, e, x)
      BY <3>1 DEF Longer
    <3>2. CASE ~Longer(q, e, x)
      <4>1. PICK b \in Seq(Plain) : Len(b) > 0 /\ b[1] = "call" /\ e = q \o b /\ x = "end"
        BY <3>2 DEF Swallowed
      <4>2. Holds(b, "call")
        BY <4>1 DEF Holds
      <4>3. Holds(q \o b, "call")
        BY <4>2, HeldConcat
      <4> QED BY <1>1, <4>1, <4>3
    <3> QED BY <3>1, <3>2
  <2> QED BY <2>1, <2>2
<1>2. CASE ~(x # "end" \/ ~Holds(e, "call"))
  <2>1. PICK b \in Seq(Plain) : Len(b) > 0 /\ b[1] = "call" /\ e = r \o b /\ ~Holds(r, "call")
    BY <1>2 DEF Swallowed
  <2>2. PICK c \in Seq(Plain) : Len(c) > 0 /\ c[1] = "call" /\ e = q \o c /\ ~Holds(q, "call")
    BY <1>2 DEF Swallowed
  <2>3. /\ Len(r) \in Nat /\ Len(q) \in Nat /\ Len(e) \in Nat
        /\ Len(e) > Len(r) /\ Len(e) > Len(q)
        /\ \A i \in 1 .. Len(r) : e[i] = r[i]
        /\ \A i \in 1 .. Len(q) : e[i] = q[i]
        /\ e[Len(r) + 1] = "call" /\ e[Len(q) + 1] = "call"
    <3>1. Len(b) \in Nat /\ Len(c) \in Nat
      OBVIOUS
    <3>2. Len(e) = Len(r) + Len(b) /\ Len(e) = Len(q) + Len(c)
      BY <2>1, <2>2, ConcatProperties
    <3>3. \A i \in 1 .. Len(r) + Len(b) : e[i] = IF i <= Len(r) THEN r[i] ELSE b[i - Len(r)]
      BY <2>1, ConcatProperties
    <3>4. \A i \in 1 .. Len(q) + Len(c) : e[i] = IF i <= Len(q) THEN q[i] ELSE c[i - Len(q)]
      BY <2>2, ConcatProperties
    <3>5. Len(r) \in Nat /\ Len(q) \in Nat
      OBVIOUS
    <3>6. /\ (Len(r) + 1) - Len(r) = 1 /\ Len(r) + 1 \in 1 .. Len(r) + Len(b)
          /\ ~(Len(r) + 1 <= Len(r))
      BY <2>1, <3>1, <3>5
    <3>7. /\ (Len(q) + 1) - Len(q) = 1 /\ Len(q) + 1 \in 1 .. Len(q) + Len(c)
          /\ ~(Len(q) + 1 <= Len(q))
      BY <2>2, <3>1, <3>5
    <3>8. e[Len(r) + 1] = b[1] /\ e[Len(q) + 1] = c[1]
      BY <3>3, <3>4, <3>6, <3>7
    <3> QED BY <2>1, <2>2, <3>1, <3>2, <3>3, <3>4, <3>5, <3>8
  <2>4. ~(Len(r) < Len(q))
    <3> SUFFICES ASSUME Len(r) < Len(q) PROVE FALSE
      OBVIOUS
    <3>1. Len(r) + 1 \in 1 .. Len(q)
      BY <2>3
    <3> QED BY <2>2, <2>3, <3>1 DEF Holds
  <2>5. ~(Len(q) < Len(r))
    <3> SUFFICES ASSUME Len(q) < Len(r) PROVE FALSE
      OBVIOUS
    <3>1. Len(q) + 1 \in 1 .. Len(r)
      BY <2>3
    <3> QED BY <2>1, <2>3, <3>1 DEF Holds
  <2>6. Len(r) = Len(q) /\ \A i \in 1 .. Len(r) : r[i] = q[i]
    BY <2>3, <2>4, <2>5
  <2> QED BY <2>6, SeqEqual
<1> QED BY <1>1, <1>2

(* Nothing in, nothing out.                                                  *)
LEMMA DropNone ==
  ASSUME NEW s \in Seq(Plain), Len(s) = 0
  PROVE  DropToolCalls(s) = <<>>
BY PickNone DEF DropToolCalls

(* No complete tool call is left, and where there is none nothing is dropped. *)
LEMMA DroppedCallless ==
  ASSUME NEW s \in Seq(Plain)
  PROVE  /\ Callless(DropToolCalls(s))
         /\ Callless(s) => DropToolCalls(s) = s
<1>1. Callless(DropToolCalls(s))
  <2> DEFINE T == {u \in Seq(Plain) : Callless(DropToolCalls(u))}
  <2>1. ASSUME NEW e \in Seq(Plain), Len(e) = 0 PROVE e \in T
    <3>1. DropToolCalls(e) = <<>>
      BY <2>1, DropNone
    <3> QED BY <3>1 DEF Callless, Before
  <2>2. ASSUME NEW v \in Seq(Plain), NEW x \in Plain, v \in T PROVE Append(v, x) \in T
    <3>1. PICK u : Longer(u, v, x)
      BY DEF Longer
    <3>2. u \in Seq(Plain)
      BY <3>1 DEF Longer
    <3>3. PICK d \in Seq(Plain) : d = DropToolCalls(v)
      BY DropMore, <3>1
    <3>4. PICK r : r = DropToolCalls(u)
      OBVIOUS
    <3>5. Swallowed(d, x, r) /\ Callless(d)
      BY <2>2, <3>1, <3>3, <3>4, DropMore
    <3>6. Callless(r)
      <4>1. CASE Longer(r, d, x) /\ (x # "end" \/ ~Holds(d, "call"))
        <5>1. Before(r, "call", "end")
                <=> Before(d, "call", "end") \/ (Holds(d, "call") /\ x = "end")
          BY <4>1, HeldAppended
        <5> QED BY <3>5, <4>1, <5>1 DEF Callless
      <4>2. CASE ~Holds(r, "call")
        BY <4>2 DEF Callless, Holds, Before
      <4> QED BY <3>5, <4>1, <4>2 DEF Swallowed
    <3> QED BY <3>1, <3>2, <3>4, <3>6 DEF Longer
  <2>3. Seq(Plain) \subseteq T
    <3> HIDE DEF T
    <3> QED BY <2>1, <2>2, SequencesByInduction
  <2> QED BY <2>3
<1>2. ASSUME Callless(s) PROVE DropToolCalls(s) = s
  <2>1. \A i \in 1 .. Len(s) : i \in Kept(s)
    <3> SUFFICES ASSUME NEW i \in 1 .. Len(s), NEW h \in 1 .. i, NEW t \in i .. Len(s),
                        s[h] = "call", s[t] = "end"
                 PROVE  FALSE
      BY DEF Kept
    <3>1. h \in 1 .. Len(s) /\ t \in 1 .. Len(s) /\ h <= t /\ h # t
      OBVIOUS
    <3>2. h < t
      BY <3>1
    <3> QED BY <1>2, <3>1, <3>2 DEF Callless, Before
  <2>2. Pick(s, Kept(s)) = s
    BY <2>1, PickAll
  <2> QED BY <2>2 DEF DropToolCalls, Kept
<1> QED BY <1>1, <1>2

(* Dropping what is complete early changes nothing in the end.               *)
LEMMA DropTwice ==
  ASSUME NEW s \in Seq(Plain), NEW f \in Seq(Plain)
  PROVE  DropToolCalls(DropToolCalls(s) \o f) = DropToolCalls(s \o f)
<1>0. PICK d \in Seq(Plain) : d = DropToolCalls(s) /\ Callless(d)
  <2>1. DropToolCalls(s) \in Seq(Plain)
    <3>1. \A x \in Plain : Longer(Append(s, x), s, x)
      BY DEF Longer
    <3>2. "<th" \in Plain
      BY DEF Plain
    <3> QED BY <3>1, <3>2, DropMore
  <2> QED BY <2>1, DroppedCallless
<1> DEFINE T == {u \in Seq(Plain) : DropToolCalls(d \o u) = DropToolCalls(s \o u)}
<1>1. ASSUME NEW e \in Seq(Plain), Len(e) = 0 PROVE e \in T
  <2>1. d \o e = d /\ s \o e = s
    BY <1>1
  <2>2. DropToolCalls(d) = d
    BY <1>0, DroppedCallless
  <2> QED BY <1>0, <2>1, <2>2
<1>2. ASSUME NEW v \in Seq(Plain), NEW x \in Plain, v \in T PROVE Append(v, x) \in T
  <2>1. PICK u : Longer(u, v, x)
    BY DEF Longer
  <2>2. u \in Seq(Plain)
    BY <2>1 DEF Longer
  <2>3. PICK dv, du, sv, su : dv = d \o v /\ du = d \o u /\ sv = s \o v /\ su = s \o u
    OBVIOUS
  <2>4. dv \in Seq(Plain) /\ du \in Seq(Plain) /\ sv \in Seq(Plain) /\ su \in Seq(Plain)
    BY <2>2, <2>3, ConcatProperties
  <2>5. Longer(du, dv, x) /\ Longer(su, sv, x)
    BY <2>1, <2>3, AppendConcat
  <2>6. /\ DropToolCalls(dv) \in Seq(Plain) /\ Swallowed(DropToolCalls(dv), x, DropToolCalls(du))
        /\ DropToolCalls(sv) \in Seq(Plain) /\ Swallowed(DropToolCalls(sv), x, DropToolCalls(su))
    BY <2>4, <2>5, DropMore
  <2>7. DropToolCalls(dv) = DropToolCalls(sv)
    BY <1>2, <2>3
  <2>8. DropToolCalls(du) \in Seq(Plain) /\ DropToolCalls(su) \in Seq(Plain)
    <3>1. \A w \in Seq(Plain) : Longer(Append(w, x), w, x)
      BY DEF Longer
    <3> QED BY <2>4, <3>1, DropMore
  <2>9. DropToolCalls(du) = DropToolCalls(su)
    BY <2>6, <2>7, <2>8, SwallowedOnce
  <2> QED BY <2>1, <2>2, <2>3, <2>9 DEF Longer
<1>3. Seq(Plain) \subseteq T
  <2> HIDE DEF T
  <2> QED BY <1>1, <1>2, SequencesByInduction
<1> QED BY <1>0, <1>3

(* Text without the head of a tool call is left alone.                       *)
LEMMA DropBehind ==
  ASSUME NEW c \in Seq(Plain), ~Holds(c, "call"), NEW f \in Seq(Plain)
  PROVE  DropToolCalls(c \o f) = c \o DropToolCalls(f)
<1>0. ASSUME NEW r \in Seq(Plain), NEW b \in Seq(Plain) PROVE (c \o r) \o b = c \o (r \o b)
  BY ConcatAssociative
<1> DEFINE T == {u \in Seq(Plain) : DropToolCalls(c \o u) = c \o DropToolCalls(u)}
<1>1. ASSUME NEW e \in Seq(Plain), Len(e) = 0 PROVE e \in T
  <2>1. c \o e = c /\ c \o <<>> = c
    BY <1>1
  <2>2. Callless(c)
    BY DEF Callless, Before, Holds
  <2>3. DropToolCalls(c) = c /\ DropToolCalls(e) = <<>>
    BY <1>1, <2>2, DroppedCallless, DropNone
  <2> QED BY <2>1, <2>3
<1>2. ASSUME NEW v \in Seq(Plain), NEW x \in Plain, v \in T PROVE Append(v, x) \in T
  <2>1. PICK u : Longer(u, v, x)
    BY DEF Longer
  <2>2. u \in Seq(Plain)
    BY <2>1 DEF Longer
  <2>3. PICK cv, cu : cv = c \o v /\ cu = c \o u
    OBVIOUS
  <2>4. cv \in Seq(Plain) /\ cu \in Seq(Plain) /\ Longer(cu, cv, x)
    BY <2>1, <2>2, <2>3, AppendConcat, ConcatProperties
  <2>5. PICK d, r : d = DropToolCalls(v) /\ r = DropToolCalls(u)
    OBVIOUS
  <2>6. /\ d \in Seq(Plain) /\ r \in Seq(Plain) /\ Swallowed(d, x, r)
        /\ DropToolCalls(cu) \in Seq(Plain)
        /\ Swallowed(DropToolCalls(cv), x, DropToolCalls(cu))
    <3>1. \A w \in Seq(Plain) : Longer(Append(w, x), w, x)
      BY DEF Longer
    <3> QED BY <2>1, <2>2, <2>4, <2>5, <3>1, DropMore
  <2>7. DropToolCalls(cv) = c \o d
    BY <1>2, <2>3, <2>5
  <2>8. c \o d \in Seq(Plain) /\ c \o r \in Seq(Plain)
    BY <2>6, ConcatProperties
  <2>9. Swallowed(c \o d, x, c \o r)
    <3>1. (Holds(c \o d, "call") <=> Holds(d, "call")) /\ (Holds(c \o r, "call") <=> Holds(r, "call"))
      BY <2>6, HeldConcat
    <3> HIDE DEF T
    <3>2. CASE Longer(r, d, x) /\ (x # "end" \/ ~Holds(d, "call"))
      <4>1. Longer(c \o r, c \o d, x)
        BY <2>6, <3>2, AppendConcat
      <4> QED BY <3>1, <3>2, <4>1 DEF Swallowed
    <3>3. CASE ~(Longer(r, d, x) /\ (x # "end" \/ ~Holds(d, "call")))
      <4>1. PICK b \in Seq(Plain) : x = "end" /\ ~Holds(r, "call")
                                    /\ Len(b) > 0 /\ b[1] = "call" /\ d = r \o b
        BY <2>6, <3>3 DEF Swallowed
      <4>2. c \o d = (c \o r) \o b
        <5>1. (c \o r) \o b = c \o (r \o b)
          BY <1>0, <2>6, <4>1
        <5> QED BY <4>1, <5>1
      <4> QED BY <3>1, <4>1, <4>2 DEF Swallowed
    <3> QED BY <3>2, <3>3
  <2>10. DropToolCalls(cu) = c \o r
    <3>1. PICK cd, cr : cd = c \o d /\ cr = c \o r
      OBVIOUS
    <3>2. cd \in Seq(Plain) /\ cr \in Seq(Plain) /\ Swallowed(cd, x, cr)
          /\ Swallowed(cd, x, DropToolCalls(cu))
      BY <2>6, <2>7, <2>8, <2>9, <3>1
    <3>3. cr = DropToolCalls(cu)
      BY <2>6, <3>2, SwallowedOnce
    <3> QED BY <3>1, <3>3
  <2> QED BY <2>1, <2>2, <2>3, <2>5, <2>10 DEF Longer
<1>3. Seq(Plain) \subseteq T
  <2> HIDE DEF T
  <2> QED BY <1>1, <1>2, SequencesByInduction
<1> QED BY <1>3

-----------------------------------------------------------------------------
(* Reasoning                                                                 *)

\* What a delta may hold: pieces and parts of tags.
Bits == Pieces \cup Plain

\* _inside_reasoning behind the text s.
Mode(in, s) == InsideAt(in, s, Len(s) + 1)

(* The mode before a position depends on what comes before it.               *)
LEMMA InsideMore ==
  ASSUME NEW S, NEW s \in Seq(S), NEW x \in S, NEW u, Longer(u, s, x), NEW in
  PROVE  /\ \A i \in 1 .. Len(s) + 1 : InsideAt(in, u, i) = InsideAt(in, s, i)
         /\ Mode(in, u) = IF IsTag(x) THEN x = "<" ELSE Mode(in, s)
<1>1. PICK n : Grown(u, s, x, n)
  BY DEF Grown
<1>2. /\ u \in Seq(S) /\ Len(s) \in Nat /\ n \in Nat /\ n = Len(s) + 1 /\ Len(u) = n /\ u[n] = x
      /\ \A i \in 1 .. Len(s) : u[i] = s[i]
  BY <1>1, Appended DEF Grown
<1> DEFINE tags(t, i) == {k \in 1 .. (i - 1) : IsTag(t[k])}
<1>3. ASSUME NEW i \in 1 .. n PROVE InsideAt(in, u, i) = InsideAt(in, s, i)
  <2>1. tags(u, i) = tags(s, i)
    BY <1>2
  <2>2. CASE tags(s, i) = {}
    BY <2>1, <2>2 DEF InsideAt
  <2>3. CASE tags(s, i) # {}
    <3>1. Max(tags(s, i)) \in 1 .. Len(s)
      <4>1. tags(s, i) \in SUBSET (1 .. Len(s))
        BY <1>2
      <4> HIDE DEF tags
      <4> QED BY <1>2, <2>3, <4>1, MaxInInterval
    <3>2. u[Max(tags(s, i))] = s[Max(tags(s, i))]
      <4> HIDE DEF tags
      <4> QED BY <1>2, <3>1
    <3>3. InsideAt(in, u, i) = (u[Max(tags(u, i))] = "<")
      BY <2>1, <2>3 DEF InsideAt
    <3>4. InsideAt(in, s, i) = (s[Max(tags(s, i))] = "<")
      BY <2>3 DEF InsideAt
    <3> HIDE DEF tags
    <3> QED BY <2>1, <3>2, <3>3, <3>4
  <2> QED BY <2>2, <2>3
<1>4. Mode(in, u) = InsideAt(in, u, n + 1) /\ Mode(in, s) = InsideAt(in, s, n)
  BY <1>2 DEF Mode
<1>5. CASE IsTag(x)
  <2>1. Max(tags(u, n + 1)) = n
    <3>1. tags(u, n + 1) \in SUBSET (0 .. n) /\ n \in tags(u, n + 1)
      BY <1>2, <1>5
    <3> HIDE DEF tags
    <3>2. Max(tags(u, n + 1)) \in tags(u, n + 1) /\ n <= Max(tags(u, n + 1))
      BY <1>2, <3>1, GreatestNatural
    <3>3. Max(tags(u, n + 1)) \in 0 .. n
      BY <3>1, <3>2
    <3> QED BY <1>2, <3>2, <3>3
  <2>2. tags(u, n + 1) # {}
    BY <1>2, <1>5
  <2>3. InsideAt(in, u, n + 1) = (u[Max(tags(u, n + 1))] = "<")
    BY <2>2 DEF InsideAt
  <2> HIDE DEF tags
  <2>4. Mode(in, u) = (x = "<")
    BY <1>2, <1>4, <2>1, <2>3
  <2> QED BY <1>2, <1>3, <1>5, <2>4
<1>6. CASE ~IsTag(x)
  <2>1. tags(u, n + 1) = tags(s, n)
    BY <1>2, <1>6
  <2>2. InsideAt(in, u, n + 1) = InsideAt(in, s, n)
    <3>1. CASE tags(s, n) = {}
      BY <2>1, <3>1 DEF InsideAt
    <3>2. CASE tags(s, n) # {}
      <4>1. Max(tags(s, n)) \in 1 .. Len(s)
        <5>1. tags(s, n) \in SUBSET (1 .. Len(s))
          BY <1>2
        <5> HIDE DEF tags
        <5> QED BY <1>2, <3>2, <5>1, MaxInInterval
      <4>2. u[Max(tags(s, n))] = s[Max(tags(s, n))]
        <5> HIDE DEF tags
        <5> QED BY <1>2, <4>1
      <4>3. InsideAt(in, u, n + 1) = (u[Max(tags(u, n + 1))] = "<")
        BY <2>1, <3>2 DEF InsideAt
      <4>4. InsideAt(in, s, n) = (s[Max(tags(s, n))] = "<")
        BY <3>2 DEF InsideAt
      <4> HIDE DEF tags
      <4> QED BY <2>1, <4>2, <4>3, <4>4
    <3> QED BY <3>1, <3>2
  <2> HIDE DEF tags
  <2> QED BY <1>2, <1>3, <1>4, <1>6, <2>2
<1> QED BY <1>5, <1>6

(* The filter takes the text piece by piece.                                 *)
LEMMA FilterMore ==
  ASSUME NEW S, NEW s \in Seq(S), NEW x \in S, NEW u, Longer(u, s, x), NEW in
  PROVE  /\ FilterReasoning(in, s) \in Seq(S)
         /\ IsTag(x) \/ Mode(in, s) => FilterReasoning(in, u) = FilterReasoning(in, s)
         /\ ~(IsTag(x) \/ Mode(in, s))
              => Longer(FilterReasoning(in, u), FilterReasoning(in, s), x)
<1>1. PICK n : Grown(u, s, x, n)
  BY DEF Grown
<1>2. /\ u \in Seq(S) /\ Len(s) \in Nat /\ n \in Nat /\ n = Len(s) + 1 /\ Len(u) = n /\ u[n] = x
      /\ \A i \in 1 .. Len(s) : u[i] = s[i]
      /\ DOMAIN s = 1 .. Len(s) /\ DOMAIN u = 1 .. n
  BY <1>1, Appended, LenProperties DEF Grown
<1> DEFINE heard(t) == {i \in DOMAIN t : ~IsTag(t[i]) /\ ~InsideAt(in, t, i)}
<1>3. FilterReasoning(in, s) = Pick(s, heard(s)) /\ FilterReasoning(in, u) = Pick(u, heard(u))
  BY DEF FilterReasoning
<1>4. \A i \in 1 .. Len(s) : i \in heard(u) <=> i \in heard(s)
  BY <1>2, InsideMore
<1>5. n \in heard(u) <=> ~(IsTag(x) \/ Mode(in, s))
  <2>1. InsideAt(in, u, n) = Mode(in, s)
    <3>1. n \in 1 .. Len(s) + 1
      BY <1>2
    <3> QED BY <1>2, <3>1, InsideMore DEF Mode
  <2> QED BY <1>2, <2>1
<1> HIDE DEF heard
<1>6. Pick(s, heard(u)) = Pick(s, heard(s))
  BY <1>4, PickAgrees
<1>7. /\ Pick(s, heard(u)) \in Seq(S)
      /\ n \in heard(u) => Longer(Pick(u, heard(u)), Pick(s, heard(u)), x)
      /\ n \notin heard(u) => Pick(u, heard(u)) = Pick(s, heard(u))
  BY <1>1, PickMore
<1> QED BY <1>3, <1>5, <1>6, <1>7

(* The filter of a text that came in two.                                    *)
LEMMA FilterConcat ==
  ASSUME NEW S, NEW s \in Seq(S), NEW t \in Seq(S), NEW in
  PROVE  /\ FilterReasoning(in, s \o t) = FilterReasoning(in, s) \o FilterReasoning(Mode(in, s), t)
         /\ Mode(in, s \o t) = Mode(Mode(in, s), t)
<1>1. PICK a, m : a = FilterReasoning(in, s) /\ m = Mode(in, s)
  OBVIOUS
<1>2. \A w \in Seq(S) : \A i : FilterReasoning(i, w) \in Seq(S)
  <2> SUFFICES ASSUME NEW w \in Seq(S), NEW i PROVE FilterReasoning(i, w) \in Seq(S)
    OBVIOUS
  <2>1. \A k \in 1 .. Len(w) : w[k] \in S
    BY ElementOfSeq
  <2> QED BY <2>1, PickType DEF FilterReasoning
<1> DEFINE ok(u) == /\ FilterReasoning(in, s \o u) = a \o FilterReasoning(m, u)
                    /\ Mode(in, s \o u) = Mode(m, u)
           T == {u \in Seq(S) : ok(u)}
<1>3. ASSUME NEW e \in Seq(S), Len(e) = 0 PROVE e \in T
  <2>1. s \o e = s
    BY <1>3
  <2>2. FilterReasoning(m, e) = <<>> /\ a \o <<>> = a
    <3>1. FilterReasoning(m, e) = <<>>
      BY <1>3, PickNone DEF FilterReasoning
    <3> QED BY <1>1, <1>2, <3>1, ConcatEmptySeq
  <2>3. Mode(m, e) = m
    <3>1. \A k \in 1 .. ((Len(e) + 1) - 1) : FALSE
      BY <1>3
    <3> QED BY <3>1 DEF Mode, InsideAt
  <2> QED BY <1>1, <2>1, <2>2, <2>3
<1>4. ASSUME NEW v \in Seq(S), NEW x \in S, v \in T PROVE Append(v, x) \in T
  <2>1. PICK u : Longer(u, v, x)
    BY DEF Longer
  <2>2. u \in Seq(S)
    BY <2>1 DEF Longer
  <2>3. PICK sv, su : sv = s \o v /\ su = s \o u
    OBVIOUS
  <2>4. sv \in Seq(S) /\ su \in Seq(S) /\ Longer(su, sv, x)
    BY <2>1, <2>2, <2>3, AppendConcat, ConcatProperties
  <2>5. FilterReasoning(in, sv) = a \o FilterReasoning(m, v) /\ Mode(in, sv) = Mode(m, v)
    BY <1>4, <2>3
  <2>6. /\ FilterReasoning(m, v) \in Seq(S)
        /\ IsTag(x) \/ Mode(m, v) => FilterReasoning(m, u) = FilterReasoning(m, v)
        /\ ~(IsTag(x) \/ Mode(m, v)) => Longer(FilterReasoning(m, u), FilterReasoning(m, v), x)
        /\ Mode(m, u) = IF IsTag(x) THEN x = "<" ELSE Mode(m, v)
    BY <2>1, FilterMore, InsideMore
  <2>7. /\ IsTag(x) \/ Mode(in, sv) => FilterReasoning(in, su) = FilterReasoning(in, sv)
        /\ ~(IsTag(x) \/ Mode(in, sv))
             => Longer(FilterReasoning(in, su), FilterReasoning(in, sv), x)
        /\ Mode(in, su) = IF IsTag(x) THEN x = "<" ELSE Mode(in, sv)
    BY <2>4, FilterMore, InsideMore
  <2>8. Mode(in, su) = Mode(m, u)
    BY <2>5, <2>6, <2>7
  <2>9. FilterReasoning(in, su) = a \o FilterReasoning(m, u)
    <3>1. CASE IsTag(x) \/ Mode(m, v)
      BY <2>5, <2>6, <2>7, <3>1
    <3>2. CASE ~(IsTag(x) \/ Mode(m, v))
      <4>1. a \in Seq(S)
        BY <1>1, <1>2
      <4>2. Longer(FilterReasoning(m, u), FilterReasoning(m, v), x)
        BY <2>6, <3>2
      <4>3. Longer(FilterReasoning(in, su), FilterReasoning(in, sv), x)
        BY <2>5, <2>7, <3>2
      <4>4. Longer(a \o FilterReasoning(m, u), a \o FilterReasoning(m, v), x)
        BY <2>6, <4>1, <4>2, AppendConcat
      <4> QED BY <2>5, <4>3, <4>4 DEF Longer
    <3> QED BY <3>1, <3>2
  <2> QED BY <2>1, <2>2, <2>3, <2>8, <2>9 DEF Longer
<1>5. Seq(S) \subseteq T
  <2> HIDE DEF T
  <2> QED BY <1>3, <1>4, SequencesByInduction
<1> QED BY <1>1, <1>5

-----------------------------------------------------------------------------
(* The chunks one after the other                                            *)

(* FlattenSeq takes the chunks one by one.                                   *)
LEMMA FlattenStepwise ==
  ASSUME NEW S, NEW cs \in Seq(Seq(S))
  PROVE  \E acc :
           /\ acc \in [0 .. Len(cs) -> Seq(S)]
           /\ acc[0] = <<>>
           /\ \A i \in 1 .. Len(cs) : acc[i] = acc[i - 1] \o cs[i]
           /\ acc[Len(cs)] = FlattenSeq(cs)
<1> DEFINE n == Len(cs)
           D == Seq(S)
           h == [p \in (1 .. n) \X D |-> p[2] \o cs[p[1]]]
           is(f) == f = [i \in 1 .. n |-> IF i = 1 THEN cs[i] ELSE f[i - 1] \o cs[i]]
           t == CHOOSE f : is(f)
<1>1. n \in Nat /\ <<>> \in D /\ \A i \in 1 .. n : cs[i] \in D
  BY ElementOfSeq
<1>2. h \in [(1 .. n) \X D -> D]
  <2>1. \A d \in D, i \in 1 .. n : d \o cs[i] \in D
    BY <1>1, ConcatProperties
  <2> HIDE DEF D, n
  <2> QED BY <2>1
<1>3. PICK acc : RecursionTable(acc, n, D, <<>>, h)
  <2> HIDE DEF h, D, n
  <2> QED BY <1>1, <1>2, RecursionOnInterval
<1>4. /\ acc \in [0 .. n -> D] /\ acc[0] = <<>>
      /\ \A i \in 1 .. n : acc[i] = acc[i - 1] \o cs[i]
  <2>1. acc \in [0 .. n -> D] /\ acc[0] = <<>> /\ \A i \in 1 .. n : acc[i] = h[<<i, acc[i - 1]>>]
    BY <1>3 DEF RecursionTable
  <2>2. \A i \in 1 .. n : acc[i - 1] \in D
    <3>1. \A i \in 1 .. n : i - 1 \in 0 .. n
      BY <1>1
    <3> HIDE DEF D, n, h
    <3> QED BY <2>1, <3>1
  <2> HIDE DEF D, n
  <2> QED BY <2>1, <2>2
<1> HIDE DEF h
<1>5. is([i \in 1 .. n |-> acc[i]])
  <2> SUFFICES ASSUME NEW i \in 1 .. n
               PROVE  acc[i] = IF i = 1 THEN cs[i] ELSE [k \in 1 .. n |-> acc[k]][i - 1] \o cs[i]
    OBVIOUS
  <2>1. CASE i = 1
    <3>1. acc[1] = <<>> \o cs[1]
      BY <1>4, <2>1, 1 - 1 = 0
    <3>2. <<>> \o cs[1] = cs[1]
      BY <1>1, <2>1, ConcatEmptySeq
    <3> HIDE DEF D, n
    <3> QED BY <2>1, <3>1, <3>2
  <2>2. CASE i # 1
    <3>1. i - 1 \in 1 .. n
      BY <1>1, <2>2
    <3> HIDE DEF D, n
    <3> QED BY <1>4, <2>2, <3>1
  <2> QED BY <2>1, <2>2
<1>6. is(t)
  <2> HIDE DEF is
  <2> QED BY <1>5
<1>7. t = [i \in 1 .. n |-> IF i = 1 THEN cs[i] ELSE t[i - 1] \o cs[i]]
  BY <1>6
<1>8. n # 0 => FlattenSeq(cs) = t[n]
  BY DEF FlattenSeq
<1>9. 0 .. n \subseteq {i \in 0 .. n : i = 0 \/ t[i] = acc[i]}
  <2> HIDE DEF t, D, n
  <2> DEFINE T == {i \in 0 .. n : i = 0 \/ t[i] = acc[i]}
  <2>1. 0 \in T
    BY <1>1
  <2>2. ASSUME NEW i \in 1 .. n, i - 1 \in T PROVE i \in T
    <3>1. CASE i = 1
      <4>1. t[1] = cs[1]
        BY <1>7, <3>1
      <4>2. acc[1] = <<>> \o cs[1]
        BY <1>4, <3>1, 1 - 1 = 0
      <4>3. <<>> \o cs[1] = cs[1]
        BY <1>1, <3>1, ConcatEmptySeq DEF D
      <4> QED BY <1>1, <3>1, <4>1, <4>2, <4>3
    <3>2. CASE i # 1
      <4>1. t[i - 1] = acc[i - 1]
        BY <1>1, <2>2, <3>2
      <4>2. t[i] = t[i - 1] \o cs[i]
        BY <1>7, <3>2
      <4>3. acc[i] = acc[i - 1] \o cs[i]
        BY <1>4
      <4>4. t[i] = acc[i]
        BY <4>1, <4>2, <4>3, Zenon
      <4>5. i \in 0 .. n
        BY <1>1
      <4> QED BY <4>4, <4>5
    <3> QED BY <3>1, <3>2
  <2> HIDE DEF T
  <2>3. 0 .. n \subseteq T
    BY <1>1, <2>1, <2>2, IntervalByInduction
  <2> QED BY <2>3 DEF T
<1>10. acc[n] = FlattenSeq(cs)
  <2>1. CASE n = 0
    <3>1. FlattenSeq(cs) = cs /\ cs = <<>>
      BY <2>1 DEF FlattenSeq
    <3> QED BY <1>4, <2>1, <3>1
  <2>2. CASE n # 0
    <3> HIDE DEF t, D, n
    <3> QED BY <1>1, <1>8, <1>9, <2>2
  <2> QED BY <2>1, <2>2
<1> QED BY <1>4, <1>10

(* One chunk more.                                                           *)
LEMMA FlattenMore ==
  ASSUME NEW S, NEW cs \in Seq(Seq(S)), NEW c \in Seq(S), NEW ds, Longer(ds, cs, c)
  PROVE  FlattenSeq(cs) \in Seq(S) /\ FlattenSeq(ds) = FlattenSeq(cs) \o c
<1> DEFINE n == Len(cs)
<1>1. PICK m : Grown(ds, cs, c, m)
  BY DEF Grown
<1>2. /\ ds \in Seq(Seq(S)) /\ n \in Nat /\ Len(ds) = n + 1 /\ ds[n + 1] = c
      /\ \A i \in 1 .. n : ds[i] = cs[i]
  BY <1>1, Appended DEF Grown
<1>3. PICK a : /\ a \in [0 .. n -> Seq(S)] /\ a[0] = <<>>
               /\ \A i \in 1 .. n : a[i] = a[i - 1] \o cs[i]
               /\ a[n] = FlattenSeq(cs)
  BY FlattenStepwise
<1> HIDE DEF n
<1>4. PICK b : /\ b[0] = <<>>
               /\ \A i \in 1 .. n + 1 : b[i] = b[i - 1] \o ds[i]
               /\ b[n + 1] = FlattenSeq(ds)
  BY <1>2, FlattenStepwise
<1>5. 0 .. n \subseteq {i \in 0 .. n : a[i] = b[i]}
  <2> DEFINE T == {i \in 0 .. n : a[i] = b[i]}
  <2>1. 0 \in T
    BY <1>2, <1>3, <1>4
  <2>2. ASSUME NEW i \in 1 .. n, i - 1 \in T PROVE i \in T
    <3>1. i \in 1 .. n + 1 /\ a[i - 1] = b[i - 1]
      BY <1>2, <2>2
    <3>2. a[i] = a[i - 1] \o cs[i] /\ b[i] = b[i - 1] \o ds[i]
      BY <1>3, <1>4, <3>1
    <3>3. ds[i] = cs[i]
      BY <1>2
    <3>4. a[i] = b[i]
      BY <3>1, <3>2, <3>3, Zenon
    <3>5. i \in 0 .. n
      BY <1>2
    <3> QED BY <3>4, <3>5
  <2> HIDE DEF T
  <2>3. 0 .. n \subseteq T
    BY <1>2, <2>1, <2>2, IntervalByInduction
  <2> QED BY <2>3 DEF T
<1>6. b[n] = FlattenSeq(cs) /\ FlattenSeq(cs) \in Seq(S)
  BY <1>2, <1>3, <1>5
<1>7. FlattenSeq(ds) = FlattenSeq(cs) \o c
  <2>1. n + 1 \in 1 .. n + 1 /\ (n + 1) - 1 = n
    BY <1>2
  <2>2. b[n + 1] = b[(n + 1) - 1] \o ds[n + 1]
    BY <1>4, <2>1
  <2>3. b[(n + 1) - 1] = FlattenSeq(cs)
    BY <1>6, <2>1
  <2> QED BY <1>2, <1>4, <2>2, <2>3
<1> QED BY <1>6, <1>7

(* Two lists of chunks.                                                      *)
LEMMA FlattenConcat ==
  ASSUME NEW S, NEW cs \in Seq(Seq(S)), NEW ds \in Seq(Seq(S))
  PROVE  /\ FlattenSeq(cs) \in Seq(S)
         /\ FlattenSeq(cs \o ds) = FlattenSeq(cs) \o FlattenSeq(ds)
<1>0. \A w \in Seq(Seq(S)) : FlattenSeq(w) \in Seq(S)
  <2> SUFFICES ASSUME NEW w \in Seq(Seq(S)) PROVE FlattenSeq(w) \in Seq(S)
    OBVIOUS
  <2>1. PICK acc : acc \in [0 .. Len(w) -> Seq(S)] /\ acc[Len(w)] = FlattenSeq(w)
    BY FlattenStepwise
  <2>2. Len(w) \in 0 .. Len(w)
    OBVIOUS
  <2> QED BY <2>1, <2>2
<1> DEFINE T == {u \in Seq(Seq(S)) : FlattenSeq(cs \o u) = FlattenSeq(cs) \o FlattenSeq(u)}
<1>1. ASSUME NEW e \in Seq(Seq(S)), Len(e) = 0 PROVE e \in T
  <2>1. cs \o e = cs
    BY <1>1
  <2>2. FlattenSeq(e) = <<>>
    <3>1. FlattenSeq(e) = e /\ e = <<>>
      BY <1>1 DEF FlattenSeq
    <3> QED BY <3>1
  <2>3. FlattenSeq(cs) \o <<>> = FlattenSeq(cs)
    BY <1>0, ConcatEmptySeq
  <2> QED BY <2>1, <2>2, <2>3
<1>2. ASSUME NEW v \in Seq(Seq(S)), NEW c \in Seq(S), v \in T PROVE Append(v, c) \in T
  <2>1. PICK u : Longer(u, v, c)
    BY DEF Longer
  <2>2. u \in Seq(Seq(S))
    BY <2>1 DEF Longer
  <2>3. PICK cv, cu : cv = cs \o v /\ cu = cs \o u
    OBVIOUS
  <2>4. cv \in Seq(Seq(S)) /\ Longer(cu, cv, c)
    BY <2>1, <2>2, <2>3, AppendConcat, ConcatProperties
  <2>5. FlattenSeq(u) = FlattenSeq(v) \o c /\ FlattenSeq(cu) = FlattenSeq(cv) \o c
    BY <2>1, <2>4, FlattenMore
  <2>6. FlattenSeq(cv) = FlattenSeq(cs) \o FlattenSeq(v)
    BY <1>2, <2>3
  <2>7. PICK a \in Seq(S), b \in Seq(S) : a = FlattenSeq(cs) /\ b = FlattenSeq(v)
    BY <1>0
  <2>8. (a \o b) \o c = a \o (b \o c)
    BY ConcatAssociative
  <2> QED BY <2>1, <2>2, <2>3, <2>5, <2>6, <2>7, <2>8 DEF Longer
<1>3. Seq(Seq(S)) \subseteq T
  <2> HIDE DEF T
  <2> QED BY <1>1, <1>2, SequencesByInduction
<1> QED BY <1>0, <1>3

-----------------------------------------------------------------------------
(* The loop that cuts                                                        *)

\* The texts that a chunker emits.
Chunk == Seq(Plain) \ {<<>>}

CutStates == [out : Seq(Chunk), buffer : Seq(Plain)]

\* Long enough, and a sentence ends at its end.
Whole(c) == c \in Chunk /\ Len(c) >= MinChunk /\ Last(c) = "."
Wholes(cs) == \A i \in 1 .. Len(cs) : Whole(cs[i])

(* A round of the loop: a whole chunk leaves, or nothing happens.            *)
LEMMA CutRound ==
  ASSUME NEW st \in CutStates
  PROVE  /\ CutFirst(st) \in CutStates
         /\ CutPositions(st.buffer) = {} => CutFirst(st) = st
         /\ CutPositions(st.buffer) # {} => Len(CutFirst(st).buffer) < Len(st.buffer)
         /\ Wholes(st.out) => Wholes(CutFirst(st).out)
         /\ CutPositions(st.buffer) # {} =>
              \E c \in Seq(Plain) : /\ Longer(CutFirst(st).out, st.out, c)
                                   /\ c \o CutFirst(st).buffer = st.buffer
<1> DEFINE b == st.buffer
           at == CutPositions(b)
<1>1. b \in Seq(Plain) /\ st.out \in Seq(Chunk) /\ Len(b) \in Nat
  BY DEF CutStates
<1>2. CASE at = {}
  BY <1>2 DEF CutFirst
<1>3. CASE at # {}
  <2> DEFINE m == Min(at)
             c == SubSeq(b, 1, m)
             rest == SubSeq(b, m + 1, Len(b))
  <2>1. m \in 1 .. Len(b) /\ b[m] = "." /\ m >= MinChunk
    <3>1. at \in SUBSET Nat /\ at \subseteq {i \in 1 .. Len(b) : b[i] = "." /\ i >= MinChunk}
      BY <1>1 DEF CutPositions, FindEos
    <3>2. m \in at
      <4> HIDE DEF at
      <4> QED BY <1>3, <3>1, MinOfNaturals
    <3> HIDE DEF at, m
    <3> QED BY <3>1, <3>2
  <2> HIDE DEF b, m
  <2>2. c \in Seq(Plain) /\ Len(c) = m /\ c[m] = b[m]
    <3>1. \A i \in 1 .. m : b[i] \in Plain
      BY <1>1, <2>1, ElementOfSeq
    <3> QED BY <2>1, <3>1
  <2>3. rest \in Seq(Plain) /\ Len(rest) = Len(b) - m
    <3>1. \A i \in m + 1 .. Len(b) : b[i] \in Plain
      <4> SUFFICES ASSUME NEW i \in m + 1 .. Len(b) PROVE b[i] \in Plain
        OBVIOUS
      <4>1. i \in 1 .. Len(b)
        BY <1>1, <2>1
      <4> QED BY <1>1, <4>1, ElementOfSeq
    <3> QED BY <1>1, <2>1, <3>1, SubSeqProperties
  <2>10. c \o rest = b
    <3>1. /\ 1 \in 1 .. Len(b) + 1 /\ m \in 1 - 1 .. Len(b) /\ Len(b) \in m .. Len(b)
      BY <1>1, <2>1
    <3>2. SubSeq(b, 1, Len(b)) = b
      BY <1>1, SubSeqFull
    <3> QED BY <1>1, <3>1, <3>2, ConcatAdjacentSubSeq
  <2>4. CutFirst(st) = [out |-> Append(st.out, c), buffer |-> rest]
    BY <1>3 DEF CutFirst, b, m
  <2>5. Whole(c)
    <3> HIDE DEF c
    <3> QED BY <2>1, <2>2 DEF Whole, Last, Chunk
  <2> HIDE DEF c, rest
  <2>6. Append(st.out, c) \in Seq(Chunk)
    BY <1>1, <2>5 DEF Whole
  <2>7. Wholes(st.out) => Wholes(Append(st.out, c))
    BY <1>1, <2>5 DEF Wholes
  <2>8. CutFirst(st).out = Append(st.out, c) /\ CutFirst(st).buffer = rest
    BY <2>4
  <2>9. CutFirst(st) \in CutStates
    BY <2>3, <2>4, <2>6 DEF CutStates
  <2>11. Longer(CutFirst(st).out, st.out, c) /\ c \o CutFirst(st).buffer = st.buffer
    BY <2>8, <2>10 DEF Longer, b
  <2>12. Len(CutFirst(st).buffer) < Len(st.buffer)
    BY <1>1, <2>1, <2>3, <2>8 DEF b
  <2> QED BY <1>3, <2>2, <2>7, <2>8, <2>9, <2>11, <2>12 DEF b
<1> QED BY <1>2, <1>3

(* feed cuts round by round.                                                 *)
LEMMA CutStepwise ==
  ASSUME NEW s \in Seq(Plain)
  PROVE  \E acc :
           /\ acc \in [0 .. Len(s) -> CutStates]
           /\ acc[0] = [out |-> <<>>, buffer |-> s]
           /\ \A i \in 1 .. Len(s) : acc[i] = CutFirst(acc[i - 1])
           /\ acc[Len(s)] = CutAll(s)
<1> DEFINE n == Len(s)
           D == CutStates
           a == [out |-> <<>>, buffer |-> s]
           h == [p \in (1 .. n) \X D |-> CutFirst(p[2])]
           is(f) == f = [q \in SUBSET (1 .. n) |->
                           IF q = {} THEN a ELSE CutFirst(f[q \ {Max(q)}])]
           t == CHOOSE f : is(f)
<1>1. CutAll(s) = t[1 .. n]
  BY DOMAIN s = 1 .. n DEF CutAll, FoldLeft, MapThenFoldSet
<1>2. n \in Nat /\ a \in D
  BY DEF CutStates
<1>3. \A d \in D : CutFirst(d) \in D
  BY CutRound
<1>4. h \in [(1 .. n) \X D -> D]
  <2> HIDE DEF D
  <2> QED BY <1>3
<1>5. PICK f : FoldTable(f, n, D, a, h)
  <2> HIDE DEF h, D, n, a
  <2> QED BY <1>2, <1>4, FoldOnInterval
<1> HIDE DEF a
<1>6. is(f)
  <2> SUFFICES ASSUME NEW q \in SUBSET (1 .. n)
               PROVE  f[q] = IF q = {} THEN a ELSE CutFirst(f[q \ {Max(q)}])
    BY <1>5 DEF FoldTable
  <2>1. CASE q = {}
    BY <1>5, <2>1 DEF FoldTable
  <2>2. CASE q # {}
    <3>1. Max(q) \in 1 .. n
      BY <1>2, <2>2, MaxInInterval
    <3>2. f[q \ {Max(q)}] \in D
      BY <1>5 DEF FoldTable
    <3> HIDE DEF D
    <3> QED BY <1>5, <2>2, <3>1, <3>2 DEF FoldTable
  <2> QED BY <2>1, <2>2
<1>7. is(t)
  BY <1>6
<1>8. t[1 .. 0] = a
  <2>1. 1 .. 0 = {} /\ {} \in SUBSET (1 .. n)
    OBVIOUS
  <2> QED BY <1>7, <2>1
<1>9. ASSUME NEW i \in 1 .. n
      PROVE  t[1 .. i] = CutFirst(t[1 .. (i - 1)])
  <2>1. 1 .. i \in SUBSET (1 .. n) /\ 1 .. i # {} /\ Max(1 .. i) = i
        /\ (1 .. i) \ {i} = 1 .. (i - 1)
    BY <1>2, IntervalPeeled
  <2> HIDE DEF t
  <2> QED BY <1>7, <2>1
<1> DEFINE acc == [i \in 0 .. n |-> t[1 .. i]]
<1>10. /\ acc[0] = a
       /\ \A i \in 1 .. n : acc[i] = CutFirst(acc[i - 1])
       /\ acc[n] = CutAll(s)
  <2>1. \A i \in 0 .. n : acc[i] = t[1 .. i]
    OBVIOUS
  <2>2. \A i \in 1 .. n : i \in 0 .. n /\ i - 1 \in 0 .. n
    OBVIOUS
  <2>3. 0 \in 0 .. n /\ n \in 0 .. n
    BY <1>2
  <2> HIDE DEF acc, t
  <2> QED BY <1>1, <1>8, <1>9, <2>1, <2>2, <2>3
<1>11. \A i \in 0 .. n : acc[i] \in D
  <2> DEFINE T == {i \in 0 .. n : acc[i] \in D}
  <2> HIDE DEF acc, D
  <2>1. 0 \in T
    BY <1>2, <1>10
  <2>2. ASSUME NEW i \in 1 .. n, i - 1 \in T PROVE i \in T
    BY <1>3, <1>10, <2>2
  <2> HIDE DEF T
  <2>3. 0 .. n \subseteq T
    BY <1>2, <2>1, <2>2, IntervalByInduction
  <2> QED BY <2>3 DEF T
<1>12. acc \in [0 .. n -> D]
  BY <1>11
<1> HIDE DEF acc
<1> QED BY <1>10, <1>12 DEF a

(* As many rounds as the buffer has pieces are enough: nothing that could be *)
(* cut is left, and what was cut is whole.                                   *)
LEMMA CutAllDone ==
  ASSUME NEW s \in Seq(Plain)
  PROVE  /\ CutAll(s) \in CutStates
         /\ CutPositions(CutAll(s).buffer) = {}
         /\ Wholes(CutAll(s).out)
<1> DEFINE n == Len(s)
<1>1. PICK acc : /\ acc \in [0 .. n -> CutStates]
                 /\ acc[0] = [out |-> <<>>, buffer |-> s]
                 /\ \A i \in 1 .. n : acc[i] = CutFirst(acc[i - 1])
                 /\ acc[n] = CutAll(s)
  BY CutStepwise
<1>2. n \in Nat
  OBVIOUS
<1> HIDE DEF n
<1> DEFINE done(st, k) == CutPositions(st.buffer) = {} \/ Len(st.buffer) <= n - k
           T == {i \in 0 .. n : done(acc[i], i) /\ Wholes(acc[i].out)}
<1>3. 0 \in T
  <2>1. acc[0].buffer = s /\ acc[0].out = <<>>
    BY <1>1
  <2> QED BY <1>2, <2>1 DEF n, Wholes
<1>4. ASSUME NEW i \in 1 .. n, i - 1 \in T PROVE i \in T
  <2>1. PICK st \in CutStates : st = acc[i - 1] /\ acc[i] = CutFirst(st)
    BY <1>1, <1>2
  <2>2. done(st, i - 1) /\ Wholes(st.out)
    BY <1>4, <2>1
  <2>3. /\ CutFirst(st) \in CutStates
        /\ CutPositions(st.buffer) = {} => CutFirst(st) = st
        /\ CutPositions(st.buffer) # {} => Len(CutFirst(st).buffer) < Len(st.buffer)
        /\ Wholes(st.out) => Wholes(CutFirst(st).out)
    BY CutRound
  <2>4. Len(st.buffer) \in Nat /\ Len(CutFirst(st).buffer) \in Nat
    BY <2>3 DEF CutStates
  <2>5. done(CutFirst(st), i)
    <3>1. CASE CutPositions(st.buffer) = {}
      BY <2>3, <3>1
    <3>2. CASE CutPositions(st.buffer) # {}
      BY <1>2, <2>2, <2>3, <2>4, <3>2
    <3> QED BY <3>1, <3>2
  <2>6. Wholes(CutFirst(st).out)
    BY <2>2, <2>3
  <2>7. done(acc[i], i) /\ Wholes(acc[i].out)
    <3>1. acc[i] = CutFirst(st)
      BY <2>1
    <3> HIDE DEF done
    <3> QED BY <2>5, <2>6, <3>1
  <2>8. i \in 0 .. n
    BY <1>2
  <2> QED BY <2>7, <2>8
<1>5. n \in T
  <2> HIDE DEF T
  <2>1. 0 .. n \subseteq T
    BY <1>2, <1>3, <1>4, IntervalByInduction
  <2> QED BY <1>2, <2>1
<1>6. done(acc[n], n) /\ Wholes(acc[n].out) /\ acc[n] \in CutStates
  BY <1>1, <1>5
<1>7. PICK e \in CutStates : e = CutAll(s) /\ done(e, n) /\ Wholes(e.out)
  BY <1>1, <1>6
<1>8. CutPositions(e.buffer) = {}
  <2> SUFFICES ASSUME Len(e.buffer) <= 0 PROVE CutPositions(e.buffer) = {}
    BY <1>2, <1>7
  <2>1. e.buffer \in Seq(Plain) /\ DOMAIN e.buffer = {}
    BY DEF CutStates
  <2> QED BY <2>1 DEF CutPositions, FindEos
<1> QED BY <1>7, <1>8

(* Cutting loses nothing and changes no order.                               *)
LEMMA CutKeepsText ==
  ASSUME NEW s \in Seq(Plain)
  PROVE  FlattenSeq(CutAll(s).out) \o CutAll(s).buffer = s
<1> DEFINE n == Len(s)
<1>1. PICK acc : /\ acc \in [0 .. n -> CutStates]
                 /\ acc[0] = [out |-> <<>>, buffer |-> s]
                 /\ \A i \in 1 .. n : acc[i] = CutFirst(acc[i - 1])
                 /\ acc[n] = CutAll(s)
  BY CutStepwise
<1>2. n \in Nat
  OBVIOUS
<1> HIDE DEF n
<1> DEFINE text(st) == FlattenSeq(st.out) \o st.buffer
           T == {i \in 0 .. n : text(acc[i]) = s}
<1>3. 0 \in T
  <2>1. acc[0].buffer = s /\ acc[0].out = <<>>
    BY <1>1
  <2>2. FlattenSeq(<<>>) = <<>>
    BY DEF FlattenSeq
  <2>3. <<>> \o s = s
    OBVIOUS
  <2>4. text(acc[0]) = s
    BY <2>1, <2>2, <2>3
  <2> HIDE DEF text
  <2> QED BY <1>2, <2>4
<1>4. ASSUME NEW i \in 1 .. n, i - 1 \in T PROVE i \in T
  <2>1. PICK st \in CutStates : st = acc[i - 1] /\ acc[i] = CutFirst(st)
    <3>1. i - 1 \in 0 .. n
      BY <1>2
    <3> QED BY <1>1, <3>1
  <2>2. text(st) = s
    BY <1>4, <2>1
  <2>3. text(CutFirst(st)) = text(st)
    <3>1. CASE CutPositions(st.buffer) = {}
      <4>1. CutFirst(st) = st
        BY <3>1, CutRound
      <4> QED BY <4>1
    <3>2. CASE CutPositions(st.buffer) # {}
      <4>1. PICK c \in Seq(Plain) : /\ Longer(CutFirst(st).out, st.out, c)
                                    /\ c \o CutFirst(st).buffer = st.buffer
        BY <3>2, CutRound
      <4>2. PICK o, r, cs : o = CutFirst(st).out /\ r = CutFirst(st).buffer /\ cs = st.out
        OBVIOUS
      <4>3. r \in Seq(Plain) /\ cs \in Seq(Seq(Plain))
        <5>1. CutFirst(st) \in CutStates
          BY CutRound
        <5>2. r \in Seq(Plain) /\ cs \in Seq(Chunk)
          BY <4>2, <5>1 DEF CutStates
        <5>3. Chunk \subseteq Seq(Plain)
          BY DEF Chunk
        <5> QED BY <5>2, <5>3, SeqMonotonic
      <4>4. FlattenSeq(cs) \in Seq(Plain) /\ FlattenSeq(o) = FlattenSeq(cs) \o c
        BY <4>1, <4>2, <4>3, FlattenMore
      <4>5. (FlattenSeq(cs) \o c) \o r = FlattenSeq(cs) \o (c \o r)
        BY <4>3, <4>4, ConcatAssociative
      <4> QED BY <4>1, <4>2, <4>4, <4>5
    <3> QED BY <3>1, <3>2
  <2>4. i \in 0 .. n
    BY <1>2
  <2>5. text(acc[i]) = s
    BY <2>1, <2>2, <2>3
  <2> HIDE DEF text
  <2> QED BY <2>4, <2>5
<1>5. n \in T
  <2> HIDE DEF T
  <2>1. 0 .. n \subseteq T
    BY <1>2, <1>3, <1>4, IntervalByInduction
  <2> QED BY <1>2, <2>1
<1>6. text(acc[n]) = s
  BY <1>5
<1> QED BY <1>1, <1>6

(* A piece that whole chunks hold is followed by the end of a sentence.      *)
LEMMA WholesEnd ==
  ASSUME NEW cs \in Seq(Seq(Plain)), Wholes(cs), NEW p, p # ".", Holds(FlattenSeq(cs), p)
  PROVE  Before(FlattenSeq(cs), p, ".")
<1> DEFINE ok(w) == Wholes(w) /\ Holds(FlattenSeq(w), p) => Before(FlattenSeq(w), p, ".")
           T == {w \in Seq(Seq(Plain)) : ok(w)}
<1>1. ASSUME NEW e \in Seq(Seq(Plain)), Len(e) = 0 PROVE e \in T
  <2>1. FlattenSeq(e) = e
    BY <1>1 DEF FlattenSeq
  <2>2. ~Holds(FlattenSeq(e), p)
    BY <1>1, <2>1 DEF Holds
  <2> QED BY <2>2
<1>2. ASSUME NEW v \in Seq(Seq(Plain)), NEW c \in Seq(Plain), v \in T PROVE Append(v, c) \in T
  <2>1. PICK w, m : Grown(w, v, c, m)
    BY DEF Grown, Longer
  <2>2. /\ w \in Seq(Seq(Plain)) /\ m \in 1 .. Len(w) /\ w[m] = c
        /\ \A i \in 1 .. Len(v) : w[i] = v[i] /\ i \in 1 .. Len(w)
    BY <2>1, Appended
  <2>3. PICK a, b : a = FlattenSeq(v) /\ b = FlattenSeq(w)
    OBVIOUS
  <2>4. a \in Seq(Plain) /\ b = a \o c
    BY <2>1, <2>3, FlattenMore DEF Grown
  <2>5. ASSUME Wholes(w), Holds(b, p) PROVE Before(b, p, ".")
    <3>1. Wholes(v) /\ Whole(c)
      BY <2>2, <2>5 DEF Wholes
    <3>2. c \in Seq(Plain) /\ Len(c) \in 1 .. Len(c) /\ c[Len(c)] = "." /\ Len(c) \in Nat
      <4>1. c # <<>> /\ c[Len(c)] = "."
        BY <3>1 DEF Whole, Chunk, Last
      <4> QED BY <4>1
    <3>3. Holds(c, ".")
      BY <3>2 DEF Holds
    <3>4. CASE Holds(a, p)
      BY <2>4, <3>3, <3>4, HeldConcat
    <3>5. CASE ~Holds(a, p)
      <4>1. Holds(c, p)
        BY <2>4, <2>5, <3>5, HeldConcat
      <4>2. PICK i \in 1 .. Len(c) : c[i] = p
        BY <4>1 DEF Holds
      <4>3. i < Len(c)
        BY <3>2, <4>2
      <4>4. Before(c, p, ".")
        BY <3>2, <4>2, <4>3 DEF Before
      <4> QED BY <2>4, <4>4, HeldConcat
    <3> QED BY <3>4, <3>5
  <2>6. ok(w)
    BY <2>3, <2>5
  <2> QED BY <2>1, <2>2, <2>6 DEF Grown, Longer
<1>3. Seq(Seq(Plain)) \subseteq T
  <2> HIDE DEF T
  <2> QED BY <1>1, <1>2, SequencesByInduction
<1> QED BY <1>3

-----------------------------------------------------------------------------
(* The state                                                                 *)

(* There is nothing to cut in no text.                                       *)
LEMMA NothingToCut == CutPositions(<<>>) = {}
<1>1. DOMAIN <<>> = {}
  <2>1. Len(<<>>) = 0 /\ <<>> \in Seq({})
    OBVIOUS
  <2> QED BY <2>1
<1> QED BY <1>1 DEF CutPositions, FindEos

ChunkerTypes ==
  /\ phase \in {"fresh", "streaming", "aborted"}
  /\ buffer \in Seq(Plain)
  /\ inside \in BOOLEAN
  /\ chunks \in Seq(Chunk)
  /\ said \in Seq(Pieces)
  /\ half \in {"none", "<", ">"}
  /\ tagCut \in BOOLEAN
  /\ carried \in [buffer : Seq(Plain), inside : BOOLEAN]

(* ChunksWholeSentences is not inductive: it forgets that a turn that goes   *)
(* on has whole chunks only, so that the remainder follows no other.         *)
WholeInv ==
  /\ ChunkerTypes
  /\ CutPositions(buffer) = {}
  /\ \A i \in 1 .. Len(chunks) : phase # "fresh" \/ i < Len(chunks) => Whole(chunks[i])

(* What the text functions return.                                           *)
LEMMA TextTypes ==
  /\ \A s \in Seq(Plain) : DropToolCalls(s) \in Seq(Plain)
  /\ \A in : \A s \in Seq(Bits) : FilterReasoning(in, s) \in Seq(Plain)
  /\ \A in \in BOOLEAN : \A s, i : InsideAt(in, s, i) \in BOOLEAN
<1>1. ASSUME NEW s \in Seq(Plain) PROVE DropToolCalls(s) \in Seq(Plain)
  <2>1. \A i \in 1 .. Len(s) : s[i] \in Plain
    BY ElementOfSeq
  <2> QED BY <2>1, PickType DEF DropToolCalls
<1>2. ASSUME NEW in, NEW s \in Seq(Bits) PROVE FilterReasoning(in, s) \in Seq(Plain)
  <2> DEFINE P == {i \in DOMAIN s : ~IsTag(s[i]) /\ ~InsideAt(in, s, i)}
  <2>1. \A i \in 1 .. Len(s) : i \in P => s[i] \in Plain
    <3>1. \A i \in 1 .. Len(s) : s[i] \in Bits
      BY ElementOfSeq
    <3> QED BY <3>1 DEF Bits, IsTag, Plain
  <2>2. Pick(s, P) \in Seq(Plain)
    <3> HIDE DEF P
    <3> QED BY <2>1, PickType
  <2> QED BY <2>2 DEF FilterReasoning
<1>3. ASSUME NEW in \in BOOLEAN, NEW s, NEW i PROVE InsideAt(in, s, i) \in BOOLEAN
  BY DEF InsideAt
<1> QED BY <1>1, <1>2, <1>3

(* The pieces of a delta.                                                    *)
LEMMA DeltaType ==
  ASSUME ChunkerTypes, NEW text \in Deltas, NEW last \in {<<>>, <<"<">>, <<">">>}
  PROVE  /\ text \in Seq(Pieces)
         /\ (IF half = "none" THEN <<>> ELSE <<half>>) \in Seq(Pieces)
         /\ (IF half = "none" THEN <<>> ELSE <<SecondPart>>) \in Seq(Bits)
         /\ [k \in DOMAIN last |-> FirstPart[last[k]]] \in Seq(Bits)
         /\ last # <<>> => last[1] \in {"<", ">"}
<1>1. text \in Seq(Pieces)
  BY ChunkerAssumption DEF Deltas
<1>2. half # "none" => half \in Pieces
  BY DEF ChunkerTypes, Pieces
<1>3. SecondPart \in Bits
  BY DEF SecondPart, Bits, Plain
<1>5. (IF half = "none" THEN <<>> ELSE <<half>>) \in Seq(Pieces)
  <2>1. \A p \in Pieces : <<p>> \in Seq(Pieces)
    OBVIOUS
  <2>2. <<>> \in Seq(Pieces)
    OBVIOUS
  <2> QED BY <1>2, <2>1, <2>2, Zenon
<1>6. (IF half = "none" THEN <<>> ELSE <<SecondPart>>) \in Seq(Bits)
  <2>1. <<SecondPart>> \in Seq(Bits) /\ <<>> \in Seq(Bits)
    BY <1>3
  <2> QED BY <2>1, Zenon
<1>7. last # <<>> => last[1] \in {"<", ">"}
  OBVIOUS
<1>4. [k \in DOMAIN last |-> FirstPart[last[k]]] \in Seq(Bits)
  <2>1. FirstPart["<"] \in Bits /\ FirstPart[">"] \in Bits
    BY DEF FirstPart, Bits, Plain
  <2>2. CASE last = <<>>
    BY <2>2
  <2>3. CASE last = <<"<">>
    <3>1. DOMAIN last = 1 .. 1 /\ last[1] = "<"
      BY <2>3
    <3> QED BY <2>1, <3>1
  <2>4. CASE last = <<">">>
    <3>1. DOMAIN last = 1 .. 1 /\ last[1] = ">"
      BY <2>4
    <3> QED BY <2>1, <3>1
  <2> QED BY <2>2, <2>3, <2>4
<1> QED BY <1>1, <1>4, <1>5, <1>6, <1>7

(* feed keeps the state well formed, whatever the delta.                     *)
LEMMA FedKeepsWhole ==
  ASSUME WholeInv, phase = "streaming", phase' = "streaming",
         NEW delta \in Seq(Bits), Fed(delta)
  PROVE  /\ buffer' \in Seq(Plain) /\ inside' \in BOOLEAN
         /\ chunks' \in Seq(Chunk)
         /\ CutPositions(buffer') = {}
         /\ \A i \in 1 .. Len(chunks') : Whole(chunks'[i])
<1> DEFINE f == FilterReasoning(inside, delta)
           d == DropToolCalls(buffer \o f)
<1>1. buffer \in Seq(Plain) /\ chunks \in Seq(Chunk) /\ inside \in BOOLEAN
      /\ Wholes(chunks) /\ CutPositions(buffer) = {}
  BY DEF WholeInv, ChunkerTypes, Wholes
<1>2. f \in Seq(Plain) /\ buffer \o f \in Seq(Plain) /\ d \in Seq(Plain)
  <2>1. f \in Seq(Plain)
    BY TextTypes
  <2> HIDE DEF f
  <2>2. buffer \o f \in Seq(Plain)
    BY <1>1, <2>1, ConcatProperties
  <2> QED BY <2>1, <2>2, TextTypes
<1>3. /\ inside' = InsideAt(inside, delta, Len(delta) + 1)
      /\ f = <<>> => buffer' = buffer /\ chunks' = chunks
      /\ f # <<>> => buffer' = CutAll(d).buffer /\ chunks' = chunks \o CutAll(d).out
  BY DEF Fed
<1>4. inside' \in BOOLEAN
  BY <1>1, <1>3, TextTypes
<1> HIDE DEF f, d
<1>5. PICK e \in CutStates : e = CutAll(d) /\ CutPositions(e.buffer) = {} /\ Wholes(e.out)
  BY <1>2, CutAllDone
<1>6. e.buffer \in Seq(Plain) /\ e.out \in Seq(Chunk)
  BY DEF CutStates
<1>7. chunks \o e.out \in Seq(Chunk) /\ Wholes(chunks \o e.out)
  <2>1. PICK o : o = e.out
    OBVIOUS
  <2>2. chunks \o o \in Seq(Chunk) /\ Len(chunks \o o) = Len(chunks) + Len(o)
        /\ \A i \in 1 .. Len(chunks) + Len(o) : (chunks \o o)[i] =
                     IF i <= Len(chunks) THEN chunks[i] ELSE o[i - Len(chunks)]
    BY <1>1, <1>6, <2>1, ConcatProperties
  <2>3. Len(chunks) \in Nat /\ Len(o) \in Nat
    BY <1>1, <1>6, <2>1
  <2>4. ASSUME NEW i \in 1 .. Len(chunks \o o) PROVE Whole((chunks \o o)[i])
    <3>1. CASE i <= Len(chunks)
      <4>1. i \in 1 .. Len(chunks) /\ (chunks \o o)[i] = chunks[i]
        BY <2>2, <2>3, <3>1
      <4> QED BY <1>1, <4>1 DEF Wholes
    <3>2. CASE ~(i <= Len(chunks))
      <4>1. i - Len(chunks) \in 1 .. Len(o) /\ (chunks \o o)[i] = o[i - Len(chunks)]
        BY <2>2, <2>3, <3>2
      <4> QED BY <1>5, <2>1, <4>1 DEF Wholes
    <3> QED BY <3>1, <3>2
  <2> QED BY <2>1, <2>2, <2>4 DEF Wholes
<1>8. /\ buffer' \in Seq(Plain) /\ chunks' \in Seq(Chunk)
      /\ CutPositions(buffer') = {} /\ Wholes(chunks')
  BY <1>1, <1>3, <1>5, <1>6, <1>7
<1> QED BY <1>4, <1>8 DEF Wholes

(* WholeInv holds before anything is fed.                                    *)
LEMMA WholeStart == Init => WholeInv
<1> SUFFICES ASSUME Init PROVE WholeInv
  OBVIOUS
<1>1. ChunkerTypes
  <2>1. <<>> \in Seq(Plain) /\ <<>> \in Seq(Chunk) /\ <<>> \in Seq(Pieces)
    BY EmptySeq
  <2> QED BY <2>1 DEF Init, ChunkerTypes, Nothing
<1>2. CutPositions(buffer) = {}
  BY NothingToCut DEF Init
<1>3. Len(chunks) = 0
  BY DEF Init
<1> QED BY <1>1, <1>2, <1>3 DEF WholeInv

(* A feed, the end of a stream and the next turn keep it.                    *)
LEMMA WholeStep == WholeInv /\ [Next]_vars => WholeInv'
<1> SUFFICES ASSUME WholeInv, [Next]_vars PROVE WholeInv'
  OBVIOUS
<1>1. CASE TurnBegins
  <2>1. ChunkerTypes /\ CutPositions(buffer) = {}
    BY DEF WholeInv
  <2>2. /\ phase' = "streaming" /\ buffer' = buffer /\ inside' = inside
        /\ chunks' = <<>> /\ said' = <<>> /\ half' = "none" /\ tagCut' = FALSE
        /\ \/ carried' = [buffer |-> buffer, inside |-> inside]
           \/ carried' = [buffer |-> <<>>, inside |-> FALSE]
    BY <1>1 DEF TurnBegins, Nothing
  <2>3. <<>> \in Seq(Plain) /\ <<>> \in Seq(Chunk) /\ <<>> \in Seq(Pieces)
    OBVIOUS
  <2>4. buffer \in Seq(Plain) /\ inside \in BOOLEAN
    BY <2>1 DEF ChunkerTypes
  <2>5. carried' \in [buffer : Seq(Plain), inside : BOOLEAN]
    <3>1. [buffer |-> buffer, inside |-> inside] \in [buffer : Seq(Plain), inside : BOOLEAN]
      BY <2>4
    <3>2. [buffer |-> <<>>, inside |-> FALSE] \in [buffer : Seq(Plain), inside : BOOLEAN]
      BY <2>3
    <3> QED BY <2>2, <3>1, <3>2, Zenon
  <2>6. ChunkerTypes'
    BY <2>2, <2>3, <2>4, <2>5, Zenon DEF ChunkerTypes
  <2>7. 1 .. Len(chunks') = {}
    <3>1. chunks' = <<>>
      BY <2>2
    <3>2. 1 .. Len(<<>>) = {}
      OBVIOUS
    <3> QED BY <3>1, <3>2, Zenon
  <2>8. CutPositions(buffer') = {}
    BY <2>1, <2>2, Zenon
  <2> QED BY <2>6, <2>7, <2>8, Zenon DEF WholeInv
<1>2. CASE OnStreamEnd
  <2> DEFINE r == DropToolCalls(buffer)
  <2>1. r \in Seq(Plain)
    BY TextTypes DEF WholeInv, ChunkerTypes
  <2> HIDE DEF r
  <2>2. chunks \in Seq(Chunk) /\ \A i \in 1 .. Len(chunks) : Whole(chunks[i])
    BY <1>2 DEF WholeInv, ChunkerTypes, OnStreamEnd
  <2>3. buffer' = <<>> /\ inside' = FALSE /\ phase' = "fresh"
        /\ (r = <<>> => chunks' = chunks) /\ (r # <<>> => chunks' = Append(chunks, r))
    BY <1>2 DEF OnStreamEnd, Flush, r
  <2>4. chunks' \in Seq(Chunk) /\ \A i \in 1 .. Len(chunks') : i < Len(chunks') => Whole(chunks'[i])
    <3>1. CASE r = <<>>
      BY <2>2, <2>3, <3>1
    <3>2. CASE r # <<>>
      <4>1. r \in Chunk
        BY <2>1, <3>2 DEF Chunk
      <4> QED BY <2>2, <2>3, <3>2, <4>1
    <3> QED BY <3>1, <3>2
  <2>5. CutPositions(buffer') = {}
    BY <2>3, NothingToCut
  <2>6. ChunkerTypes'
    <3>1. ChunkerTypes /\ UNCHANGED <<said, half, tagCut, carried>>
      BY <1>2 DEF WholeInv, OnStreamEnd
    <3>2. <<>> \in Seq(Plain)
      OBVIOUS
    <3>3. /\ phase' \in {"fresh", "streaming", "aborted"} /\ buffer' \in Seq(Plain)
          /\ inside' \in BOOLEAN
      BY <2>3, <3>2, Zenon
    <3>4. said' \in Seq(Pieces) /\ half' \in {"none", "<", ">"} /\ tagCut' \in BOOLEAN
          /\ carried' \in [buffer : Seq(Plain), inside : BOOLEAN]
      BY <3>1, Zenon DEF ChunkerTypes
    <3> QED BY <2>4, <3>3, <3>4, Zenon DEF ChunkerTypes
  <2> QED BY <2>3, <2>4, <2>5, <2>6 DEF WholeInv
<1>3. CASE TurnAborted
  BY <1>3 DEF WholeInv, ChunkerTypes, TurnAborted
<1>4. ASSUME NEW text \in Deltas, NEW last \in {<<>>, <<"<">>, <<">">>}, OnStream(text, last)
      PROVE  WholeInv'
  <2> DEFINE tag == IF half = "none" THEN <<>> ELSE <<half>>
             new == (IF half = "none" THEN <<>> ELSE <<SecondPart>>) \o text
             rest == [k \in DOMAIN last |-> FirstPart[last[k]]]
  <2>0. ChunkerTypes
    BY DEF WholeInv
  <2>1. /\ text \in Seq(Pieces) /\ tag \in Seq(Pieces) /\ new \in Seq(Bits) /\ rest \in Seq(Bits)
        /\ last # <<>> => last[1] \in {"<", ">"}
    <3>1. /\ text \in Seq(Pieces) /\ tag \in Seq(Pieces)
          /\ (IF half = "none" THEN <<>> ELSE <<SecondPart>>) \in Seq(Bits) /\ rest \in Seq(Bits)
          /\ last # <<>> => last[1] \in {"<", ">"}
      BY <2>0, DeltaType
    <3>2. text \in Seq(Bits)
      BY <3>1, SeqMonotonic, Pieces \subseteq Bits DEF Bits
    <3>3. new \in Seq(Bits)
      BY <3>1, <3>2, ConcatProperties
    <3> HIDE DEF tag, new, rest
    <3> QED BY <3>1, <3>3, Zenon
  <2>2. /\ phase = "streaming" /\ phase' = "streaming" /\ said' = said \o tag \o text
        /\ Fed(new \o rest) /\ half' = (IF last = <<>> THEN "none" ELSE last[1])
        /\ tagCut' = (tagCut \/ last # <<>>) /\ carried' = carried
    BY <1>4 DEF OnStream
  <2> HIDE DEF tag, new, rest
  <2>3. new \o rest \in Seq(Bits)
    BY <2>1
  <2>4. /\ buffer' \in Seq(Plain) /\ inside' \in BOOLEAN
        /\ chunks' \in Seq(Chunk)
        /\ CutPositions(buffer') = {}
        /\ \A i \in 1 .. Len(chunks') : Whole(chunks'[i])
    BY <2>2, <2>3, FedKeepsWhole
  <2>5. said' \in Seq(Pieces)
    <3>1. said \in Seq(Pieces)
      BY <2>0 DEF ChunkerTypes
    <3>2. said \o tag \o text \in Seq(Pieces)
      BY <2>1, <3>1, ConcatProperties
    <3> QED BY <2>2, <3>2
  <2>6. ChunkerTypes'
    BY <2>0, <2>1, <2>2, <2>4, <2>5 DEF ChunkerTypes
  <2> QED BY <2>2, <2>4, <2>6 DEF WholeInv
<1>5. CASE UNCHANGED vars
  BY <1>5 DEF vars, WholeInv, ChunkerTypes
<1> QED BY <1>1, <1>2, <1>3, <1>4, <1>5 DEF Next

(* NothingHeldBack: feed never sits on a sentence that is long enough.       *)
THEOREM NothingStaysBehind == Spec => []NothingHeldBack
<1>1. WholeInv => NothingHeldBack
  BY DEF WholeInv, NothingHeldBack
<1> QED BY <1>1, WholeStart, WholeStep, PTL DEF Spec

(* ChunksWholeSentences: a chunk is plain text and not empty, and one that   *)
(* is not the last of its turn is a whole sentence of the least length.      *)
THEOREM ChunksAreSentences == Spec => []ChunksWholeSentences
<1>1. WholeInv => ChunksWholeSentences
  <2> SUFFICES ASSUME WholeInv, NEW i \in DOMAIN chunks
               PROVE  /\ chunks[i] \in Chunk
                      /\ i < Len(chunks) => Len(chunks[i]) >= MinChunk /\ Last(chunks[i]) = "."
    BY DEF ChunksWholeSentences, Chunk
  <2>0. chunks \in Seq(Chunk)
    BY DEF WholeInv, ChunkerTypes
  <2>1. i \in 1 .. Len(chunks) /\ chunks \in Seq(Chunk)
    BY <2>0, LenProperties
  <2>2. chunks[i] \in Chunk
    BY <2>1, ElementOfSeq
  <2> QED BY <2>1, <2>2 DEF WholeInv, Whole
<1> QED BY <1>1, WholeStart, WholeStep, PTL DEF Spec
-----------------------------------------------------------------------------
(* Spoken as written                                                         *)

(* A tool call that holds the end of a sentence, in more text.               *)
LEMMA SentenceInLonger ==
  ASSUME NEW s \in Seq(Plain), NEW f \in Seq(Plain)
  PROVE  /\ SentenceInToolCall(s) => SentenceInToolCall(s \o f)
         /\ Before(s, "call", ".") /\ Holds(f, "end") => SentenceInToolCall(s \o f)
<1> DEFINE u == s \o f
<1>1. /\ u \in Seq(Plain) /\ DOMAIN u = 1 .. Len(s) + Len(f) /\ DOMAIN s = 1 .. Len(s)
      /\ Len(s) \in Nat /\ Len(f) \in Nat
      /\ \A i \in 1 .. Len(s) + Len(f) : u[i] = IF i <= Len(s) THEN s[i] ELSE f[i - Len(s)]
  <2>1. u \in Seq(Plain) /\ Len(u) = Len(s) + Len(f)
        /\ \A i \in 1 .. Len(s) + Len(f) : u[i] = IF i <= Len(s) THEN s[i] ELSE f[i - Len(s)]
    BY ConcatProperties
  <2>2. Len(s) \in Nat /\ Len(f) \in Nat /\ DOMAIN s = 1 .. Len(s)
    OBVIOUS
  <2> HIDE DEF u
  <2>3. DOMAIN u = 1 .. Len(u)
    BY <2>1
  <2> QED BY <2>1, <2>2, <2>3
<1> HIDE DEF u
<1>2. \A i \in 1 .. Len(s) : i \in DOMAIN u /\ u[i] = s[i]
  BY <1>1
<1>3. \A j \in 1 .. Len(f) : Len(s) + j \in DOMAIN u /\ u[Len(s) + j] = f[j]
  <2> SUFFICES ASSUME NEW j \in 1 .. Len(f) PROVE Len(s) + j \in DOMAIN u /\ u[Len(s) + j] = f[j]
    OBVIOUS
  <2>1. Len(s) + j \in 1 .. Len(s) + Len(f) /\ ~(Len(s) + j <= Len(s))
        /\ (Len(s) + j) - Len(s) = j
    BY <1>1
  <2> QED BY <1>1, <2>1
<1>4. SentenceInToolCall(s) => SentenceInToolCall(u)
  BY <1>1, <1>2 DEF SentenceInToolCall
<1>5. ASSUME Before(s, "call", "."), Holds(f, "end") PROVE SentenceInToolCall(u)
  <2>1. PICK h \in 1 .. Len(s), k \in 1 .. Len(s) : h < k /\ s[h] = "call" /\ s[k] = "."
    BY <1>5 DEF Before
  <2>2. PICK j \in 1 .. Len(f) : f[j] = "end"
    BY <1>5 DEF Holds
  <2>3. /\ h \in DOMAIN u /\ k \in DOMAIN u /\ Len(s) + j \in DOMAIN u
        /\ h < k /\ k < Len(s) + j /\ u[h] = "call" /\ u[k] = "." /\ u[Len(s) + j] = "end"
    BY <1>1, <1>2, <1>3, <2>1, <2>2
  <2> QED BY <2>3 DEF SentenceInToolCall
<1> QED BY <1>4, <1>5 DEF u

(* Chunks that have left do not matter for what comes: a tool call that      *)
(* began in one of them is not closed any more, or it held a sentence end.   *)
LEMMA SpokenOnwards ==
  ASSUME NEW H \in Seq(Plain), NEW f \in Seq(Plain), NEW b \in Seq(Plain),
         NEW cs \in Seq(Seq(Plain)), Wholes(cs),
         FlattenSeq(cs) \o b = DropToolCalls(H), ~SentenceInToolCall(H \o f)
  PROVE  FlattenSeq(cs) \o DropToolCalls(b \o f) = DropToolCalls(H \o f)
<1>1. PICK C \in Seq(Plain) : C = FlattenSeq(cs)
  BY FlattenConcat
<1>2. PICK bf : bf = b \o f
  OBVIOUS
<1>3. C \o b \in Seq(Plain) /\ bf \in Seq(Plain) /\ C \o bf \in Seq(Plain)
  BY <1>1, <1>2, ConcatProperties
<1>4. Callless(C \o b)
  BY <1>1, DroppedCallless
<1>5. DropToolCalls(H \o f) = DropToolCalls(C \o bf)
  <2>1. DropToolCalls(DropToolCalls(H) \o f) = DropToolCalls(H \o f)
    BY DropTwice
  <2>2. (C \o b) \o f = C \o bf
    BY <1>1, <1>2, ConcatAssociative
  <2> QED BY <1>1, <2>1, <2>2
<1>6. CASE ~Holds(C, "call")
  <2>1. DropToolCalls(C \o bf) = C \o DropToolCalls(bf)
    BY <1>1, <1>3, <1>6, DropBehind
  <2> QED BY <1>1, <1>2, <1>5, <2>1
<1>7. CASE Holds(C, "call")
  <2>1. ~Holds(f, "end")
    <3> SUFFICES ASSUME Holds(f, "end") PROVE FALSE
      OBVIOUS
    <3>1. Before(C, "call", ".")
      BY <1>1, <1>7, WholesEnd
    <3>2. Before(C \o b, "call", ".")
      BY <1>1, <3>1, HeldConcat
    <3>3. Before(Pick(H, Kept(H)), "call", ".")
      BY <1>1, <3>2 DEF DropToolCalls, Kept
    <3>4. Before(H, "call", ".")
      BY <3>3, PickHolds
    <3> QED BY <3>4, SentenceInLonger
  <2>2. ~Holds(b, "end") /\ ~Before(C, "call", "end")
    BY <1>1, <1>4, <1>7, HeldConcat DEF Callless
  <2>3. ~Holds(bf, "end")
    BY <1>2, <2>1, <2>2, HeldConcat
  <2>4. ~Before(bf, "call", "end")
    BY <2>3 DEF Before, Holds
  <2>5. ~Before(C \o bf, "call", "end")
    BY <1>1, <1>3, <2>2, <2>3, <2>4, HeldConcat
  <2>6. DropToolCalls(bf) = bf /\ DropToolCalls(C \o bf) = C \o bf
    BY <1>3, <2>4, <2>5, DroppedCallless DEF Callless
  <2> QED BY <1>1, <1>2, <1>5, <2>6
<1> QED BY <1>6, <1>7

(* SpokenAsWritten is not inductive: what is held must be free of complete   *)
(* tool calls, chunks that have left must be whole, and the mode of the      *)
(* filter must be the one that the turn's text leaves behind.                *)
SpokenInv ==
  /\ WholeInv
  /\ Callless(buffer)
  /\ phase = "fresh" => buffer = <<>> /\ inside = FALSE
  /\ half # "none" => tagCut
  /\ phase # "fresh" /\ ~tagCut => inside = Mode(carried.inside, said)
  /\ SpokenAsWritten

(* What feed leaves in the buffer.                                           *)
LEMMA FedKeepsCallless ==
  ASSUME SpokenInv, NEW delta \in Seq(Bits), Fed(delta)
  PROVE  Callless(buffer')
<1> DEFINE f == FilterReasoning(inside, delta)
           bf == buffer \o f
           d == DropToolCalls(bf)
<1>1. bf \in Seq(Plain) /\ d \in Seq(Plain)
  <2>1. f \in Seq(Plain) /\ buffer \in Seq(Plain)
    BY TextTypes DEF SpokenInv, WholeInv, ChunkerTypes
  <2> HIDE DEF f
  <2>2. bf \in Seq(Plain)
    BY <2>1, ConcatProperties
  <2> HIDE DEF bf
  <2> QED BY <2>2, TextTypes
<1>2. /\ f = <<>> => buffer' = buffer
      /\ f # <<>> => buffer' = CutAll(d).buffer
  BY DEF Fed
<1>3. Callless(d)
  <2> HIDE DEF bf
  <2> QED BY <1>1, DroppedCallless
<1> HIDE DEF f, d
<1>4. Callless(CutAll(d).buffer)
  <2>1. PICK e : e = CutAll(d)
    OBVIOUS
  <2>2. e \in CutStates /\ FlattenSeq(e.out) \o e.buffer = d
    BY <1>1, <2>1, CutAllDone, CutKeepsText
  <2>3. PICK o, b : o = e.out /\ b = e.buffer
    OBVIOUS
  <2>4. b \in Seq(Plain) /\ o \in Seq(Seq(Plain))
    <3>1. b \in Seq(Plain) /\ o \in Seq(Chunk) /\ Chunk \subseteq Seq(Plain)
      BY <2>2, <2>3 DEF CutStates, Chunk
    <3> QED BY <3>1, SeqMonotonic
  <2>5. FlattenSeq(o) \in Seq(Plain)
    BY <2>4, FlattenConcat
  <2>6. Before(b, "call", "end") => Before(FlattenSeq(o) \o b, "call", "end")
    BY <2>4, <2>5, HeldConcat
  <2> QED BY <1>3, <2>1, <2>2, <2>3, <2>6 DEF Callless
<1>5. Callless(buffer)
  BY DEF SpokenInv
<1> QED BY <1>2, <1>4, <1>5

(* Three texts one after the other.                                          *)
LEMMA PlainAssociative == \A a, b, c \in Seq(Plain) : (a \o b) \o c = a \o (b \o c)
BY ConcatAssociative

(* A delta without a part of a tag is spoken as it is written.               *)
LEMMA FedSpeaks ==
  ASSUME SpokenInv, phase = "streaming", ~tagCut,
         NEW text \in Seq(Pieces), Fed(text), said' = said \o text, carried' = carried
  PROVE  /\ inside' = Mode(carried'.inside, said')
         /\ ~SentenceInToolCall(Heard') => Spoken' = DropToolCalls(Heard')
<1>1. PICK in, cb, f : /\ in = carried.inside /\ cb = carried.buffer
                       /\ f = FilterReasoning(inside, text)
  OBVIOUS
<1>2. /\ WholeInv /\ inside = Mode(in, said)
      /\ ~SentenceInToolCall(Heard) => Spoken = DropToolCalls(Heard)
  BY <1>1 DEF SpokenInv, SpokenAsWritten
<1>3. /\ buffer \in Seq(Plain) /\ chunks \in Seq(Chunk) /\ Wholes(chunks)
      /\ said \in Seq(Pieces) /\ cb \in Seq(Plain)
  BY <1>1, <1>2 DEF WholeInv, ChunkerTypes, Wholes
<1>4. chunks \in Seq(Seq(Plain))
  BY <1>3, SeqMonotonic, Chunk \subseteq Seq(Plain) DEF Chunk
<1>5. Pieces \subseteq Bits
  BY DEF Bits
<1>6. /\ said \in Seq(Bits) /\ text \in Seq(Bits) /\ f \in Seq(Plain)
      /\ FilterReasoning(in, said) \in Seq(Plain)
  <2>1. said \in Seq(Bits) /\ text \in Seq(Bits)
    BY <1>3, <1>5, SeqMonotonic
  <2> QED BY <1>1, <2>1, TextTypes
<1>7. /\ FilterReasoning(in, said \o text) = FilterReasoning(in, said) \o f
      /\ Mode(in, said \o text) = Mode(inside, text)
  BY <1>1, <1>2, <1>6, FilterConcat
<1>8. inside' = Mode(carried'.inside, said')
  BY <1>1, <1>7 DEF Fed, Mode
<1>9. PICK H \in Seq(Plain) : H = Heard
  BY <1>1, <1>3, <1>6, ConcatProperties DEF Heard
<1>10. Heard' = H \o f
  <2>1. Heard' = cb \o FilterReasoning(in, said \o text)
    BY <1>1 DEF Heard
  <2>2. cb \o (FilterReasoning(in, said) \o f) = (cb \o FilterReasoning(in, said)) \o f
    <3>1. PICK g \in Seq(Plain) : g = FilterReasoning(in, said)
      BY <1>6
    <3>2. cb \in Seq(Plain) /\ f \in Seq(Plain)
      BY <1>3, <1>6
    <3>3. (cb \o g) \o f = cb \o (g \o f)
      BY <3>2, PlainAssociative, Zenon
    <3> QED BY <3>1, <3>3
  <2>3. H = cb \o FilterReasoning(in, said)
    BY <1>1, <1>9 DEF Heard
  <2> QED BY <1>7, <2>1, <2>2, <2>3
<1>11. ASSUME ~SentenceInToolCall(Heard') PROVE Spoken' = DropToolCalls(Heard')
  <2>1. ~SentenceInToolCall(H)
    BY <1>6, <1>10, <1>11, SentenceInLonger
  <2>2. FlattenSeq(chunks) \o buffer = DropToolCalls(H)
    BY <1>2, <1>9, <2>1 DEF Spoken
  <2>3. PICK d : d = DropToolCalls(buffer \o f)
    OBVIOUS
  <2>4. FlattenSeq(chunks) \o d = DropToolCalls(H \o f)
    BY <1>3, <1>4, <1>6, <1>10, <1>11, <2>2, <2>3, SpokenOnwards
  <2>5. CASE f = <<>>
    <3>1. buffer' = buffer /\ chunks' = chunks
      BY <1>1, <2>5 DEF Fed
    <3>2. H \o f = H
      BY <2>5, ConcatEmptySeq
    <3> QED BY <1>10, <2>2, <3>1, <3>2 DEF Spoken
  <2>6. CASE f # <<>>
    <3>1. buffer' = CutAll(d).buffer /\ chunks' = chunks \o CutAll(d).out
      BY <1>1, <2>3, <2>6 DEF Fed
    <3>2. d \in Seq(Plain)
      BY <1>3, <1>6, <2>3, ConcatProperties, TextTypes
    <3>3. PICK e : e = CutAll(d)
      OBVIOUS
    <3>4. e \in CutStates /\ FlattenSeq(e.out) \o e.buffer = d
      BY <3>2, <3>3, CutAllDone, CutKeepsText
    <3>5. PICK o, b : o = e.out /\ b = e.buffer
      OBVIOUS
    <3>6. b \in Seq(Plain) /\ o \in Seq(Seq(Plain))
      <4>1. b \in Seq(Plain) /\ o \in Seq(Chunk) /\ Chunk \subseteq Seq(Plain)
        BY <3>4, <3>5 DEF CutStates, Chunk
      <4> QED BY <4>1, SeqMonotonic
    <3>7. /\ FlattenSeq(chunks) \in Seq(Plain) /\ FlattenSeq(o) \in Seq(Plain)
          /\ FlattenSeq(chunks \o o) = FlattenSeq(chunks) \o FlattenSeq(o)
      BY <1>4, <3>6, FlattenConcat
    <3>8. (FlattenSeq(chunks) \o FlattenSeq(o)) \o b = FlattenSeq(chunks) \o (FlattenSeq(o) \o b)
      BY <3>6, <3>7, ConcatAssociative
    <3>9. Spoken' = FlattenSeq(chunks \o o) \o b
      BY <3>1, <3>3, <3>5 DEF Spoken
    <3> QED BY <1>10, <2>4, <3>4, <3>5, <3>7, <3>8, <3>9
  <2> QED BY <2>5, <2>6
<1> QED BY <1>8, <1>11

(* SpokenInv holds before anything is fed.                                   *)
LEMMA SpokenStart == Init => SpokenInv
<1> SUFFICES ASSUME Init PROVE SpokenInv
  OBVIOUS
<1>1. WholeInv
  BY WholeStart
<1>2. /\ buffer = <<>> /\ inside = FALSE /\ half = "none" /\ tagCut = FALSE /\ phase = "fresh"
      /\ chunks = <<>> /\ said = <<>> /\ carried.buffer = <<>>
  BY DEF Init, Nothing
<1>3. <<>> \in Seq(Plain) /\ <<>> \in Seq(Bits) /\ Len(<<>>) = 0
  OBVIOUS
<1>4. FilterReasoning(carried.inside, <<>>) = <<>> /\ DropToolCalls(<<>>) = <<>>
  BY <1>3, PickNone DEF FilterReasoning, DropToolCalls
<1>5. Heard = <<>> /\ Spoken = <<>>
  <2>1. <<>> \o <<>> = <<>> /\ FlattenSeq(<<>>) = <<>>
    BY DEF FlattenSeq
  <2>2. Heard = <<>> \o <<>> /\ Spoken = <<>> \o <<>>
    BY <1>2, <1>4, <2>1 DEF Heard, Spoken
  <2> QED BY <2>1, <2>2
<1>6. Callless(buffer)
  BY <1>2, <1>3 DEF Callless, Before
<1>7. SpokenAsWritten
  BY <1>4, <1>5 DEF SpokenAsWritten
<1> QED BY <1>1, <1>2, <1>6, <1>7 DEF SpokenInv

(* A turn begins: nothing is said yet, and what was left over is spoken.     *)
LEMMA BeginKeepsSpoken ==
  ASSUME SpokenInv, TurnBegins, WholeInv'
  PROVE  SpokenInv'
<1>1. /\ WholeInv /\ Callless(buffer) /\ inside \in BOOLEAN /\ buffer \in Seq(Plain)
      /\ phase = "fresh" => buffer = <<>> /\ inside = FALSE
  BY DEF SpokenInv, WholeInv, ChunkerTypes
<1>2. /\ phase' = "streaming" /\ buffer' = buffer /\ inside' = inside
      /\ chunks' = <<>> /\ said' = <<>> /\ half' = "none" /\ tagCut' = FALSE
  BY DEF TurnBegins
<1>3. carried'.buffer = buffer /\ carried'.inside = inside
  <2>1. CASE phase = "fresh"
    <3>1. carried' = Nothing
      BY <2>1 DEF TurnBegins
    <3> QED BY <1>1, <2>1, <3>1 DEF Nothing
  <2>2. CASE phase # "fresh"
    <3>1. carried' = [buffer |-> buffer, inside |-> inside]
      BY <2>2 DEF TurnBegins
    <3> QED BY <3>1
  <2> QED BY <2>1, <2>2
<1>4. <<>> \in Seq(Plain) /\ <<>> \in Seq(Bits) /\ Len(<<>>) = 0
  OBVIOUS
<1>5. FilterReasoning(inside, <<>>) = <<>>
  BY <1>4, PickNone DEF FilterReasoning
<1>6. Mode(inside, <<>>) = inside
  <2>1. \A k \in 1 .. ((0 + 1) - 1) : FALSE
    OBVIOUS
  <2> QED BY <1>4, <2>1 DEF Mode, InsideAt
<1>7. Heard' = buffer
  <2>1. Heard' = buffer \o <<>>
    BY <1>2, <1>3, <1>5 DEF Heard
  <2> QED BY <1>1, <2>1, ConcatEmptySeq
<1>8. Spoken' = buffer
  <2>1. FlattenSeq(<<>>) = <<>> /\ <<>> \o buffer = buffer
    BY <1>1 DEF FlattenSeq
  <2> QED BY <1>2, <2>1 DEF Spoken
<1>9. DropToolCalls(buffer) = buffer
  BY <1>1, DroppedCallless
<1>10. SpokenAsWritten'
  BY <1>7, <1>8, <1>9 DEF SpokenAsWritten
<1>11. inside' = Mode(carried'.inside, said')
  BY <1>2, <1>3, <1>6
<1> QED BY <1>1, <1>2, <1>10, <1>11 DEF SpokenInv

(* A turn ends: the remainder is spoken as it is.                            *)
LEMMA EndKeepsSpoken ==
  ASSUME SpokenInv, OnStreamEnd, WholeInv'
  PROVE  SpokenInv'
<1>1. /\ Callless(buffer) /\ buffer \in Seq(Plain) /\ chunks \in Seq(Chunk)
      /\ SpokenAsWritten /\ (half # "none" => tagCut)
  BY DEF SpokenInv, WholeInv, ChunkerTypes
<1>2. PICK r : r = DropToolCalls(buffer)
  OBVIOUS
<1>3. /\ phase' = "fresh" /\ buffer' = <<>> /\ inside' = FALSE
      /\ (r = <<>> => chunks' = chunks) /\ (r # <<>> => chunks' = Append(chunks, r))
      /\ said' = said /\ half' = half /\ tagCut' = tagCut /\ carried' = carried
  BY <1>2 DEF OnStreamEnd, Flush
<1>4. r = buffer
  BY <1>1, <1>2, DroppedCallless
<1>5. chunks \in Seq(Seq(Plain))
  BY <1>1, SeqMonotonic, Chunk \subseteq Seq(Plain) DEF Chunk
<1>6. FlattenSeq(chunks) \in Seq(Plain)
  BY <1>5, FlattenConcat
<1>7. FlattenSeq(chunks') = FlattenSeq(chunks) \o buffer
  <2>1. CASE r = <<>>
    <3>1. FlattenSeq(chunks) \o <<>> = FlattenSeq(chunks)
      BY <1>6, ConcatEmptySeq
    <3> QED BY <1>3, <1>4, <2>1, <3>1
  <2>2. CASE r # <<>>
    <3>1. Longer(chunks', chunks, buffer)
      BY <1>3, <1>4, <2>2 DEF Longer
    <3> QED BY <1>1, <1>5, <3>1, FlattenMore
  <2> QED BY <2>1, <2>2
<1>8. Spoken' = Spoken
  <2>1. FlattenSeq(chunks) \o buffer \in Seq(Plain)
    BY <1>1, <1>6, ConcatProperties
  <2>2. (FlattenSeq(chunks) \o buffer) \o <<>> = FlattenSeq(chunks) \o buffer
    BY <2>1, ConcatEmptySeq
  <2>3. Spoken' = (FlattenSeq(chunks) \o buffer) \o <<>>
    BY <1>3, <1>7 DEF Spoken
  <2> QED BY <2>2, <2>3 DEF Spoken
<1>9. Heard' = Heard
  BY <1>3 DEF Heard
<1>10. SpokenAsWritten'
  BY <1>1, <1>3, <1>8, <1>9 DEF SpokenAsWritten
<1>11. Callless(buffer')
  <2>1. Len(<<>>) = 0
    OBVIOUS
  <2> QED BY <1>3, <2>1 DEF Callless, Before
<1> QED BY <1>1, <1>3, <1>10, <1>11 DEF SpokenInv

(* Every step keeps SpokenInv, if the WholeInv it carries holds.             *)
LEMMA SpokenStep == SpokenInv /\ [Next]_vars => SpokenInv'
<1> SUFFICES ASSUME SpokenInv, [Next]_vars PROVE SpokenInv'
  OBVIOUS
<1>0. WholeInv /\ WholeInv'
  BY WholeStep DEF SpokenInv
<1>1. CASE TurnBegins
  BY <1>0, <1>1, BeginKeepsSpoken
<1>2. CASE OnStreamEnd
  BY <1>0, <1>2, EndKeepsSpoken
<1>3. ASSUME UNCHANGED <<buffer, inside, chunks, said, half, tagCut, carried>>,
             phase' = phase \/ (phase = "streaming" /\ phase' = "aborted")
      PROVE  SpokenInv'
  <2>1. Heard' = Heard /\ Spoken' = Spoken
    BY <1>3 DEF Heard, Spoken
  <2>2. SpokenAsWritten'
    BY <1>3, <2>1 DEF SpokenInv, SpokenAsWritten
  <2> QED BY <1>0, <1>3, <2>2 DEF SpokenInv
<1>4. ASSUME NEW text \in Deltas, NEW last \in {<<>>, <<"<">>, <<">">>}, OnStream(text, last)
      PROVE  SpokenInv'
  <2> DEFINE tag == IF half = "none" THEN <<>> ELSE <<half>>
             before == IF half = "none" THEN <<>> ELSE <<SecondPart>>
             rest == [k \in DOMAIN last |-> FirstPart[last[k]]]
  <2>1. /\ text \in Seq(Pieces) /\ before \in Seq(Bits) /\ rest \in Seq(Bits)
        /\ last # <<>> => last[1] \in {"<", ">"}
    <3>1. ChunkerTypes
      BY <1>0 DEF WholeInv
    <3> QED BY <3>1, DeltaType
  <2>2. /\ phase = "streaming" /\ phase' = "streaming" /\ said' = said \o tag \o text
        /\ Fed((before \o text) \o rest) /\ half' = (IF last = <<>> THEN "none" ELSE last[1])
        /\ tagCut' = (tagCut \/ last # <<>>) /\ carried' = carried
    BY <1>4 DEF OnStream
  <2>3. half' # "none" => tagCut'
    <3>1. last = <<>> => half' = "none"
      BY <2>2
    <3> QED BY <2>2, <3>1
  <2>4. Callless(buffer')
    <3> HIDE DEF before, rest
    <3>1. text \in Seq(Bits)
      BY <2>1, SeqMonotonic, Pieces \subseteq Bits DEF Bits
    <3>2. (before \o text) \o rest \in Seq(Bits)
      BY <2>1, <3>1, ConcatProperties
    <3> QED BY <2>2, <3>2, FedKeepsCallless
  <2>5. CASE tagCut'
    <3>1. SpokenAsWritten'
      BY <2>5 DEF SpokenAsWritten
    <3> QED BY <1>0, <2>2, <2>3, <2>4, <2>5, <3>1 DEF SpokenInv
  <2>6. CASE ~tagCut'
    <3>1. ~tagCut /\ last = <<>> /\ half = "none"
      BY <2>2, <2>6 DEF SpokenInv
    <3>2. tag = <<>> /\ before = <<>>
      BY <3>1
    <3>3. rest = <<>>
      BY <3>1
    <3>4. said \in Seq(Pieces)
      BY <1>0 DEF WholeInv, ChunkerTypes
    <3> HIDE DEF tag, before, rest
    <3>5. said \o tag = said /\ before \o text = text /\ text \o rest = text
      BY <2>1, <3>2, <3>3, <3>4, ConcatEmptySeq
    <3>6. said' = said \o text /\ Fed(text)
      BY <2>2, <3>5
    <3>7. /\ inside' = Mode(carried'.inside, said')
          /\ ~SentenceInToolCall(Heard') => Spoken' = DropToolCalls(Heard')
      BY <2>1, <2>2, <3>1, <3>6, FedSpeaks
    <3>8. SpokenAsWritten'
      BY <3>7 DEF SpokenAsWritten
    <3> QED BY <1>0, <2>2, <2>3, <2>4, <3>7, <3>8 DEF SpokenInv
  <2> QED BY <2>5, <2>6
<1>5. CASE TurnAborted
  BY <1>3, <1>5 DEF TurnAborted
<1>6. CASE UNCHANGED vars
  BY <1>3, <1>6 DEF vars
<1> QED BY <1>1, <1>2, <1>4, <1>5, <1>6 DEF Next

(* SpokenAsWritten: however the network cuts a turn into deltas, the turn is *)
(* spoken word for word as the whole text would be, unless a tag is cut in   *)
(* two or a tool call holds the end of a sentence.                           *)
THEOREM TurnsSpokenAsWritten == Spec => []SpokenAsWritten
<1>1. SpokenInv => SpokenAsWritten
  BY DEF SpokenInv
<1> QED BY <1>1, SpokenStart, SpokenStep, PTL DEF Spec

-----------------------------------------------------------------------------
(* Stage directions                                                          *)

\* How often x stands in s, and at positions of P.
Count(s, x) == Cardinality({i \in DOMAIN s : s[i] = x})
CountAt(s, P, x) == Cardinality({i \in DOMAIN s : i \in P /\ s[i] = x})

(* What is picked is picked as often as it stands at a position of P.        *)
LEMMA PickCount ==
  ASSUME NEW S, NEW s \in Seq(S), NEW P, NEW x
  PROVE  Count(Pick(s, P), x) = CountAt(s, P, x)
<1> DEFINE all(w) == {i \in 1 .. Len(w) : w[i] = x}
           some(w) == {i \in 1 .. Len(w) : i \in P /\ w[i] = x}
           ok(u) == Cardinality(all(Pick(u, P))) = Cardinality(some(u))
           T == {u \in Seq(S) : ok(u)}
<1>1. ASSUME NEW e \in Seq(S), Len(e) = 0 PROVE e \in T
  <2>1. Pick(e, P) = <<>>
    BY <1>1, PickNone
  <2>2. all(<<>>) = {} /\ some(e) = {}
    BY <1>1
  <2> QED BY <2>1, <2>2
<1>2. \A w \in Seq(S) : IsFiniteSet(all(w)) /\ IsFiniteSet(some(w))
  <2> SUFFICES ASSUME NEW w \in Seq(S) PROVE IsFiniteSet(all(w)) /\ IsFiniteSet(some(w))
    OBVIOUS
  <2>1. IsFiniteSet(1 .. Len(w))
    BY FS_Interval
  <2>2. all(w) \in SUBSET (1 .. Len(w)) /\ some(w) \in SUBSET (1 .. Len(w))
    OBVIOUS
  <2> HIDE DEF all, some
  <2> QED BY <2>1, <2>2, FS_Subset
<1>3. ASSUME NEW w \in Seq(S), NEW z \in S, NEW u, Longer(u, w, z)
      PROVE  Cardinality(all(u)) = IF z = x THEN Cardinality(all(w)) + 1 ELSE Cardinality(all(w))
  <2>1. PICK n : Grown(u, w, z, n)
    BY <1>3 DEF Grown
  <2>2. /\ u \in Seq(S) /\ Len(w) \in Nat /\ n = Len(w) + 1 /\ Len(u) = n /\ u[n] = z
        /\ \A i \in 1 .. Len(w) : u[i] = w[i]
    BY <2>1, Appended DEF Grown
  <2>3. CASE z = x
    <3>1. all(u) = all(w) \cup {n} /\ n \notin all(w)
      BY <2>2, <2>3
    <3> HIDE DEF all
    <3> QED BY <1>2, <2>3, <3>1, FS_AddElement
  <2>4. CASE z # x
    <3>1. all(u) = all(w)
      BY <2>2, <2>4
    <3> HIDE DEF all
    <3> QED BY <2>4, <3>1
  <2> QED BY <2>3, <2>4
<1>4. ASSUME NEW v \in Seq(S), NEW z \in S, v \in T PROVE Append(v, z) \in T
  <2>1. PICK u, n : Grown(u, v, z, n)
    BY DEF Grown, Longer
  <2>2. /\ u \in Seq(S) /\ Len(v) \in Nat /\ n = Len(v) + 1 /\ Len(u) = n /\ u[n] = z
        /\ \A i \in 1 .. Len(v) : u[i] = v[i]
    BY <2>1, Appended DEF Grown
  <2>3. /\ Pick(v, P) \in Seq(S)
        /\ n \in P => Longer(Pick(u, P), Pick(v, P), z)
        /\ n \notin P => Pick(u, P) = Pick(v, P)
    BY <2>1, PickMore
  <2>4. Cardinality(all(Pick(v, P))) = Cardinality(some(v))
    BY <1>4
  <2>5. Cardinality(all(Pick(u, P))) = Cardinality(some(u))
    <3>1. CASE n \in P /\ z = x
      <4>1. some(u) = some(v) \cup {n} /\ n \notin some(v)
        BY <2>2, <3>1
      <4> HIDE DEF some, all
      <4>2. Cardinality(some(u)) = Cardinality(some(v)) + 1
        BY <1>2, <4>1, FS_AddElement
      <4>3. Cardinality(all(Pick(u, P))) = Cardinality(all(Pick(v, P))) + 1
        BY <1>3, <2>3, <3>1
      <4> QED BY <2>4, <4>2, <4>3
    <3>2. CASE ~(n \in P /\ z = x)
      <4>1. some(u) = some(v)
        BY <2>2, <3>2
      <4> HIDE DEF some, all
      <4>2. Cardinality(all(Pick(u, P))) = Cardinality(all(Pick(v, P)))
        BY <1>3, <2>3, <3>2
      <4> QED BY <2>4, <4>1, <4>2
    <3> QED BY <3>1, <3>2
  <2> HIDE DEF all, some
  <2> QED BY <2>1, <2>2, <2>5 DEF Grown, Longer
<1>5. Seq(S) \subseteq T
  <2> HIDE DEF T
  <2> QED BY <1>1, <1>4, SequencesByInduction
<1>6. Pick(s, P) \in Seq(S)
  <2>1. \A i \in 1 .. Len(s) : i \in P => s[i] \in S
    BY ElementOfSeq
  <2> QED BY <2>1, PickType
<1>7. DOMAIN s = 1 .. Len(s) /\ DOMAIN Pick(s, P) = 1 .. Len(Pick(s, P))
  BY <1>6, LenProperties
<1>8. ok(s)
  BY <1>5
<1> QED BY <1>7, <1>8 DEF Count, CountAt

(* The asterisks before a word and those behind it.                          *)
LEMMA StarsAround ==
  ASSUME NEW c \in Seq(Plain), NEW i \in 1 .. Len(c), c[i] # "*"
  PROVE  LET stars(Q) == {k \in Q : c[k] = "*"}
         IN  /\ stars(1 .. i) = stars(1 .. (i - 1))
             /\ Cardinality(stars(1 .. (i - 1))) \in Nat
             /\ Cardinality(stars(i .. Len(c))) \in Nat
             /\ Cardinality(stars(DOMAIN c))
                  = Cardinality(stars(1 .. (i - 1))) + Cardinality(stars(i .. Len(c)))
<1> DEFINE stars(Q) == {k \in Q : c[k] = "*"}
           A == stars(1 .. (i - 1))
           B == stars(i .. Len(c))
<1>1. Len(c) \in Nat /\ DOMAIN c = 1 .. Len(c)
  OBVIOUS
<1>2. stars(1 .. i) = A
  BY <1>1
<1>3. stars(DOMAIN c) = A \cup B /\ A \cap B = {}
  BY <1>1
<1>4. IsFiniteSet(A) /\ IsFiniteSet(B)
  <2>1. IsFiniteSet(1 .. (i - 1)) /\ IsFiniteSet(i .. Len(c))
    BY <1>1, FS_Interval
  <2>2. A \in SUBSET (1 .. (i - 1)) /\ B \in SUBSET (i .. Len(c))
    OBVIOUS
  <2> HIDE DEF A, B
  <2> QED BY <2>1, <2>2, FS_Subset
<1> HIDE DEF A, B, stars
<1>5. Cardinality(A) \in Nat /\ Cardinality(B) \in Nat
  BY <1>4, FS_CardinalityType
<1>6. Cardinality(A \cup B) = Cardinality(A) + Cardinality(B)
  <2>1. Cardinality(A \cap B) = 0
    BY <1>3, FS_EmptySet
  <2>2. Cardinality(A \cup B) = Cardinality(A) + Cardinality(B) - Cardinality(A \cap B)
    BY <1>4, FS_Union
  <2> QED BY <1>5, <2>1, <2>2
<1> QED BY <1>2, <1>3, <1>5, <1>6 DEF A, B, stars

(* A word is kept among b asterisks before it and a behind it.               *)
LEMMA StarsParity ==
  ASSUME NEW a \in Nat, NEW b \in Nat
  PROVE  b >= ((a + b) \div 2) * 2 \/ b % 2 = 0 <=> b % 2 = 0 \/ a = 0
<1>1. PICK q \in Nat, r \in {0, 1} : b = 2 * q + r
  <2>1. b = 2 * (b \div 2) + (b % 2) /\ b \div 2 \in Nat /\ b % 2 \in {0, 1}
    OBVIOUS
  <2> QED BY <2>1
<1>2. b % 2 = r
  BY <1>1
<1>3. PICK h \in Nat, t \in {0, 1} : a + b = 2 * h + t
  <2>1. a + b = 2 * ((a + b) \div 2) + ((a + b) % 2) /\ (a + b) \div 2 \in Nat
        /\ (a + b) % 2 \in {0, 1}
    OBVIOUS
  <2> QED BY <2>1
<1>4. (a + b) \div 2 = h
  BY <1>3
<1> QED BY <1>1, <1>2, <1>3, <1>4

(* The preprocessor drops stage directions only.                             *)
LEMMA CleanWords ==
  ASSUME NEW c \in Seq(Plain)
  PROVE  LET words == {i \in DOMAIN c : c[i] = "w"}
             stars(Q) == Cardinality({k \in Q : c[k] = "*"})
         IN  Cardinality({i \in DOMAIN Clean(c) : Clean(c)[i] = "w"})
               = Cardinality({i \in words : stars(1 .. i) % 2 = 0 \/ stars(i .. Len(c)) = 0})
<1> DEFINE words == {i \in DOMAIN c : c[i] = "w"}
           stars(Q) == Cardinality({k \in Q : c[k] = "*"})
           pairs == (stars(DOMAIN c) \div 2) * 2
           P == {i \in DOMAIN c : stars(1 .. (i - 1)) >= pairs
                                  \/ (stars(1 .. (i - 1)) % 2 = 0 /\ c[i] # "*")}
           kept == {i \in words : stars(1 .. i) % 2 = 0 \/ stars(i .. Len(c)) = 0}
<1>1. Clean(c) = Pick(c, P)
  BY DEF Clean
<1>2. {i \in DOMAIN c : i \in P /\ c[i] = "w"} = kept
  <2> SUFFICES ASSUME NEW i \in DOMAIN c, c[i] = "w"
               PROVE  i \in P <=> stars(1 .. i) % 2 = 0 \/ stars(i .. Len(c)) = 0
    OBVIOUS
  <2>1. i \in 1 .. Len(c) /\ c[i] # "*"
    OBVIOUS
  <2>2. /\ stars(1 .. i) = stars(1 .. (i - 1))
        /\ stars(1 .. (i - 1)) \in Nat /\ stars(i .. Len(c)) \in Nat
        /\ stars(DOMAIN c) = stars(1 .. (i - 1)) + stars(i .. Len(c))
    BY <2>1, StarsAround
  <2> HIDE DEF stars
  <2>3. PICK a \in Nat, b \in Nat : b = stars(1 .. (i - 1)) /\ a = stars(i .. Len(c))
                                   /\ stars(DOMAIN c) = a + b
    BY <2>2
  <2>4. b >= ((a + b) \div 2) * 2 \/ b % 2 = 0 <=> b % 2 = 0 \/ a = 0
    BY StarsParity
  <2>5. i \in P <=> b >= ((a + b) \div 2) * 2 \/ b % 2 = 0
    BY <2>1, <2>3
  <2> QED BY <2>2, <2>3, <2>4, <2>5
<1> HIDE DEF P, kept
<1>3. Count(Pick(c, P), "w") = CountAt(c, P, "w")
  BY PickCount
<1> QED BY <1>1, <1>2, <1>3 DEF kept, Count, CountAt

(* DirectionsUnspoken: of a chunk, a word is dropped exactly if the          *)
(* asterisks before it are odd in number and one comes after it.             *)
THEOREM OnlyDirectionsUnspoken == Spec => []DirectionsUnspoken
<1>1. WholeInv => DirectionsUnspoken
  <2> SUFFICES ASSUME WholeInv, NEW c \in Range(chunks) PROVE c \in Seq(Plain)
    BY CleanWords DEF DirectionsUnspoken
  <2>1. chunks \in Seq(Chunk)
    BY DEF WholeInv, ChunkerTypes
  <2>2. Range(chunks) \in SUBSET Chunk
    BY <2>1, RangeOfSeq
  <2> QED BY <2>2 DEF Chunk
<1> QED BY <1>1, WholeStart, WholeStep, PTL DEF Spec
=============================================================================
