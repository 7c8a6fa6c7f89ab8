------------------------- MODULE LongTermMemory_proofs -------------------------
(***************************************************************************)
(* What TLAPS proves of LongTermMemory: for any number of archive calls    *)
(* and turns, chunks of any length and any number of iterations.           *)
(***************************************************************************)
EXTENDS LongTermMemory, Induction, SequenceTheorems

(* The contents that are worth saving, and the user's message with one.      *)
Saveable == {"summary", "old", "blank"}
Utterance(x) == [role |-> "user", content |-> x]

\* One turn of the loop of _push_to_ltm.
Queued(tasks, m) ==
  IF m.role = "user" /\ m.content \notin {"empty", "parts"}
  THEN Append(tasks, m.content) ELSE tasks

(* A step of the loop keeps a list of saveable contents.                     *)
LEMMA QueuedType ==
  ASSUME NEW tasks \in Seq(Saveable), NEW m \in Messages
  PROVE  Queued(tasks, m) \in Seq(Saveable)
<1>1. m.role = "user" /\ m.content \notin {"empty", "parts"} => m.content \in Saveable
  BY DEF Messages, Contents, Saveable
<1> QED BY <1>1 DEF Queued

(* The loop goes through the messages one by one.                            *)
LEMMA SavedStepwise ==
  ASSUME NEW chunk \in Seq(Messages)
  PROVE  \E acc :
           /\ acc \in [0 .. Len(chunk) -> Seq(Saveable)]
           /\ acc[0] = <<"summary">>
           /\ \A i \in 1 .. Len(chunk) : acc[i] = Queued(acc[i - 1], chunk[i])
           /\ acc[Len(chunk)] = ToSave(chunk)
<1> DEFINE n == Len(chunk)
           D == Seq(Saveable)
           a == <<"summary">>
           h == [p \in (1 .. n) \X D |-> Queued(p[2], chunk[p[1]])]
           is(f) == f = [s \in SUBSET (1 .. n) |->
                           IF s = {} THEN a ELSE Queued(f[s \ {Max(s)}], chunk[Max(s)])]
           t == CHOOSE f : is(f)
<1>1. ToSave(chunk) = t[1 .. n]
  BY DOMAIN chunk = 1 .. n DEF ToSave, FoldLeft, MapThenFoldSet, Queued
<1>2. n \in Nat /\ a \in D /\ \A i \in 1 .. n : chunk[i] \in Messages
  BY DEF Saveable
<1>3. h \in [(1 .. n) \X D -> D]
  BY <1>2, QueuedType
<1>4. PICK f : FoldTable(f, n, D, a, h)
  <2> HIDE DEF h, n, D, a
  <2> QED BY <1>2, <1>3, FoldOnInterval
<1>5. is(f)
  <2> SUFFICES ASSUME NEW s \in SUBSET (1 .. n)
               PROVE  f[s] = IF s = {} THEN a ELSE Queued(f[s \ {Max(s)}], chunk[Max(s)])
    BY <1>4 DEF FoldTable
  <2>1. CASE s = {}
    BY <1>4, <2>1 DEF FoldTable
  <2>2. CASE s # {}
    <3>1. Max(s) \in 1 .. n
      BY <1>2, <2>2, MaxInInterval
    <3>2. f[s \ {Max(s)}] \in D
      BY <1>4 DEF FoldTable
    <3> QED BY <1>4, <2>2, <3>1, <3>2 DEF FoldTable
  <2> QED BY <2>1, <2>2
<1>6. is(t)
  BY <1>5
<1>7. t[1 .. 0] = a
  <2>1. 1 .. 0 = {} /\ {} \in SUBSET (1 .. n)
    OBVIOUS
  <2> QED BY <1>6, <2>1
<1>8. ASSUME NEW i \in 1 .. n
      PROVE  t[1 .. i] = Queued(t[1 .. (i - 1)], chunk[i])
  <2>1. 1 .. i \in SUBSET (1 .. n) /\ 1 .. i # {} /\ Max(1 .. i) = i
        /\ (1 .. i) \ {i} = 1 .. (i - 1)
    BY <1>2, IntervalPeeled
  <2> HIDE DEF t
  <2> QED BY <1>6, <2>1
<1> DEFINE acc == [i \in 0 .. n |-> t[1 .. i]]
<1>9. /\ acc[0] = a /\ acc[n] = t[1 .. n]
      /\ \A i \in 1 .. n : acc[i] = Queued(acc[i - 1], chunk[i])
  <2>1. \A i \in 0 .. n : acc[i] = t[1 .. i]
    OBVIOUS
  <2>2. \A i \in 1 .. n : i \in 0 .. n /\ i - 1 \in 0 .. n
    OBVIOUS
  <2>3. 0 \in 0 .. n /\ n \in 0 .. n
    OBVIOUS
  <2> HIDE DEF acc, t, n
  <2> QED BY <1>7, <1>8, <2>1, <2>2, <2>3
<1>10. \A i \in 0 .. n : acc[i] \in D
  <2> DEFINE S == {i \in 0 .. n : acc[i] \in D}
  <2> HIDE DEF acc, a
  <2>1. 0 \in S
    BY <1>2, <1>9
  <2>2. ASSUME NEW i \in 1 .. n, i - 1 \in S PROVE i \in S
    <3>1. acc[i - 1] \in D /\ chunk[i] \in Messages /\ i \in 0 .. n
      BY <1>2, <2>2
    <3>2. Queued(acc[i - 1], chunk[i]) \in D
      BY <3>1, QueuedType
    <3> HIDE DEF D, n
    <3> QED BY <1>9, <3>1, <3>2
  <2>3. 0 .. n \subseteq S
    <3> HIDE DEF S, n
    <3> QED BY <1>2, <2>1, <2>2, IntervalByInduction
  <2> QED BY <2>3
<1>11. acc \in [0 .. n -> D]
  BY <1>10
<1> HIDE DEF acc
<1> QED BY <1>1, <1>9, <1>11

(* How often x is in s, and that appending counts.                           *)
Count(s, x) == Cardinality({i \in DOMAIN s : s[i] = x})

\* A name for the relation keeps the lemma easy to instantiate.
Appends(r, s, e) == r = Append(s, e)

(* Appending x, and nothing else, adds one to the number of times x occurs.  *)
LEMMA CountAppended ==
  ASSUME NEW S, NEW s \in Seq(S), NEW e \in S, NEW x, NEW r, Appends(r, s, e)
  PROVE  /\ Count(s, x) \in Nat
         /\ e = x => Count(r, x) = Count(s, x) + 1
         /\ e # x => Count(r, x) = Count(s, x)
<1> DEFINE P == {i \in DOMAIN s : s[i] = x}
           n == Len(s)
<1>1. DOMAIN s = 1 .. n /\ n \in Nat
  OBVIOUS
<1>2. IsFiniteSet(P) /\ Cardinality(P) \in Nat
  <2>1. IsFiniteSet(1 .. n)
    BY <1>1, FS_Interval
  <2> QED BY <1>1, <2>1, FS_Subset, FS_CardinalityType
<1>3. r \in Seq(S) /\ Len(r) = n + 1
  BY AppendProperties DEF Appends
<1>4. ASSUME NEW i \in 1 .. n PROVE r[i] = s[i]
  BY AppendProperties DEF Appends
<1>5. r[n + 1] = e
  BY AppendProperties DEF Appends
<1>6. DOMAIN r = (1 .. n) \cup {n + 1} /\ n + 1 \notin P
  BY <1>1, <1>3
<1> DEFINE R == {i \in DOMAIN r : r[i] = x}
<1>7. Count(s, x) = Cardinality(P) /\ Count(r, x) = Cardinality(R)
  BY DEF Count
<1>8. \A i \in 1 .. n : r[i] = s[i]
  BY <1>4
<1>9. CASE e = x
  <2>1. R = P \cup {n + 1}
    BY <1>1, <1>5, <1>6, <1>8, <1>9
  <2> HIDE DEF P, R
  <2>2. Cardinality(R) = Cardinality(P) + 1
    BY <1>2, <1>6, <2>1, FS_AddElement
  <2> QED BY <1>2, <1>7, <1>9, <2>2
<1>10. CASE e # x
  <2>1. R = P
    BY <1>1, <1>5, <1>6, <1>8, <1>10
  <2> HIDE DEF P, R
  <2> QED BY <1>2, <1>7, <1>10, <2>1
<1> QED BY <1>9, <1>10

(* A list of one element.                                                    *)
LEMMA CountOfOne ==
  ASSUME NEW e, NEW x, NEW s, s = <<e>>
  PROVE  (e = x => Count(s, x) = 1) /\ (e # x => Count(s, x) = 0)
<1> DEFINE P == {i \in DOMAIN s : s[i] = x}
<1>1. DOMAIN s = {1} /\ s[1] = e
  OBVIOUS
<1>2. P = IF e = x THEN {1} ELSE {}
  BY <1>1
<1>3. Count(s, x) = Cardinality(P)
  BY DEF Count
<1>4. Cardinality({1}) = 1 /\ Cardinality({}) = 0
  BY FS_Singleton, FS_EmptySet
<1> HIDE DEF P
<1> QED BY <1>2, <1>3, <1>4

(* How often x is among the first k of s, and one more.                      *)
CountUpTo(s, k, x) == Cardinality({i \in 1 .. k : s[i] = x})

(* The last of the first k positions counts exactly if it holds x.           *)
LEMMA CountPeeled ==
  ASSUME NEW s, NEW k \in Nat \ {0}, NEW x
  PROVE  /\ CountUpTo(s, k - 1, x) \in Nat
         /\ s[k] = x => CountUpTo(s, k, x) = CountUpTo(s, k - 1, x) + 1
         /\ s[k] # x => CountUpTo(s, k, x) = CountUpTo(s, k - 1, x)
<1> DEFINE P == {i \in 1 .. (k - 1) : s[i] = x}
           R == {i \in 1 .. k : s[i] = x}
<1>1. IsFiniteSet(P) /\ Cardinality(P) \in Nat /\ k \notin P
  <2>1. IsFiniteSet(1 .. (k - 1))
    BY FS_Interval
  <2> QED BY <2>1, FS_Subset, FS_CardinalityType
<1>2. 1 .. k = (1 .. (k - 1)) \cup {k}
  OBVIOUS
<1> USE DEF CountUpTo
<1>3. CASE s[k] = x
  <2>1. R = P \cup {k}
    BY <1>2, <1>3
  <2> HIDE DEF P, R
  <2>2. Cardinality(R) = Cardinality(P) + 1
    BY <1>1, <2>1, FS_AddElement
  <2> QED BY <1>1, <1>3, <2>2 DEF P, R
<1>4. CASE s[k] # x
  <2>1. R = P
    BY <1>2, <1>4
  <2> QED BY <1>1, <1>4, <2>1
<1> QED BY <1>3, <1>4

(* The summary and the user's utterances are saved, each of them once: as    *)
(* often as the user has said it.                                            *)
LEMMA ToSaveCounts ==
  ASSUME NEW chunk \in Seq(Messages)
  PROVE  /\ ToSave(chunk) \in Seq(Saveable)
         /\ \A x \in {"old", "blank"} : Count(ToSave(chunk), x) = Count(chunk, Utterance(x))
         /\ Count(ToSave(chunk), "summary") = 1
<1> DEFINE n == Len(chunk)
           uttered(x, k) == CountUpTo(chunk, k, Utterance(x))
<1>1. PICK acc : /\ acc \in [0 .. n -> Seq(Saveable)]
                 /\ acc[0] = <<"summary">>
                 /\ \A i \in 1 .. n : acc[i] = Queued(acc[i - 1], chunk[i])
                 /\ acc[n] = ToSave(chunk)
  BY SavedStepwise
<1> DEFINE P(k) == /\ \A x \in {"old", "blank"} : Count(acc[k], x) = uttered(x, k)
                   /\ Count(acc[k], "summary") = 1
           S == {k \in 0 .. n : P(k)}
<1>2. n \in Nat /\ DOMAIN chunk = 1 .. n /\ \A i \in 1 .. n : chunk[i] \in Messages
  OBVIOUS
<1>3. 0 \in S
  <2>1. \A x : uttered(x, 0) = 0
    <3>1. \A x : {i \in 1 .. 0 : chunk[i] = Utterance(x)} = {}
      OBVIOUS
    <3> QED BY <3>1, FS_EmptySet DEF CountUpTo
  <2>2. /\ Count(acc[0], "summary") = 1
        /\ \A x \in {"old", "blank"} : Count(acc[0], x) = 0
    BY <1>1, CountOfOne
  <2> HIDE DEF uttered
  <2> QED BY <1>2, <2>1, <2>2
<1>4. ASSUME NEW k \in 1 .. n, k - 1 \in S PROVE k \in S
  <2>1. P(k - 1) /\ k - 1 \in 0 .. n /\ k \in 0 .. n /\ k \in Nat \ {0}
    BY <1>4
  <2>2. acc[k - 1] \in Seq(Saveable) /\ acc[k] = Queued(acc[k - 1], chunk[k])
    BY <1>1, <2>1
  <2>3. chunk[k] \in Messages
    BY <1>2
  <2>4. \A x \in {"old", "blank"} :
          /\ uttered(x, k - 1) \in Nat
          /\ chunk[k] = Utterance(x) => uttered(x, k) = uttered(x, k - 1) + 1
          /\ chunk[k] # Utterance(x) => uttered(x, k) = uttered(x, k - 1)
    BY <2>1, CountPeeled
  <2> HIDE DEF uttered, S, n
  <2>5. CASE chunk[k].role = "user" /\ chunk[k].content \notin {"empty", "parts"}
    <3> DEFINE e == chunk[k].content
    <3>1. e \in {"old", "blank"} /\ chunk[k] = Utterance(e)
      BY <2>3, <2>5 DEF Messages, Contents, Utterance
    <3>2. e \in Saveable /\ Appends(acc[k], acc[k - 1], e)
      BY <2>2, <2>5, <3>1 DEF Queued, Saveable, Appends
    <3> HIDE DEF e
    <3>3. ASSUME NEW x
          PROVE  /\ e = x => Count(acc[k], x) = Count(acc[k - 1], x) + 1
                 /\ e # x => Count(acc[k], x) = Count(acc[k - 1], x)
      BY <2>2, <3>2, CountAppended
    <3>4. ASSUME NEW x \in {"old", "blank"} PROVE chunk[k] = Utterance(x) <=> e = x
      BY <3>1 DEF Utterance
    <3>5. Count(acc[k], "summary") = 1
      <4>1. e # "summary"
        BY <3>1
      <4>2. Count(acc[k - 1], "summary") = 1
        BY <2>1
      <4>3. Count(acc[k], "summary") = Count(acc[k - 1], "summary")
        BY <3>3, <4>1
      <4> QED BY <4>2, <4>3
    <3>6. ASSUME NEW x \in {"old", "blank"} PROVE Count(acc[k], x) = uttered(x, k)
      <4>1. Count(acc[k - 1], x) = uttered(x, k - 1)
        BY <2>1
      <4>2. CASE e = x
        BY <2>4, <3>3, <3>4, <4>1, <4>2
      <4>3. CASE e # x
        BY <2>4, <3>3, <3>4, <4>1, <4>3
      <4> QED BY <4>2, <4>3
    <3> QED BY <2>1, <3>5, <3>6 DEF S
  <2>6. CASE ~(chunk[k].role = "user" /\ chunk[k].content \notin {"empty", "parts"})
    <3>1. acc[k] = acc[k - 1]
      BY <2>2, <2>6 DEF Queued
    <3>2. \A x \in {"old", "blank"} : chunk[k] # Utterance(x)
      BY <2>6 DEF Utterance
    <3>3. P(k)
      BY <2>1, <2>4, <3>1, <3>2
    <3> QED BY <2>1, <3>3 DEF S
  <2> QED BY <2>5, <2>6
<1>5. n \in S
  <2> HIDE DEF S, n
  <2>1. 0 .. n \subseteq S
    BY <1>2, <1>3, <1>4, IntervalByInduction
  <2> QED BY <1>2, <2>1
<1>6. \A x : Count(chunk, Utterance(x)) = uttered(x, n)
  BY <1>2 DEF Count, CountUpTo
<1>7. acc[n] \in Seq(Saveable)
  BY <1>1, <1>2
<1> HIDE DEF uttered
<1> QED BY <1>1, <1>5, <1>6, <1>7

-----------------------------------------------------------------------------
(* The record of an archive call: what it has submitted is what its chunk    *)
(* says, in that order, and nothing is under way once it has returned.       *)
ArchiveStates == Ended \cup {"inner", "pushing"}
Answers == {"running", "ok", "failed", "hung"}
SaveRec == [content : Saveable, as : {Identity}, st : Answers]
ArchiveRec == [st : ArchiveStates, chunk : Seq(Messages), saves : Seq(SaveRec)]

SavesItsChunk(a) ==
  /\ a.st \in {"inner", "unsaved", "raised"} => a.saves = <<>>
  /\ a.st \in {"pushing", "summary"} =>
       /\ Len(a.saves) = Len(ToSave(a.chunk))
       /\ \A i \in DOMAIN a.saves : a.saves[i].content = ToSave(a.chunk)[i]
  /\ a.st = "summary" => \A i \in DOMAIN a.saves : a.saves[i].st \notin {"running", "hung"}

ArchiveInv == archive \in [Calls -> {a \in ArchiveRec : SavesItsChunk(a)}]

(* Before the first call nothing has been saved.                             *)
LEMMA ArchiveInit == Init => ArchiveInv
BY DEF Init, ArchiveInv, ArchiveRec, SavesItsChunk, ArchiveStates, Ended

(* A call that keeps its own record in order disturbs no other.              *)
LEMMA ArchiveUpdated ==
  ASSUME ArchiveInv, NEW c \in Calls, NEW a, a \in ArchiveRec, SavesItsChunk(a),
         archive' = [archive EXCEPT ![c] = a]
  PROVE  ArchiveInv'
BY DEF ArchiveInv

(* A call saves what its own chunk says; the turns do not touch it.          *)
LEMMA ArchiveStep == ArchiveInv /\ [Next]_vars => ArchiveInv'
<1> SUFFICES ASSUME ArchiveInv, [Next]_vars PROVE ArchiveInv'
  OBVIOUS
<1>1. CASE UNCHANGED archive
  BY <1>1 DEF ArchiveInv
<1>2. ASSUME NEW c \in Calls, Archive(c) PROVE ArchiveInv'
  <2> DEFINE a == archive[c]
  <2>1. a \in ArchiveRec /\ SavesItsChunk(a) /\ archive = [d \in Calls |-> archive[d]]
    BY DEF ArchiveInv
  <2>2. /\ a.st \in ArchiveStates /\ a.chunk \in Seq(Messages) /\ a.saves \in Seq(SaveRec)
        /\ a = [st |-> a.st, chunk |-> a.chunk, saves |-> a.saves]
    BY <2>1 DEF ArchiveRec
  <2>3. ASSUME NEW chunk \in Chunks, ArchiveCalled(c, chunk) PROVE ArchiveInv'
    <3> DEFINE b == [st |-> "inner", chunk |-> chunk, saves |-> <<>>]
    <3>1. chunk \in Seq(Messages)
      BY DEF Chunks
    <3>2. b \in ArchiveRec /\ SavesItsChunk(b)
      BY <3>1 DEF ArchiveRec, SavesItsChunk, ArchiveStates
    <3>3. archive' = [archive EXCEPT ![c] = b]
      BY <2>3 DEF ArchiveCalled
    <3> HIDE DEF b
    <3> QED BY <3>2, <3>3, ArchiveUpdated
  <2>4. ASSUME NEW r \in {"summary", "none", "(nothing)"}, InnerReturns(c, r) PROVE ArchiveInv'
    <3>1. a.st = "inner" /\ a.saves = <<>>
      BY <2>1, <2>4 DEF InnerReturns, SavesItsChunk
    <3>2. CASE r = "summary"
      <4> DEFINE queue == ToSave(a.chunk)
                 saves == [i \in DOMAIN queue |->
                             [content |-> queue[i], as |-> Identity, st |-> "running"]]
                 b == [st |-> "pushing", chunk |-> a.chunk, saves |-> saves]
      <4>1. queue \in Seq(Saveable)
        BY <2>2, ToSaveCounts
      <4> HIDE DEF queue
      <4>2. DOMAIN queue = 1 .. Len(queue) /\ Len(queue) \in Nat
            /\ \A i \in 1 .. Len(queue) : queue[i] \in Saveable
        BY <4>1
      <4>3. /\ \A i \in 1 .. Len(queue) : saves[i].content = queue[i] /\ saves[i] \in SaveRec
            /\ saves \in Seq(SaveRec) /\ DOMAIN saves = 1 .. Len(queue) /\ Len(saves) = Len(queue)
        <5>1. \A i \in 1 .. Len(queue) : saves[i].content = queue[i] /\ saves[i] \in SaveRec
          BY <4>2 DEF SaveRec, Answers
        <5>2. saves = [i \in 1 .. Len(queue) |-> saves[i]]
          BY <4>2
        <5> HIDE DEF saves
        <5> QED BY <4>2, <5>1, <5>2, IsASeq
      <4>4. b \in ArchiveRec
        BY <2>2, <4>3 DEF ArchiveRec, ArchiveStates
      <4>5. SavesItsChunk(b)
        <5> HIDE DEF saves
        <5> QED BY <4>3 DEF SavesItsChunk, queue
      <4>6. archive' = [archive EXCEPT ![c] = b]
        <5>1. archive' = [archive EXCEPT ![c].st = "pushing", ![c].saves = saves]
          BY <2>4, <3>2 DEF InnerReturns, queue
        <5> DEFINE mid == [archive EXCEPT ![c].st = "pushing"]
        <5> HIDE DEF saves, b
        <5>2. mid = [archive EXCEPT ![c] = [a EXCEPT !.st = "pushing"]]
          OBVIOUS
        <5>3. mid[c] = [st |-> "pushing", chunk |-> a.chunk, saves |-> a.saves]
          BY <2>1, <2>2, <5>2
        <5>4. archive' = [mid EXCEPT ![c].saves = saves]
          BY <5>1
        <5>5. archive' = [mid EXCEPT ![c] = [mid[c] EXCEPT !.saves = saves]]
          BY <5>4
        <5>6. [mid[c] EXCEPT !.saves = saves] = b
          BY <5>3 DEF b
        <5>7. archive' = [mid EXCEPT ![c] = b]
          BY <5>5, <5>6
        <5> QED BY <2>1, <5>2, <5>7
      <4> HIDE DEF b
      <4> QED BY <4>4, <4>5, <4>6, ArchiveUpdated
    <3>3. CASE r # "summary"
      <4> DEFINE b == [a EXCEPT !.st = "unsaved"]
      <4>1. b \in ArchiveRec /\ SavesItsChunk(b)
        BY <2>2, <3>1 DEF ArchiveRec, SavesItsChunk, ArchiveStates, Ended
      <4>2. archive' = [archive EXCEPT ![c] = b]
        BY <2>4, <3>3 DEF InnerReturns
      <4> HIDE DEF b
      <4> QED BY <4>1, <4>2, ArchiveUpdated
    <3> QED BY <3>2, <3>3
  <2>5. CASE InnerRaises(c)
    <3> DEFINE b == [a EXCEPT !.st = "raised"]
    <3>1. b \in ArchiveRec /\ SavesItsChunk(b)
      BY <2>1, <2>2, <2>5 DEF InnerRaises, ArchiveRec, SavesItsChunk, ArchiveStates, Ended
    <3>2. archive' = [archive EXCEPT ![c] = b]
      BY <2>5 DEF InnerRaises
    <3> HIDE DEF b
    <3> QED BY <3>1, <3>2, ArchiveUpdated
  <2>6. ASSUME NEW i \in 1 .. (MaxChunk + 1), NEW answer \in {"ok", "failed", "hung"},
               SafeAdd(c, i, answer)
        PROVE  ArchiveInv'
    <3> DEFINE saves == [a.saves EXCEPT ![i].st = answer]
               b == [a EXCEPT !.saves = saves]
    <3>1. i \in DOMAIN a.saves /\ a.saves[i].st = "running"
      BY <2>6 DEF SafeAdd
    <3>2. a.saves # <<>> /\ a.st # "summary"
      BY <2>1, <3>1 DEF SavesItsChunk
    <3>3. /\ saves \in Seq(SaveRec) /\ Len(saves) = Len(a.saves) /\ DOMAIN saves = DOMAIN a.saves
          /\ \A j \in DOMAIN saves : saves[j].content = a.saves[j].content
      <4>1. [a.saves[i] EXCEPT !.st = answer] \in SaveRec
        <5>1. a.saves[i] \in SaveRec
          BY <2>2, <3>1
        <5> QED BY <5>1 DEF SaveRec, Answers
      <4> QED BY <2>2, <3>1, <4>1 DEF SaveRec
    <3>4. b \in ArchiveRec
      BY <2>2, <3>3 DEF ArchiveRec
    <3>5. SavesItsChunk(b)
      <4>1. b.st = a.st /\ b.chunk = a.chunk /\ b.saves = saves
        BY <2>2
      <4> HIDE DEF saves, b
      <4> QED BY <2>1, <3>2, <3>3, <4>1 DEF SavesItsChunk
    <3>6. archive' = [archive EXCEPT ![c] = b]
      BY <2>6 DEF SafeAdd
    <3> HIDE DEF b
    <3> QED BY <3>4, <3>5, <3>6, ArchiveUpdated
  <2>7. CASE PushDone(c)
    <3> DEFINE b == [a EXCEPT !.st = "summary"]
    <3>1. \A i \in DOMAIN a.saves : a.saves[i].st \notin {"running", "hung"}
      BY <2>7 DEF PushDone, Unsettled
    <3>2. b \in ArchiveRec /\ SavesItsChunk(b)
      BY <2>1, <2>2, <2>7, <3>1 DEF PushDone, ArchiveRec, SavesItsChunk, ArchiveStates, Ended
    <3>3. archive' = [archive EXCEPT ![c] = b]
      BY <2>7 DEF PushDone
    <3> HIDE DEF b
    <3> QED BY <3>2, <3>3, ArchiveUpdated
  <2>8. CASE ArchiveCancelled(c)
    <3> DEFINE b == [a EXCEPT !.st = "cancelled"]
    <3>1. b \in ArchiveRec /\ SavesItsChunk(b)
      BY <2>2 DEF ArchiveRec, SavesItsChunk, ArchiveStates, Ended
    <3>2. archive' = [archive EXCEPT ![c] = b]
      BY <2>8 DEF ArchiveCancelled
    <3> HIDE DEF b
    <3> QED BY <3>1, <3>2, ArchiveUpdated
  <2> QED BY <1>2, <2>3, <2>4, <2>5, <2>6, <2>7, <2>8 DEF Archive
<1>3. ASSUME NEW t \in Turns, Turn(t) PROVE UNCHANGED archive
  BY <1>3 DEF Turn, TurnBegins, BeforeIteration, SearchEnds, ToolCalled, FiresAgain, TurnEnds
<1> QED BY <1>1, <1>2, <1>3 DEF Next, vars

(* What has been submitted once archive() has returned is the summary and    *)
(* every utterance of the user, each exactly as often as it was said, and    *)
(* each save has ended; an archive that yields no summary saves nothing.     *)
THEOREM ArchiveSavesExactlyOnce == Spec => []ArchiveSavesOnce
<1>1. ArchiveInv => ArchiveSavesOnce
  <2> SUFFICES ASSUME ArchiveInv, NEW c \in Calls
               PROVE  /\ archive[c].st = "summary" =>
                           /\ Unsettled(c) = {}
                           /\ \A x \in {"old", "blank"} :
                                Cardinality({i \in DOMAIN archive[c].saves :
                                               archive[c].saves[i].content = x})
                                  = Count(archive[c].chunk, Utterance(x))
                           /\ Cardinality({i \in DOMAIN archive[c].saves :
                                             archive[c].saves[i].content = "summary"}) = 1
                      /\ archive[c].st \in {"unsaved", "raised"} => archive[c].saves = <<>>
    BY DEF ArchiveSavesOnce, Count, Utterance
  <2> DEFINE a == archive[c]
             queue == ToSave(a.chunk)
  <2>1. a \in ArchiveRec /\ SavesItsChunk(a)
    BY DEF ArchiveInv
  <2>2. a.st \in {"unsaved", "raised"} => a.saves = <<>>
    BY <2>1 DEF SavesItsChunk
  <2>3. ASSUME a.st = "summary"
        PROVE  /\ Unsettled(c) = {}
               /\ \A x : Cardinality({i \in DOMAIN a.saves : a.saves[i].content = x}) = Count(queue, x)
    <3>1. Unsettled(c) = {}
      BY <2>1, <2>3 DEF SavesItsChunk, Unsettled
    <3>2. a.chunk \in Seq(Messages) /\ a.saves \in Seq(SaveRec)
      BY <2>1 DEF ArchiveRec
    <3>3. queue \in Seq(Saveable)
      BY <3>2, ToSaveCounts
    <3>4. Len(a.saves) = Len(queue) /\ \A i \in DOMAIN a.saves : a.saves[i].content = queue[i]
      BY <2>1, <2>3 DEF SavesItsChunk
    <3> HIDE DEF queue, a
    <3>5. DOMAIN a.saves = DOMAIN queue
      BY <3>2, <3>3, <3>4
    <3>6. \A x : {i \in DOMAIN a.saves : a.saves[i].content = x} = {i \in DOMAIN queue : queue[i] = x}
      BY <3>4, <3>5
    <3> QED BY <3>1, <3>6 DEF Count
  <2>4. a.chunk \in Seq(Messages)
    BY <2>1 DEF ArchiveRec
  <2>5. /\ \A x \in {"old", "blank"} : Count(queue, x) = Count(a.chunk, Utterance(x))
        /\ Count(queue, "summary") = 1
    BY <2>4, ToSaveCounts
  <2> HIDE DEF queue
  <2> QED BY <2>2, <2>3, <2>5
<1> QED BY <1>1, ArchiveInit, ArchiveStep, PTL DEF Spec

-----------------------------------------------------------------------------
(* The record of a turn.  Of a user's message the turn knows that it is not  *)
(* empty, of a tool call that is the memory's in whose name it is made.      *)
TurnMessages ==
  {m \in [role : {"system", "user", "assistant"}, content : Contents, blocks : Nat] :
     m.role = "user" => m.content # "empty"}

ToolRecs ==
  {call \in [ltm : BOOLEAN, as : [user : {"missing", UserId, Other}, agent : {"missing", AgentId, Other}]] :
     call.ltm => call.as = Identity}

TurnRec ==
  [st : {"idle", "iterating", "searching", "model"}, iter : Nat, fires : Nat,
   msgs : Seq(TurnMessages), query : {"none", "old", "new"}, found : BOOLEAN, tool : ToolRecs]

SystemAt(msgs) == {i \in DOMAIN msgs : msgs[i].role = "system"}
UsersAt(msgs) == {i \in DOMAIN msgs : msgs[i].role = "user"}

\* What the user has said last.
Latest(msgs) == msgs[Max(UsersAt(msgs))].content

\* Position i is grounded exactly if it is the first system message and could be.
Grounding(msgs, found) ==
  /\ found => SystemAt(msgs) # {}
  /\ \A i \in DOMAIN msgs : msgs[i].blocks <= 1
  /\ \A i \in SystemAt(msgs) :
       msgs[i].blocks > 0 <=> found /\ i = Min(SystemAt(msgs)) /\ msgs[i].content # "parts"

Asking(msgs, query) ==
  query # "none" => /\ UsersAt(msgs) # {}
                    /\ Latest(msgs) \notin {"blank", "parts"} => query = Latest(msgs)

(* A search is only under way in a turn that has no block yet: between two   *)
(* searches of one turn stands _already_injected.                            *)
TurnOk(r) ==
  /\ r \in TurnRec
  /\ Grounding(r.msgs, r.found)
  /\ Asking(r.msgs, r.query)
  /\ r.st = "searching" => ~AlreadyInjected(r.msgs)

TurnInv == turn \in [Turns -> {r \in TurnRec : TurnOk(r)}]

(* The positions of the model by their names here.                           *)
LEMMA PositionsNamed ==
  ASSUME NEW msgs
  PROVE  /\ Positions(msgs, IsSystem) = SystemAt(msgs)
         /\ Positions(msgs, LAMBDA m : m.role = "user") = UsersAt(msgs)
BY DEF Positions, IsSystem, SystemAt, UsersAt

(* Short tuples are sequences.                                               *)
LEMMA ShortTuples ==
  ASSUME NEW M, NEW a \in M, NEW b \in M, NEW c \in M
  PROVE  <<>> \in Seq(M) /\ <<a>> \in Seq(M) /\ <<a, b, c>> \in Seq(M)
OBVIOUS

(* The messages a turn may start with have no block.                         *)
LEMMA ContextMessages ==
  ASSUME NEW msgs \in Contexts
  PROVE  msgs \in Seq(TurnMessages) /\ \A i \in DOMAIN msgs : msgs[i].blocks = 0
<1> DEFINE M == {m \in TurnMessages : m.blocks = 0}
<1>1. \A c \in Contents : Sys(c) \in M
  BY DEF Sys, TurnMessages
<1>2. \A r \in {"user", "assistant"}, c \in Contents \ {"empty"} : Msg(r, c) \in M
  BY DEF Msg, TurnMessages
<1> HIDE DEF M
<1>3. PICK s \in {<<>>, <<Sys("old")>>, <<Sys("empty")>>, <<Sys("parts")>>},
           u \in {<<Msg("user", "blank")>>,
                  <<Msg("user", "old"), Msg("assistant", "old"), Msg("user", "new")>>,
                  <<Msg("user", "old"), Msg("assistant", "old"), Msg("user", "parts")>>} :
           msgs = s \o u
  BY DEF Contexts
<1>4. s \in Seq(M)
  <2>1. Sys("old") \in M /\ Sys("empty") \in M /\ Sys("parts") \in M
    BY <1>1 DEF Contents
  <2>2. <<>> \in Seq(M) /\ <<Sys("old")>> \in Seq(M) /\ <<Sys("empty")>> \in Seq(M)
        /\ <<Sys("parts")>> \in Seq(M)
    BY <2>1, ShortTuples
  <2> QED BY <2>2, Zenon
<1>5. u \in Seq(M)
  <2>1. /\ Msg("user", "blank") \in M /\ Msg("user", "old") \in M /\ Msg("user", "new") \in M
        /\ Msg("user", "parts") \in M /\ Msg("assistant", "old") \in M
    BY <1>2 DEF Contents
  <2>2. /\ <<Msg("user", "blank")>> \in Seq(M)
        /\ <<Msg("user", "old"), Msg("assistant", "old"), Msg("user", "new")>> \in Seq(M)
        /\ <<Msg("user", "old"), Msg("assistant", "old"), Msg("user", "parts")>> \in Seq(M)
    BY <2>1, ShortTuples
  <2> QED BY <2>2, Zenon
<1>6. msgs \in Seq(M)
  BY <1>3, <1>4, <1>5, ConcatProperties
<1>7. M \subseteq TurnMessages /\ \A m \in M : m.blocks = 0
  BY DEF M
<1>8. \A i \in DOMAIN msgs : msgs[i] \in M
  BY <1>6
<1> QED BY <1>6, <1>7, <1>8, SeqMonotonic

(* What the search asks for is what the user has said last, if that is said  *)
(* in words.                                                                 *)
LEMMA LastIsLatest ==
  ASSUME NEW msgs \in Seq(TurnMessages), LastUserMessage(msgs) # "none"
  PROVE  LastUserMessage(msgs) \in {"old", "new"} /\ Asking(msgs, LastUserMessage(msgs))
<1> DEFINE n == Len(msgs)
           U == UsersAt(msgs)
           T == {i \in DOMAIN msgs : msgs[i].role = "user" /\ msgs[i].content \in {"old", "new"}}
<1>1. n \in Nat /\ DOMAIN msgs = 1 .. n /\ T \subseteq U /\ U \in SUBSET (0 .. n)
      /\ T \in SUBSET (0 .. n)
  BY DEF UsersAt
<1>2. T # {} /\ LastUserMessage(msgs) = msgs[Max(T)].content
  BY DEF LastUserMessage, Positions
<1>3. Max(T) \in T /\ \A k \in T : k <= Max(T)
  BY <1>1, <1>2, GreatestNatural
<1>4. Max(U) \in U /\ \A k \in U : k <= Max(U)
  BY <1>1, <1>2, GreatestNatural
<1>5. ASSUME Latest(msgs) \notin {"blank", "parts"}
      PROVE  LastUserMessage(msgs) = Latest(msgs)
  <2>1. Max(U) \in DOMAIN msgs /\ msgs[Max(U)].role = "user" /\ msgs[Max(U)] \in TurnMessages
    BY <1>4 DEF UsersAt
  <2>2. msgs[Max(U)].content \in {"old", "new"}
    BY <1>5, <2>1 DEF Latest, TurnMessages, Contents
  <2>3. Max(U) \in T
    BY <2>1, <2>2
  <2>4. Max(U) <= Max(T) /\ Max(T) <= Max(U)
    BY <1>1, <1>3, <1>4, <2>3
  <2>5. Max(U) = Max(T)
    <3>1. Max(U) \in Nat /\ Max(T) \in Nat
      BY <1>1, <1>3, <1>4
    <3> QED BY <2>4, <3>1
  <2> QED BY <1>2, <2>5 DEF Latest
<1>6. msgs[Max(T)].content \in {"old", "new"} /\ U # {}
  BY <1>3, <1>1
<1> HIDE DEF T, U
<1> QED BY <1>2, <1>5, <1>6 DEF Asking, U

(* A message in front moves the others by one; one that takes the place of   *)
(* another moves none.                                                       *)
InFront(new, m, msgs) ==
  /\ new \in Seq(TurnMessages) /\ DOMAIN new = 1 .. (Len(msgs) + 1)
  /\ new[1] = m /\ \A i \in 1 .. Len(msgs) : new[i + 1] = msgs[i]

InPlace(new, at, m, msgs) ==
  /\ new \in Seq(TurnMessages) /\ DOMAIN new = DOMAIN msgs
  /\ new[at] = m /\ \A i \in DOMAIN msgs : i # at => new[i] = msgs[i]

(* A message replaced at its position.                                       *)
LEMMA Replaced ==
  ASSUME NEW msgs \in Seq(TurnMessages), NEW at \in DOMAIN msgs, NEW m \in TurnMessages
  PROVE  InPlace([msgs EXCEPT ![at] = m], at, m, msgs)
BY DEF InPlace

(* A message put in front of the others moves each of them by one.           *)
LEMMA Prefixed ==
  ASSUME NEW msgs \in Seq(TurnMessages), NEW m \in TurnMessages, NEW new, new = <<m>> \o msgs
  PROVE  InFront(new, m, msgs)
<1> DEFINE s == <<m>>
<1>1. s \in Seq(TurnMessages) /\ Len(s) = 1 /\ s[1] = m /\ Len(msgs) \in Nat
  OBVIOUS
<1> HIDE DEF s
<1>2. /\ new \in Seq(TurnMessages) /\ Len(new) = Len(s) + Len(msgs)
      /\ \A i \in 1 .. (Len(s) + Len(msgs)) :
           new[i] = IF i <= Len(s) THEN s[i] ELSE msgs[i - Len(s)]
  BY <1>1, ConcatProperties DEF s
<1>3. new[1] = m
  BY <1>1, <1>2
<1>4. ASSUME NEW i \in 1 .. Len(msgs) PROVE new[i + 1] = msgs[i]
  <2>1. i + 1 \in 1 .. (Len(s) + Len(msgs)) /\ ~(i + 1 <= Len(s)) /\ (i + 1) - Len(s) = i
    BY <1>1
  <2> QED BY <1>2, <2>1
<1> QED BY <1>1, <1>2, <1>3, <1>4 DEF InFront

(* A block put in front of, or into, the messages of a turn that has none    *)
(* grounds it, and leaves what the user has said last.                       *)
LEMMA GroundedInFront ==
  ASSUME NEW msgs \in Seq(TurnMessages), SystemAt(msgs) = {},
         \A i \in DOMAIN msgs : msgs[i].blocks <= 1,
         NEW query, Asking(msgs, query), NEW g, g = TRUE,
         NEW m \in TurnMessages, m.role = "system", m.content = "old", m.blocks = 1,
         NEW new, InFront(new, m, msgs)
  PROVE  new \in Seq(TurnMessages) /\ Grounding(new, g) /\ Asking(new, query)
<1> DEFINE n == Len(msgs)
           U == UsersAt(msgs)
           V == UsersAt(new)
<1>1. /\ new \in Seq(TurnMessages) /\ DOMAIN new = 1 .. (n + 1) /\ new[1] = m
      /\ \A i \in 1 .. n : new[i + 1] = msgs[i]
  BY DEF InFront
<1>2. n \in Nat /\ DOMAIN msgs = 1 .. n
  OBVIOUS
<1>3. ASSUME NEW j \in DOMAIN new, j # 1
      PROVE  j - 1 \in 1 .. n /\ new[j] = msgs[j - 1]
  BY <1>1, <1>2, <1>3, (j - 1) + 1 = j
<1>4. SystemAt(new) = {1}
  <2>1. \A i \in DOMAIN msgs : msgs[i].role # "system"
    BY DEF SystemAt
  <2> QED BY <1>1, <1>2, <1>3, <2>1 DEF SystemAt
<1>5. Min({1}) = 1
  BY MinOfNaturals, {1} \in SUBSET Nat, {1} # {}
<1>6. \A j \in DOMAIN new : new[j].blocks <= 1
  BY <1>1, <1>2, <1>3
<1>7. Grounding(new, g)
  BY <1>1, <1>4, <1>5, <1>6 DEF Grounding
<1>8. ASSUME query # "none"
      PROVE  V # {} /\ Latest(new) = Latest(msgs)
  <2>1. U # {} /\ U \in SUBSET (0 .. n) /\ U \subseteq 1 .. n
    BY <1>2, <1>8 DEF Asking, UsersAt
  <2>2. Max(U) \in U /\ \A k \in U : k <= Max(U)
    BY <1>2, <2>1, GreatestNatural
  <2>3. \A i \in U : i + 1 \in V
    BY <1>1, <1>2 DEF UsersAt
  <2>4. V \in SUBSET (0 .. (n + 1)) /\ V # {}
    BY <1>1, <1>2, <2>2, <2>3 DEF UsersAt
  <2>5. Max(V) \in V /\ \A k \in V : k <= Max(V)
    <3>1. n + 1 \in Nat
      BY <1>2
    <3> HIDE DEF V, n
    <3> QED BY <2>4, <3>1, GreatestNatural
  <2>6. \A j \in V : j # 1 /\ j - 1 \in U
    BY <1>1, <1>2, <1>3 DEF UsersAt
  <2>7. Max(U) + 1 \in V /\ Max(V) - 1 \in U
    BY <2>2, <2>3, <2>5, <2>6
  <2>8. Max(U) \in 1 .. n /\ Max(V) \in 1 .. (n + 1)
    <3>1. V \subseteq 1 .. (n + 1)
      BY <1>1 DEF UsersAt
    <3> HIDE DEF U, V
    <3> QED BY <2>1, <2>2, <2>5, <3>1
  <2>9. Max(V) = Max(U) + 1
    <3> HIDE DEF U, V
    <3>1. Max(U) + 1 <= Max(V) /\ Max(V) - 1 <= Max(U)
      BY <2>2, <2>5, <2>7
    <3>2. Max(U) \in Int /\ Max(V) \in Int
      BY <1>2, <2>8
    <3> QED BY <3>1, <3>2
  <2>10. new[Max(V)] = msgs[Max(U)]
    BY <1>1, <2>8, <2>9
  <2> QED BY <2>4, <2>10 DEF Latest
<1> QED BY <1>1, <1>7, <1>8 DEF Asking

(* A first system message that takes the block grounds the turn.             *)
LEMMA GroundedInPlace ==
  ASSUME NEW msgs \in Seq(TurnMessages), NEW at, at \in SystemAt(msgs),
         at = Min(SystemAt(msgs)), msgs[at].content # "parts",
         \A i \in SystemAt(msgs) : msgs[i].blocks = 0,
         \A i \in DOMAIN msgs : msgs[i].blocks <= 1,
         NEW query, Asking(msgs, query), NEW g, g = TRUE,
         NEW m, m.role = "system", m.content = "old", m.blocks = 1,
         NEW new, InPlace(new, at, m, msgs)
  PROVE  new \in Seq(TurnMessages) /\ Grounding(new, g) /\ Asking(new, query)
<1>1. at \in DOMAIN msgs /\ msgs[at].role = "system"
  BY DEF SystemAt
<1>4. new \in Seq(TurnMessages) /\ DOMAIN new = DOMAIN msgs /\ new[at] = m
      /\ \A i \in DOMAIN msgs : i # at => new[i] = msgs[i]
  BY DEF InPlace
<1>5. m.role = "system" /\ m.content = "old" /\ m.blocks = 1
  OBVIOUS
<1>6. SystemAt(new) = SystemAt(msgs) /\ UsersAt(new) = UsersAt(msgs)
  BY <1>1, <1>4, <1>5 DEF SystemAt, UsersAt
<1>7. \A i \in DOMAIN new : new[i].blocks <= 1
  BY <1>4, <1>5
<1>8. ASSUME NEW i \in SystemAt(new)
      PROVE  new[i].blocks > 0 <=> i = at
  <2>1. i \in DOMAIN msgs /\ i \in SystemAt(msgs)
    BY <1>6 DEF SystemAt
  <2> QED BY <1>4, <1>5, <2>1
<1>9. Grounding(new, g)
  BY <1>4, <1>5, <1>6, <1>7, <1>8 DEF Grounding
<1>10. ASSUME query # "none" PROVE Latest(new) = Latest(msgs)
  <2> DEFINE U == UsersAt(msgs)
  <2>1. U # {} /\ U \in SUBSET (0 .. Len(msgs)) /\ Len(msgs) \in Nat
    BY <1>10 DEF Asking, UsersAt
  <2>2. Max(U) \in U
    BY <2>1, GreatestNatural
  <2>3. Max(U) \in DOMAIN msgs /\ Max(U) # at
    BY <1>1, <2>2 DEF UsersAt
  <2> QED BY <1>4, <1>6, <2>3 DEF Latest
<1> QED BY <1>4, <1>6, <1>9, <1>10 DEF Asking

(* _append_to_system_message grounds a turn that is not, whatever its list.  *)
LEMMA BlockAdded ==
  ASSUME NEW msgs \in Seq(TurnMessages), NEW found \in BOOLEAN, Grounding(msgs, found),
         ~AlreadyInjected(msgs), NEW query, Asking(msgs, query), NEW g, g = TRUE
  PROVE  /\ WithBlock(msgs) \in Seq(TurnMessages)
         /\ Grounding(WithBlock(msgs), g) /\ Asking(WithBlock(msgs), query)
<1> DEFINE sys == SystemAt(msgs)
<1>1. Positions(msgs, IsSystem) = sys /\ sys \in SUBSET Nat
  BY DEF Positions, IsSystem, SystemAt
<1>2. \A i \in sys : msgs[i].blocks = 0
  <2> SUFFICES ASSUME NEW i \in sys PROVE msgs[i].blocks = 0
    OBVIOUS
  <2>1. msgs[i] \in TurnMessages
    BY DEF SystemAt
  <2>2. ~(msgs[i].blocks > 0)
    BY <1>1 DEF AlreadyInjected, Grounding
  <2> QED BY <2>1, <2>2 DEF TurnMessages
<1>3. \A i \in DOMAIN msgs : msgs[i].blocks <= 1
  BY DEF Grounding
<1>4. CASE sys = {}
  <2> DEFINE m == [Sys("old") EXCEPT !.blocks = 1]
  <2>1. m \in TurnMessages /\ m.role = "system" /\ m.content = "old" /\ m.blocks = 1
    BY DEF Sys, TurnMessages, Contents
  <2>2. WithBlock(msgs) = <<m>> \o msgs
    BY <1>1, <1>4 DEF WithBlock
  <2> HIDE DEF m
  <2>3. InFront(WithBlock(msgs), m, msgs)
    BY <2>1, <2>2, Prefixed
  <2> QED BY <1>3, <1>4, <2>1, <2>3, GroundedInFront
<1>5. CASE sys # {}
  <2> DEFINE at == Min(sys)
  <2>1. at \in sys
    BY <1>1, <1>5, MinOfNaturals
  <2>2. CASE msgs[at].content = "parts"
    <3>1. WithBlock(msgs) = msgs
      BY <1>1, <1>5, <2>2 DEF WithBlock
    <3>2. Grounding(msgs, g)
      BY <1>2, <1>3, <1>5, <2>2 DEF Grounding
    <3> QED BY <3>1, <3>2
  <2>3. CASE msgs[at].content # "parts"
    <3> DEFINE m == [role |-> "system", content |-> "old", blocks |-> 1]
               mid == [msgs EXCEPT ![at].blocks = @ + 1]
    <3>1. WithBlock(msgs) = [mid EXCEPT ![at].content = "old"]
      BY <1>1, <1>5, <2>3 DEF WithBlock
    <3>2. at = Min(SystemAt(msgs))
      OBVIOUS
    <3> HIDE DEF at
    <3>3. at \in DOMAIN msgs /\ msgs[at] \in TurnMessages /\ msgs[at].role = "system"
          /\ msgs[at].blocks = 0
      BY <1>2, <2>1 DEF SystemAt
    <3>4. mid = [msgs EXCEPT ![at] = [msgs[at] EXCEPT !.blocks = 1]]
      BY <3>3
    <3>5. mid[at] = [role |-> "system", content |-> msgs[at].content, blocks |-> 1]
      BY <3>3, <3>4 DEF TurnMessages
    <3> HIDE DEF mid
    <3>6. WithBlock(msgs) = [mid EXCEPT ![at] = [mid[at] EXCEPT !.content = "old"]]
      BY <3>1
    <3>7. [mid[at] EXCEPT !.content = "old"] = m
      BY <3>5
    <3>8. WithBlock(msgs) = [mid EXCEPT ![at] = m]
      BY <3>6, <3>7
    <3>9. WithBlock(msgs) = [msgs EXCEPT ![at] = m]
      BY <3>4, <3>8
    <3>10. m \in TurnMessages /\ m.role = "system" /\ m.content = "old" /\ m.blocks = 1
      BY DEF TurnMessages, Contents
    <3> HIDE DEF m
    <3>11. InPlace(WithBlock(msgs), at, m, msgs)
      BY <3>3, <3>9, <3>10, Replaced
    <3> QED BY <1>2, <1>3, <2>1, <2>3, <3>2, <3>10, <3>11, GroundedInPlace
  <2> QED BY <2>2, <2>3
<1> QED BY <1>4, <1>5

(* A turn that has not begun is in order.                                    *)
LEMMA IdleOk == Idle \in TurnRec /\ TurnOk(Idle)
<1>1. Idle \in TurnRec
  BY DEF Idle, TurnRec, NoTool, ToolRecs, Identity
<1>2. Idle.msgs = <<>> /\ Idle.found = FALSE /\ Idle.query = "none" /\ Idle.st = "idle"
  BY DEF Idle
<1>3. SystemAt(<<>>) = {}
  BY DEF SystemAt
<1> QED BY <1>1, <1>2, <1>3 DEF TurnOk, Grounding, Asking

(* A turn that keeps its own record in order disturbs no other.              *)
LEMMA TurnUpdated ==
  ASSUME TurnInv, NEW t \in Turns, NEW r, r \in TurnRec, TurnOk(r),
         turn' = [turn EXCEPT ![t] = r]
  PROVE  TurnInv'
<1>1. turn' \in [Turns -> {q \in TurnRec : TurnOk(q)}]
  BY DEF TurnInv
<1> QED BY <1>1 DEF TurnInv

(* One step per hook call; only the end of a search touches the messages.    *)
LEMMA TurnStep == TurnInv /\ [Next]_vars => TurnInv'
<1> SUFFICES ASSUME TurnInv, [Next]_vars PROVE TurnInv'
  OBVIOUS
<1>1. CASE UNCHANGED turn
  BY <1>1 DEF TurnInv
<1>2. ASSUME NEW t \in Turns, Turn(t) PROVE TurnInv'
  <2> DEFINE r == turn[t]
  <2>1. r \in TurnRec /\ TurnOk(r) /\ turn = [u \in Turns |-> turn[u]]
    BY DEF TurnInv
  <2>2. /\ r.st \in {"idle", "iterating", "searching", "model"} /\ r.iter \in Nat /\ r.fires \in Nat
        /\ r.msgs \in Seq(TurnMessages) /\ r.query \in {"none", "old", "new"}
        /\ r.found \in BOOLEAN /\ r.tool \in ToolRecs
        /\ r = [st |-> r.st, iter |-> r.iter, fires |-> r.fires, msgs |-> r.msgs,
                query |-> r.query, found |-> r.found, tool |-> r.tool]
    BY <2>1 DEF TurnRec
  <2>3. Grounding(r.msgs, r.found) /\ Asking(r.msgs, r.query)
        /\ (r.st = "searching" => ~AlreadyInjected(r.msgs))
    BY <2>1 DEF TurnOk
  <2>4. ASSUME NEW msgs \in Contexts, TurnBegins(t, msgs) PROVE TurnInv'
    <3> DEFINE q == [Idle EXCEPT !.st = "iterating", !.msgs = msgs]
    <3>1. msgs \in Seq(TurnMessages) /\ \A i \in DOMAIN msgs : msgs[i].blocks = 0
      BY ContextMessages
    <3>2. q \in TurnRec /\ q.msgs = msgs /\ q.found = FALSE /\ q.query = "none"
          /\ q.st = "iterating"
      BY <3>1 DEF Idle, TurnRec, NoTool, ToolRecs, Identity
    <3>3. turn' = [turn EXCEPT ![t] = q]
      BY <2>4 DEF TurnBegins
    <3> HIDE DEF q
    <3>4. TurnOk(q)
      BY <3>1, <3>2 DEF TurnOk, Grounding, Asking, SystemAt
    <3> QED BY <3>2, <3>3, <3>4, TurnUpdated
  <2>5. CASE BeforeIteration(t)
    <3>1. CASE Skips(t)
      <4> DEFINE q == [r EXCEPT !.st = "model"]
      <4>1. q \in TurnRec /\ TurnOk(q)
        BY <2>2, <2>3 DEF TurnRec, TurnOk
      <4>2. turn' = [turn EXCEPT ![t] = q]
        BY <2>5, <3>1 DEF BeforeIteration
      <4> HIDE DEF q
      <4> QED BY <4>1, <4>2, TurnUpdated
    <3>2. CASE ~Skips(t)
      <4> DEFINE last == LastUserMessage(r.msgs)
                 mid == [turn EXCEPT ![t].st = "searching"]
                 q == [[r EXCEPT !.st = "searching"] EXCEPT !.query = last]
      <4>1. ~AlreadyInjected(r.msgs) /\ last # "none"
        BY <3>2 DEF Skips
      <4>2. last \in {"old", "new"} /\ Asking(r.msgs, last)
        BY <2>2, <4>1, LastIsLatest
      <4>3. turn' = [mid EXCEPT ![t].query = last]
        BY <2>5, <3>2 DEF BeforeIteration
      <4> HIDE DEF last
      <4>4. q \in TurnRec /\ TurnOk(q)
        BY <2>2, <2>3, <4>1, <4>2 DEF TurnRec, TurnOk
      <4>5. mid = [turn EXCEPT ![t] = [r EXCEPT !.st = "searching"]]
        OBVIOUS
      <4>6. mid[t] = [r EXCEPT !.st = "searching"]
        BY <2>1, <4>5
      <4> HIDE DEF mid
      <4>7. [mid[t] EXCEPT !.query = last] = q
        BY <4>6
      <4> HIDE DEF q
      <4>8. turn' = [mid EXCEPT ![t] = q]
        BY <4>3, <4>7
      <4>9. turn' = [turn EXCEPT ![t] = q]
        BY <4>5, <4>8
      <4> QED BY <4>4, <4>9, TurnUpdated
    <3> QED BY <3>1, <3>2
  <2>6. ASSUME NEW found \in BOOLEAN, SearchEnds(t, found) PROVE TurnInv'
    <3> DEFINE any == r.found \/ found
               new == IF found THEN WithBlock(r.msgs) ELSE r.msgs
               q == [[[r EXCEPT !.st = "model"] EXCEPT !.found = any] EXCEPT !.msgs = new]
    <3>1. r.st = "searching"
      BY <2>6 DEF SearchEnds
    <3>2. any \in BOOLEAN
      OBVIOUS
    <3>3. new \in Seq(TurnMessages) /\ Grounding(new, any) /\ Asking(new, r.query)
      <4>1. CASE found
        <5>1. any = TRUE /\ new = WithBlock(r.msgs)
          BY <4>1
        <5> HIDE DEF any, new
        <5> QED BY <2>2, <2>3, <3>1, <5>1, BlockAdded
      <4>2. CASE ~found
        <5>1. any = r.found /\ new = r.msgs
          BY <2>2, <4>2
        <5> HIDE DEF any, new
        <5> QED BY <2>2, <2>3, <5>1
      <4> QED BY <4>1, <4>2
    <3>4. turn' = [turn EXCEPT ![t].st = "model", ![t].found = any, ![t].msgs = new]
      BY <2>6 DEF SearchEnds
    <3> HIDE DEF any, new
    <3>5. q \in TurnRec
      BY <2>2, <3>2, <3>3 DEF TurnRec
    <3>6. TurnOk(q)
      BY <3>3, <3>5 DEF TurnOk
    <3>7. turn' = [turn EXCEPT ![t] = q]
      <4> DEFINE one == [turn EXCEPT ![t].st = "model"]
                 two == [one EXCEPT ![t].found = any]
      <4>1. one = [turn EXCEPT ![t] = [r EXCEPT !.st = "model"]]
        OBVIOUS
      <4>2. one[t] = [r EXCEPT !.st = "model"] /\ t \in DOMAIN one
        BY <2>1, <4>1
      <4>3. two = [one EXCEPT ![t] = [one[t] EXCEPT !.found = any]]
        OBVIOUS
      <4>4. turn' = [two EXCEPT ![t].msgs = new]
        BY <3>4
      <4> HIDE DEF one
      <4>5. two[t] = [one[t] EXCEPT !.found = any]
        BY <4>2, <4>3
      <4> HIDE DEF two
      <4>6. turn' = [two EXCEPT ![t] = [two[t] EXCEPT !.msgs = new]]
        BY <4>4
      <4>7. [two[t] EXCEPT !.msgs = new] = q
        BY <4>2, <4>5
      <4> HIDE DEF q
      <4>8. turn' = [two EXCEPT ![t] = q]
        BY <4>6, <4>7
      <4>9. turn' = [one EXCEPT ![t] = q]
        BY <4>3, <4>8
      <4> QED BY <4>1, <4>9
    <3> HIDE DEF q
    <3> QED BY <3>5, <3>6, <3>7, TurnUpdated
  <2>7. ASSUME NEW call \in ToolCalls, ToolCalled(t, call) PROVE TurnInv'
    <3> DEFINE tool == Arguments(call)
               more == r.iter + 1
               q == [[[r EXCEPT !.st = "iterating"] EXCEPT !.iter = more] EXCEPT !.tool = tool]
    <3>1. tool \in ToolRecs
      BY DEF Arguments, ToolCalls, ToolRecs, Identity
    <3>2. turn' = [turn EXCEPT ![t].st = "iterating", ![t].iter = more, ![t].tool = tool]
      BY <2>7 DEF ToolCalled
    <3>3. more \in Nat
      BY <2>2
    <3> HIDE DEF tool, more
    <3>4. q \in TurnRec /\ TurnOk(q)
      <4>1. q \in TurnRec /\ q.msgs = r.msgs /\ q.found = r.found /\ q.query = r.query
            /\ q.st = "iterating"
        BY <2>1, <3>1, <3>3 DEF TurnRec
      <4> HIDE DEF q
      <4> QED BY <2>3, <4>1 DEF TurnOk
    <3>5. turn' = [turn EXCEPT ![t] = q]
      <4> DEFINE one == [turn EXCEPT ![t].st = "iterating"]
                 two == [one EXCEPT ![t].iter = more]
      <4>1. one = [turn EXCEPT ![t] = [r EXCEPT !.st = "iterating"]]
        OBVIOUS
      <4>2. one[t] = [r EXCEPT !.st = "iterating"] /\ t \in DOMAIN one
        BY <2>1, <4>1
      <4>3. two = [one EXCEPT ![t] = [one[t] EXCEPT !.iter = more]]
        OBVIOUS
      <4>4. turn' = [two EXCEPT ![t].tool = tool]
        BY <3>2
      <4> HIDE DEF one
      <4>5. two[t] = [one[t] EXCEPT !.iter = more]
        BY <4>2, <4>3
      <4> HIDE DEF two
      <4>6. turn' = [two EXCEPT ![t] = [two[t] EXCEPT !.tool = tool]]
        BY <4>4
      <4>7. [two[t] EXCEPT !.tool = tool] = q
        BY <4>2, <4>5
      <4> HIDE DEF q
      <4>8. turn' = [two EXCEPT ![t] = q]
        BY <4>6, <4>7
      <4>9. turn' = [one EXCEPT ![t] = q]
        BY <4>3, <4>8
      <4> QED BY <4>1, <4>9
    <3> HIDE DEF q
    <3> QED BY <3>4, <3>5, TurnUpdated
  <2>8. CASE FiresAgain(t)
    <3> DEFINE mid == [turn EXCEPT ![t].st = "iterating"]
               more == r.fires + 1
               q == [[r EXCEPT !.st = "iterating"] EXCEPT !.fires = more]
    <3>1. more \in Nat /\ turn' = [mid EXCEPT ![t].fires = more]
      BY <2>2, <2>8 DEF FiresAgain
    <3> HIDE DEF more
    <3>2. q \in TurnRec /\ TurnOk(q)
      <4>1. q \in TurnRec /\ q.msgs = r.msgs /\ q.found = r.found /\ q.query = r.query
            /\ q.st = "iterating"
        BY <2>1, <3>1 DEF TurnRec
      <4> HIDE DEF q
      <4> QED BY <2>3, <4>1 DEF TurnOk
    <3>3. mid = [turn EXCEPT ![t] = [r EXCEPT !.st = "iterating"]]
      OBVIOUS
    <3>4. mid[t] = [r EXCEPT !.st = "iterating"]
      BY <2>1, <3>3
    <3> HIDE DEF mid
    <3>5. [mid[t] EXCEPT !.fires = more] = q
      BY <3>4
    <3> HIDE DEF q
    <3>6. turn' = [mid EXCEPT ![t] = q]
      BY <3>1, <3>5
    <3>7. turn' = [turn EXCEPT ![t] = q]
      BY <3>3, <3>6
    <3> QED BY <3>2, <3>7, TurnUpdated
  <2>9. CASE TurnEnds(t)
    BY <2>9, IdleOk, TurnUpdated DEF TurnEnds
  <2> QED BY <1>2, <2>4, <2>5, <2>6, <2>7, <2>8, <2>9 DEF Turn
<1>3. ASSUME NEW c \in Calls, Archive(c) PROVE UNCHANGED turn
  BY <1>3 DEF Archive, ArchiveCalled, InnerReturns, InnerRaises, SafeAdd, PushDone, ArchiveCancelled
<1> QED BY <1>1, <1>2, <1>3 DEF Next, vars

(* No turn has begun.                                                        *)
LEMMA TurnInit == Init => TurnInv
BY IdleOk DEF Init, TurnInv

(* A turn asks for what the user has said last and holds what it finds once, *)
(* in its first system message, however often it fires.                      *)
THEOREM TurnsAreGroundedOnce == Spec => []GroundedOnce
<1>1. TurnInv => GroundedOnce
  <2> SUFFICES ASSUME TurnInv, NEW t \in Turns
               PROVE  LET msgs == turn[t].msgs
                          sys == Positions(msgs, IsSystem)
                          grounded == {i \in sys : msgs[i].blocks > 0}
                          latest == msgs[Max(Positions(msgs, LAMBDA m : m.role = "user"))].content
                      IN  /\ turn[t].query # "none" /\ latest \notin {"blank", "parts"}
                               => turn[t].query = latest
                          /\ \A i \in DOMAIN msgs : msgs[i].blocks <= 1
                          /\ grounded = IF turn[t].found /\ msgs[Min(sys)].content # "parts"
                                        THEN {Min(sys)} ELSE {}
    BY DEF GroundedOnce
  <2> DEFINE r == turn[t]
             sys == SystemAt(r.msgs)
             grounded == {i \in sys : r.msgs[i].blocks > 0}
  <2>1. r \in TurnRec /\ Grounding(r.msgs, r.found) /\ Asking(r.msgs, r.query)
    BY DEF TurnInv, TurnOk
  <2>2. Positions(r.msgs, IsSystem) = sys
        /\ Positions(r.msgs, LAMBDA m : m.role = "user") = UsersAt(r.msgs)
    BY DEF Positions, IsSystem, SystemAt, UsersAt
  <2>3. r.query # "none" /\ Latest(r.msgs) \notin {"blank", "parts"} => r.query = Latest(r.msgs)
    BY <2>1 DEF Asking
  <2>4. \A i \in DOMAIN r.msgs : r.msgs[i].blocks <= 1
    BY <2>1 DEF Grounding
  <2>5. CASE r.found /\ r.msgs[Min(sys)].content # "parts"
    <3>1. sys # {} /\ sys \in SUBSET Nat
      BY <2>1, <2>5 DEF Grounding, TurnRec, SystemAt
    <3>2. Min(sys) \in sys
      <4> HIDE DEF sys
      <4> QED BY <3>1, MinOfNaturals
    <3>3. grounded = {Min(sys)}
      BY <2>1, <2>5, <3>2 DEF Grounding
    <3> QED BY <2>2, <2>3, <2>4, <2>5, <3>3 DEF Latest
  <2>6. CASE ~(r.found /\ r.msgs[Min(sys)].content # "parts")
    <3>1. grounded = {}
      BY <2>1, <2>6 DEF Grounding
    <3> QED BY <2>2, <2>3, <2>4, <2>6, <3>1 DEF Latest
  <2> QED BY <2>5, <2>6
<1> QED BY <1>1, TurnInit, TurnStep, PTL DEF Spec

(* The memory server is only ever asked in the configured identity: by every *)
(* save, and by every call of a memory tool, whatever the model passes.      *)
THEOREM OnlyOneIdentity == Spec => []OneIdentity
<1>1. ArchiveInv /\ TurnInv => OneIdentity
  <2> SUFFICES ASSUME ArchiveInv, TurnInv PROVE OneIdentity
    OBVIOUS
  <2>1. ASSUME NEW c \in Calls, NEW i \in DOMAIN archive[c].saves
        PROVE  archive[c].saves[i].as = Identity
    <3>1. archive[c].saves \in Seq(SaveRec)
      BY DEF ArchiveInv, ArchiveRec
    <3>2. archive[c].saves[i] \in SaveRec
      BY <3>1
    <3> QED BY <3>2 DEF SaveRec
  <2>2. ASSUME NEW t \in Turns, turn[t].tool.ltm PROVE turn[t].tool.as = Identity
    <3>1. turn[t].tool \in ToolRecs
      BY DEF TurnInv, TurnRec
    <3> QED BY <2>2, <3>1 DEF ToolRecs
  <2> QED BY <2>1, <2>2 DEF OneIdentity
<1> QED BY <1>1, ArchiveInit, ArchiveStep, TurnInit, TurnStep, PTL DEF Spec
===============================================================================
