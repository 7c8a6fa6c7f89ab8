-------------------------- MODULE ImageIntake_proofs --------------------------
(***************************************************************************)
(* What TLAPS proves of ImageIntake: for frames of any length and content, *)
(* any cap and any number of handlers.                                     *)
(***************************************************************************)
EXTENDS ImageIntake, Induction, SequenceTheorems

-----------------------------------------------------------------------------
(* _decode_images, entry by entry *)

\* The files of the first k entries of a frame.
Files(turn, k) == [i \in 1 .. k |-> <<turn, i>>]

\* The body of the loop, as Stored folds it over the entries.
Entered(turn, images, failing, sofar, i) ==
  LET v == Verdict(images[i], i \in failing)
  IN  CASE sofar.reason # None -> sofar
        [] sofar.reason = None /\ v = "saved" ->
             [sofar EXCEPT !.saved = Append(@, <<turn, i>>)]
        [] OTHER -> [sofar EXCEPT !.reason = v]

\* What the loop has gathered, and what it starts from.
Kept(files, reason) == [saved |-> files, reason |-> reason]

Blank == [saved |-> <<>>, reason |-> None]

Decoded(turn) == [saved : Seq({turn} \X Nat), reason : Reasons \cup {None}]

(* The loop keeps its type.                                                  *)
LEMMA EnteredType ==
  ASSUME NEW turn, NEW images \in Seq(Entries), NEW failing, NEW i \in DOMAIN images,
         NEW sofar \in Decoded(turn)
  PROVE  Entered(turn, images, failing, sofar, i) \in Decoded(turn)
<1>1. images[i] \in Entries /\ i \in Nat
  OBVIOUS
<1>2. Verdict(images[i], i \in failing) \in Reasons \cup {"saved"}
  BY <1>1 DEF Verdict, Reasons, Entries
<1>3. Append(sofar.saved, <<turn, i>>) \in Seq({turn} \X Nat)
  BY <1>1 DEF Decoded
<1> QED BY <1>2, <1>3 DEF Entered, Decoded

(* The fold runs the body once for each entry, in their order.               *)
LEMMA StoredStepwise ==
  ASSUME NEW turn, NEW images \in Seq(Entries), NEW failing
  PROVE  \E acc :
           /\ acc[0] = Blank
           /\ \A i \in DOMAIN images : acc[i] = Entered(turn, images, failing, acc[i - 1], i)
           /\ acc[Len(images)] = Stored(turn, images, failing)
<1> DEFINE n == Len(images)
           D == Decoded(turn)
           h == [p \in (1 .. n) \X D |-> Entered(turn, images, failing, p[2], p[1])]
           is(f) == f = [s \in SUBSET (1 .. n) |->
                           IF s = {} THEN Blank
                           ELSE Entered(turn, images, failing, f[s \ {Max(s)}],
                                        [i \in 1 .. n |-> i][Max(s)])]
           t == CHOOSE f : is(f)
<1>1. Stored(turn, images, failing) = t[1 .. n]
  BY DOMAIN images = 1 .. n DEF Stored, FoldLeftDomain, FoldLeft, MapThenFoldSet, Entered, Blank
<1>2. n \in Nat /\ Blank \in D
  BY DEF Blank, Decoded
<1>3. \A i \in 1 .. n, d \in D : Entered(turn, images, failing, d, i) \in D
  BY EnteredType
<1>4. h \in [(1 .. n) \X D -> D]
  BY <1>3
<1>5. PICK f : FoldTable(f, n, D, Blank, h)
  <2> HIDE DEF h, D, n
  <2> QED BY <1>2, <1>4, FoldOnInterval
<1>6. is(f)
  <2> SUFFICES ASSUME NEW s \in SUBSET (1 .. n)
               PROVE  f[s] = IF s = {} THEN Blank
                             ELSE Entered(turn, images, failing, f[s \ {Max(s)}],
                                          [i \in 1 .. n |-> i][Max(s)])
    BY <1>5 DEF FoldTable
  <2>1. CASE s = {}
    BY <1>5, <2>1 DEF FoldTable
  <2>2. CASE s # {}
    <3>1. Max(s) \in 1 .. n
      BY <1>2, <2>2, MaxInInterval
    <3>2. f[s \ {Max(s)}] \in D
      BY <1>5 DEF FoldTable
    <3> QED BY <1>5, <2>2, <3>1, <3>2 DEF FoldTable
  <2> QED BY <2>1, <2>2
<1>7. is(t)
  BY <1>6
<1>8. t[1 .. 0] = Blank
  <2>1. 1 .. 0 = {} /\ {} \in SUBSET (1 .. n)
    OBVIOUS
  <2> QED BY <1>7, <2>1
<1>9. ASSUME NEW i \in 1 .. n
      PROVE  t[1 .. i] = Entered(turn, images, failing, t[1 .. (i - 1)], i)
  <2>1. 1 .. i \in SUBSET (1 .. n) /\ 1 .. i # {} /\ Max(1 .. i) = i
        /\ (1 .. i) \ {i} = 1 .. (i - 1)
    BY <1>2, IntervalPeeled
  <2> HIDE DEF t
  <2> QED BY <1>7, <2>1
<1> DEFINE acc == [i \in 0 .. n |-> t[1 .. i]]
<1>10. /\ acc[0] = Blank
       /\ \A i \in DOMAIN images : acc[i] = Entered(turn, images, failing, acc[i - 1], i)
       /\ acc[n] = Stored(turn, images, failing)
  <2>1. \A i \in 0 .. n : acc[i] = t[1 .. i]
    OBVIOUS
  <2>2. \A i \in 1 .. n : i \in 0 .. n /\ i - 1 \in 0 .. n
    OBVIOUS
  <2>3. DOMAIN images = 1 .. n /\ 0 \in 0 .. n /\ n \in 0 .. n
    BY <1>2
  <2> HIDE DEF acc, t
  <2> QED BY <1>1, <1>8, <1>9, <2>1, <2>2, <2>3
<1> QED BY <1>10

\* What becomes of entry i, and the entries that are stored.
Outcome(images, failing, i) == Verdict(images[i], i \in failing)

Good(images, failing, i) == Outcome(images, failing, i) = "saved"

(* The next file is named for the next position.                             *)
LEMMA FilesAppended ==
  ASSUME NEW turn, NEW i \in Nat \ {0}
  PROVE  Append(Files(turn, i - 1), <<turn, i>>) = Files(turn, i)
<1> DEFINE s == Files(turn, i - 1)
<1>1. s \in Seq({turn} \X Nat) /\ Len(s) = i - 1
  BY DEF Files
<1>2. Append(s, <<turn, i>>) \in Seq({turn} \X Nat) /\ Len(Append(s, <<turn, i>>)) = i
  BY <1>1
<1>3. Files(turn, i) \in Seq({turn} \X Nat) /\ Len(Files(turn, i)) = i
  BY DEF Files
<1>4. \A j \in 1 .. i : Append(s, <<turn, i>>)[j] = Files(turn, i)[j]
  BY <1>1 DEF Files
<1> HIDE DEF s
<1> QED BY <1>2, <1>3, <1>4, SeqEqual DEF s

(* A sound entry adds its file.                                              *)
LEMMA EntryStored ==
  ASSUME NEW turn, NEW images, NEW failing, NEW i, NEW files,
         Good(images, failing, i)
  PROVE  Entered(turn, images, failing, Kept(files, None), i)
           = Kept(Append(files, <<turn, i>>), None)
BY DEF Entered, Good, Kept, Outcome

(* Either every entry is stored, or those before the first one at fault are, *)
(* and it names the reason, whatever comes after it.                         *)
LEMMA StoredUpToFault ==
  ASSUME NEW turn, NEW images \in Seq(Entries), NEW failing
  PROVE  LET n == Len(images)
         IN  /\ (\A i \in 1 .. n : Good(images, failing, i)) =>
                  Stored(turn, images, failing) = Kept(Files(turn, n), None)
             /\ \A m \in 1 .. n :
                  /\ ~Good(images, failing, m)
                  /\ \A i \in 1 .. (m - 1) : Good(images, failing, i)
                  => Stored(turn, images, failing) =
                       Kept(Files(turn, m - 1), Outcome(images, failing, m))
<1> DEFINE n == Len(images)
           good(i) == Good(images, failing, i)
           verdict(i) == Outcome(images, failing, i)
           first(m) == ~good(m) /\ \A i \in 1 .. (m - 1) : good(i)
<1>1. PICK acc : /\ acc[0] = Blank
                 /\ \A i \in DOMAIN images :
                      acc[i] = Entered(turn, images, failing, acc[i - 1], i)
                 /\ acc[n] = Stored(turn, images, failing)
  BY StoredStepwise
<1> DEFINE P(k) == /\ (\A i \in 1 .. k : good(i)) =>
                        acc[k] = Kept(Files(turn, k), None)
                   /\ \A m \in 1 .. k : first(m) =>
                        acc[k] = Kept(Files(turn, m - 1), verdict(m))
           S == {k \in 0 .. n : P(k)}
<1>2. n \in Nat /\ DOMAIN images = 1 .. n
  OBVIOUS
<1>3. 0 \in S
  <2>1. Files(turn, 0) = <<>>
    BY DEF Files
  <2>2. 1 .. 0 = {}
    OBVIOUS
  <2> QED BY <1>1, <1>2, <2>1, <2>2 DEF Blank, Kept
<1>4. ASSUME NEW k \in 1 .. n, k - 1 \in S PROVE k \in S
  <2>1. P(k - 1)
    BY <1>4
  <2>2. acc[k] = Entered(turn, images, failing, acc[k - 1], k)
    BY <1>1, <1>2
  <2>3. 1 .. k = (1 .. (k - 1)) \cup {k}
    OBVIOUS
  <2>4. ASSUME \A i \in 1 .. (k - 1) : good(i)
        PROVE  acc[k - 1] = Kept(Files(turn, k - 1), None)
    BY <2>1, <2>4
  <2>5. ASSUME \A i \in 1 .. k : good(i)
        PROVE  acc[k] = Kept(Files(turn, k), None)
    <3>1. acc[k - 1] = Kept(Files(turn, k - 1), None) /\ good(k)
      BY <2>3, <2>4, <2>5
    <3>2. Append(Files(turn, k - 1), <<turn, k>>) = Files(turn, k)
      BY FilesAppended
    <3>3. acc[k] = Kept(Append(Files(turn, k - 1), <<turn, k>>), None)
      BY <2>2, <3>1, EntryStored
    <3> QED BY <3>2, <3>3
  <2>6. ASSUME NEW m \in 1 .. k, first(m)
        PROVE  acc[k] = Kept(Files(turn, m - 1), verdict(m))
    <3>1. verdict(m) # None
      <4>1. images[m] \in Entries /\ verdict(m) # "saved"
        BY <1>2, <2>6 DEF Good
      <4> QED BY <4>1, IntakeAssumption DEF Outcome, Verdict, Reasons, Entries
    <3>2. CASE m = k
      <4>1. acc[k - 1] = Kept(Files(turn, k - 1), None)
        BY <2>4, <2>6, <3>2
      <4> QED BY <2>2, <2>6, <3>2, <4>1 DEF Entered, Good, Kept, Outcome
    <3>3. CASE m # k
      <4>1. acc[k - 1] = Kept(Files(turn, m - 1), verdict(m))
        BY <2>1, <2>6, <3>3
      <4> QED BY <2>2, <3>1, <4>1 DEF Entered, Kept
    <3> QED BY <3>2, <3>3
  <2> QED BY <2>5, <2>6
<1>5. n \in S
  <2> HIDE DEF S, n
  <2>1. 0 .. n \subseteq S
    BY <1>2, <1>3, <1>4, IntervalByInduction
  <2> QED BY <1>2, <2>1
<1> QED BY <1>1, <1>5

(* The three ways _decode_images ends.                                       *)
LEMMA DecodeCases ==
  ASSUME NEW turn, NEW images \in Seq(Entries), NEW failing
  PROVE  \/ /\ Len(images) > MaxImages
            /\ Decode(turn, images, failing) = Kept(<<>>, "too_many")
         \/ /\ Len(images) <= MaxImages /\ \A i \in DOMAIN images : Good(images, failing, i)
            /\ Decode(turn, images, failing) = Kept(Files(turn, Len(images)), None)
         \/ /\ Len(images) <= MaxImages
            /\ \E m \in DOMAIN images :
                 /\ ~Good(images, failing, m)
                 /\ \A i \in 1 .. (m - 1) : Good(images, failing, i)
                 /\ Decode(turn, images, failing)
                      = Kept(Files(turn, m - 1), Outcome(images, failing, m))
<1> DEFINE n == Len(images)
<1>1. n \in Nat /\ DOMAIN images = 1 .. n /\ MaxImages \in Nat
  BY IntakeAssumption
<1>2. CASE n > MaxImages
  BY <1>2 DEF Decode, Kept
<1>3. CASE n <= MaxImages /\ \A i \in 1 .. n : Good(images, failing, i)
  <2>1. Decode(turn, images, failing) = Stored(turn, images, failing)
    BY <1>1, <1>3 DEF Decode
  <2> QED BY <1>1, <1>3, <2>1, StoredUpToFault
<1>4. CASE n <= MaxImages /\ ~ \A i \in 1 .. n : Good(images, failing, i)
  <2> DEFINE F == {i \in 1 .. n : ~Good(images, failing, i)}
  <2>1. F \in SUBSET Nat /\ F # {}
    BY <1>4
  <2>2. PICK m \in F : \A i \in F : m <= i
    BY <2>1, LeastNatural
  <2>3. m \in 1 .. n /\ ~Good(images, failing, m)
        /\ \A i \in 1 .. (m - 1) : Good(images, failing, i)
    BY <2>2
  <2>4. Decode(turn, images, failing) = Stored(turn, images, failing)
    BY <1>1, <1>4 DEF Decode
  <2> QED BY <1>1, <1>4, <2>3, <2>4, StoredUpToFault
<1> QED BY <1>1, <1>2, <1>3, <1>4

(* A fault has a token that the front end knows.                             *)
LEMMA OutcomeIsReason ==
  ASSUME NEW images \in Seq(Entries), NEW failing, NEW i \in DOMAIN images,
         ~Good(images, failing, i)
  PROVE  Outcome(images, failing, i) \in Reasons /\ Outcome(images, failing, i) # None
<1>1. images[i] \in Entries
  OBVIOUS
<1> QED BY <1>1, IntakeAssumption DEF Good, Outcome, Verdict, Reasons, Entries

(* Files are named for their turn.                                           *)
LEMMA FilesOfTurn ==
  ASSUME NEW turn, NEW k \in Nat
  PROVE  /\ \A f \in ToSet(Files(turn, k)) : f[1] = turn
         /\ ToSet(<<>>) = {}
BY DEF Files, ToSet

(* Whatever is written is of this turn, and an accepted frame is whole.      *)
LEMMA DecodeSound ==
  ASSUME NEW turn, NEW images \in Seq(Entries), NEW failing
  PROVE  LET d == Decode(turn, images, failing)
         IN  /\ \A f \in ToSet(d.saved) : f[1] = turn
             /\ d.reason = None => d.saved = Files(turn, Len(images))
<1> DEFINE d == Decode(turn, images, failing)
<1>1. CASE d = Kept(<<>>, "too_many")
  BY <1>1, FilesOfTurn, IntakeAssumption, 0 \in Nat DEF Kept, Reasons
<1>2. CASE d = Kept(Files(turn, Len(images)), None)
  BY <1>2, FilesOfTurn, Len(images) \in Nat DEF Kept
<1>3. ASSUME NEW m \in DOMAIN images, ~Good(images, failing, m),
             d = Kept(Files(turn, m - 1), Outcome(images, failing, m))
      PROVE  d.reason # None /\ \A f \in ToSet(d.saved) : f[1] = turn
  BY <1>3, FilesOfTurn, OutcomeIsReason, m - 1 \in Nat DEF Kept
<1> HIDE DEF d
<1> QED BY <1>1, <1>2, <1>3, DecodeCases DEF d

\* What VerdictOfFirstFault says of one decode.
VerdictOf(reason, images, failing) ==
  /\ reason \in Reasons \cup {None}
  /\ LET verdict(i) == Verdict(images[i], i \in failing)
         faults == {i \in DOMAIN images : verdict(i) # "saved"}
         first == CHOOSE i \in faults : \A j \in faults : i <= j
     IN  reason = CASE Len(images) > MaxImages -> "too_many"
                    [] Len(images) <= MaxImages /\ faults = {} -> None
                    [] OTHER -> verdict(first)

(* The reason of a decode is that of the first fault.                        *)
LEMMA DecodeVerdict ==
  ASSUME NEW turn, NEW images \in Seq(Entries), NEW failing
  PROVE  VerdictOf(Decode(turn, images, failing).reason, images, failing)
<1> DEFINE d == Decode(turn, images, failing)
           faults == {i \in DOMAIN images : Verdict(images[i], i \in failing) # "saved"}
           first == CHOOSE i \in faults : \A j \in faults : i <= j
<1>1. Len(images) \in Nat /\ DOMAIN images = 1 .. Len(images) /\ MaxImages \in Nat
  BY IntakeAssumption
<1>2. ASSUME Len(images) > MaxImages, d = Kept(<<>>, "too_many")
      PROVE  VerdictOf(d.reason, images, failing)
  <2>1. d.reason = "too_many" /\ d.reason \in Reasons
    BY <1>2 DEF Kept, Reasons
  <2>2. ~(Len(images) <= MaxImages)
    BY <1>1, <1>2
  <2> HIDE DEF d
  <2> QED BY <1>2, <2>1, <2>2 DEF VerdictOf
<1>3. CASE /\ Len(images) <= MaxImages /\ \A i \in DOMAIN images : Good(images, failing, i)
           /\ d = Kept(Files(turn, Len(images)), None)
  <2>1. faults = {}
    BY <1>3 DEF Good, Outcome
  <2> QED BY <1>1, <1>3, <2>1 DEF Kept, VerdictOf
<1>4. ASSUME Len(images) <= MaxImages, NEW m \in DOMAIN images, ~Good(images, failing, m),
             \A i \in 1 .. (m - 1) : Good(images, failing, i),
             d = Kept(Files(turn, m - 1), Outcome(images, failing, m))
      PROVE  VerdictOf(d.reason, images, failing)
  <2>1. m \in faults
    BY <1>4 DEF Good, Outcome
  <2>2. \A j \in faults : m <= j
    <3>1. \A j \in faults : j \in 1 .. Len(images) /\ ~Good(images, failing, j)
      BY <1>1 DEF Good, Outcome
    <3> HIDE DEF faults
    <3> QED BY <1>1, <1>4, <3>1
  <2>3. first = m
    <3>1. first \in faults /\ \A j \in faults : first <= j
      BY <2>1, <2>2
    <3>2. faults \subseteq Nat
      BY <1>1
    <3> HIDE DEF first, faults
    <3> QED BY <2>1, <2>2, <3>1, <3>2
  <2>4. Outcome(images, failing, m) \in Reasons
    BY <1>4, OutcomeIsReason
  <2>5. d.reason = Verdict(images[m], m \in failing)
    BY <1>4 DEF Kept, Outcome
  <2>6. d.reason \in Reasons
    BY <1>4, <2>4 DEF Kept
  <2>7. ~(Len(images) > MaxImages) /\ faults # {}
    BY <1>1, <1>4, <2>1
  <2> HIDE DEF d
  <2> QED BY <2>3, <2>5, <2>6, <2>7 DEF VerdictOf
<1> HIDE DEF d
<1> QED BY <1>2, <1>3, <1>4, DecodeCases DEF d

-----------------------------------------------------------------------------
(* The files behind the messages *)

Messages == [turn : Nat \ {0}, images : Seq(Entries), media : Seq(Nat \X Nat)]

Message(turn, images, media) == [turn |-> turn, images |-> images, media |-> media]

\* A message of the turns so far with a file for each of its images.
Whole(m, upTo, onDisk) ==
  /\ m \in Messages /\ m.turn <= upTo
  /\ m.media = Files(m.turn, Len(m.images))
  /\ ToSet(m.media) \subseteq onDisk

Handing(h) == at[h] = "handing"

(* That an unlink never hits the file of another message needs that messages *)
(* under way and taken are of different turns, and that the files of a       *)
(* message are named for its turn.                                           *)
IntakeInv ==
  /\ turns \in Nat
  /\ at \in [Handlers -> {"reading", "handing", "closed"}]
  /\ held \in [Handlers -> Messages \cup {None}]
  /\ \A h \in Handlers : Handing(h) => Whole(held[h], turns, disk)
  /\ \A m \in bus : Whole(m, turns, disk)
  /\ \A h \in Handlers : Handing(h) =>
       /\ \A g \in Handlers \ {h} : Handing(g) => held[g].turn # held[h].turn
       /\ \A m \in bus : m.turn # held[h].turn

(* A frame is a sequence of entries.                                         *)
LEMMA FrameIsSeq == \A images \in Frames : images \in Seq(Entries)
BY IntakeAssumption

(* What is unlinked for one turn costs no message of another turn a file.    *)
LEMMA OtherTurnStaysWhole ==
  ASSUME NEW m, NEW t \in Nat, NEW d, Whole(m, t, d), NEW u \in Nat, t <= u, NEW e, NEW written,
         \A f \in ToSet(written) : f[1] # m.turn, d \ ToSet(written) \subseteq e
  PROVE  Whole(m, u, e)
<1>1. \A f \in ToSet(m.media) : f[1] = m.turn
  BY FilesOfTurn DEF Whole, Messages
<1>2. ToSet(m.media) \subseteq e
  BY <1>1 DEF Whole
<1> QED BY <1>2 DEF Whole, Messages

(* An accepted frame makes a whole message.                                  *)
LEMMA MessageWhole ==
  ASSUME NEW t \in Nat \ {0}, NEW images \in Seq(Entries), NEW d,
         ToSet(Files(t, Len(images))) \subseteq d
  PROVE  Whole(Message(t, images, Files(t, Len(images))), t, d)
<1>1. Files(t, Len(images)) \in Seq(Nat \X Nat)
  BY Len(images) \in Nat DEF Files
<1> QED BY <1>1 DEF Whole, Message, Messages

(* A rejected frame unlinks what was written for it and nothing else.        *)
LEMMA RejectedKeeps ==
  ASSUME IntakeInv, NEW h \in Handlers, Rejected(h)
  PROVE  IntakeInv'
<1> DEFINE rejects(images, failing) ==
             LET d == Decode(turns + 1, images, failing)
             IN  /\ Reads(h, images, failing, d.reason)
                 /\ \E left \in SUBSET FailedWrite(turns + 1, d) :
                      /\ Unlink(d.saved, disk \cup ToSet(d.saved) \cup left)
                      /\ torn' = torn \cup left
                 /\ failed' = failed \cup {turns + 1}
                 /\ UNCHANGED <<at, held, bus>>
<1>0. PICK images \in Frames : \E failing \in SUBSET DOMAIN images : rejects(images, failing)
  BY DEF Rejected
<1>1. PICK failing \in SUBSET DOMAIN images : rejects(images, failing)
  BY <1>0
<1> DEFINE written == Decode(turns + 1, images, failing).saved
<1>2. \A f \in ToSet(written) : f[1] = turns + 1
  BY FrameIsSeq, DecodeSound
<1>3. turns' = turns + 1 /\ UNCHANGED <<at, held, bus>> /\ turns \in Nat
  BY <1>1 DEF Reads, IntakeInv
<1>4. disk \ ToSet(written) \subseteq disk'
  BY <1>1 DEF Unlink
<1> HIDE DEF written
<1>5. ASSUME NEW m, Whole(m, turns, disk) PROVE Whole(m, turns', disk')
  <2>1. \A f \in ToSet(written) : f[1] # m.turn
    BY <1>2, <1>3, <1>5 DEF Whole, Messages
  <2>2. turns' \in Nat /\ turns <= turns'
    BY <1>3
  <2> QED BY <1>3, <1>4, <1>5, <2>1, <2>2, OtherTurnStaysWhole
<1> QED BY <1>3, <1>5 DEF IntakeInv, Handing

(* An accepted frame adds a message of a new turn.                           *)
LEMMA AcceptedKeeps ==
  ASSUME IntakeInv, NEW h \in Handlers, Accepted(h)
  PROVE  IntakeInv'
<1> DEFINE accepts(images, failing) ==
             LET d == Decode(turns + 1, images, failing)
             IN  /\ d.reason = None
                 /\ Reads(h, images, failing, None)
                 /\ at' = [at EXCEPT ![h] = "handing"]
                 /\ held' = [held EXCEPT ![h] = [turn |-> turns + 1, images |-> images,
                                                 media |-> d.saved]]
                 /\ disk' = disk \cup ToSet(d.saved)
                 /\ UNCHANGED <<bus, stuck, torn, failed>>
<1>0. PICK images \in Frames : \E failing \in SUBSET DOMAIN images : accepts(images, failing)
  BY DEF Accepted
<1>1. PICK failing \in SUBSET DOMAIN images : accepts(images, failing)
  BY <1>0
<1>2. PICK new, files : /\ new = Message(turns + 1, images, files)
                        /\ files = Files(turns + 1, Len(images))
  OBVIOUS
<1>3. Decode(turns + 1, images, failing).saved = files /\ images \in Seq(Entries)
  BY <1>1, <1>2, FrameIsSeq, DecodeSound
<1>4. /\ turns' = turns + 1 /\ turns \in Nat /\ ~Handing(h)
      /\ at' = [at EXCEPT ![h] = "handing"] /\ held' = [held EXCEPT ![h] = new]
      /\ disk' = disk \cup ToSet(files) /\ UNCHANGED bus
  BY <1>1, <1>2, <1>3 DEF Reads, IntakeInv, Message, Handing
<1>5. Whole(new, turns', disk')
  BY <1>2, <1>3, <1>4, MessageWhole
<1>6. new.turn = turns + 1 /\ new.media = files /\ new \in Messages
  BY <1>2, <1>5 DEF Message, Whole
<1>7. ASSUME NEW m, Whole(m, turns, disk) PROVE Whole(m, turns', disk') /\ m.turn # turns + 1
  <2>1. m.turn \in Nat /\ m.turn <= turns
    BY <1>7 DEF Whole, Messages
  <2>2. turns <= turns' /\ disk \subseteq disk'
    BY <1>4
  <2>3. Whole(m, turns', disk')
    BY <1>4, <1>7, <2>2 DEF Whole, Messages
  <2> QED BY <1>4, <2>1, <2>3
<1>8. Handing(h)' /\ held'[h] = new
      /\ \A g \in Handlers \ {h} : Handing(g)' = Handing(g) /\ held'[g] = held[g]
  BY <1>4 DEF IntakeInv, Handing
<1>10. /\ at' \in [Handlers -> {"reading", "handing", "closed"}]
       /\ held' \in [Handlers -> Messages \cup {None}] /\ turns' \in Nat
  BY <1>4, <1>6 DEF IntakeInv
<1>11. \A g \in Handlers : Handing(g)' => Whole(held'[g], turns', disk')
  BY <1>5, <1>7, <1>8 DEF IntakeInv
<1>12. \A m \in bus' : Whole(m, turns', disk')
  BY <1>4, <1>7 DEF IntakeInv
<1>13. \A g \in Handlers : Handing(g)' =>
         /\ \A i \in Handlers \ {g} : Handing(i)' => held'[i].turn # held'[g].turn
         /\ \A m \in bus' : m.turn # held'[g].turn
  BY <1>4, <1>6, <1>7, <1>8 DEF IntakeInv
<1> QED BY <1>10, <1>11, <1>12, <1>13 DEF IntakeInv

(* A handler that lets go of its message without touching a file.            *)
LEMMA LeavingKeeps ==
  ASSUME IntakeInv, NEW h \in Handlers, NEW next \in {"reading", "closed"}, Leaves(h, next),
         UNCHANGED disk, bus' = bus \cup {held[h]} \/ UNCHANGED bus
  PROVE  IntakeInv'
<1>1. /\ Handing(h) /\ UNCHANGED turns
      /\ at' = [at EXCEPT ![h] = next] /\ held' = [held EXCEPT ![h] = None]
  BY DEF Leaves, Handing
<1>2. ~Handing(h)' /\ \A g \in Handlers \ {h} : Handing(g)' = Handing(g) /\ held'[g] = held[g]
  BY <1>1 DEF IntakeInv, Handing
<1>3. Whole(held[h], turns, disk)
  BY <1>1 DEF IntakeInv
<1>5. /\ at' \in [Handlers -> {"reading", "handing", "closed"}]
      /\ held' \in [Handlers -> Messages \cup {None}] /\ turns' \in Nat
  BY <1>1 DEF IntakeInv
<1>6. \A m \in bus' : Whole(m, turns', disk')
  BY <1>1, <1>3 DEF IntakeInv
<1>7. \A g \in Handlers : Handing(g)' =>
        /\ \A i \in Handlers \ {g} : Handing(i)' => held'[i].turn # held'[g].turn
        /\ \A m \in bus' : m.turn # held'[g].turn
  BY <1>1, <1>2 DEF IntakeInv
<1>8. \A g \in Handlers : Handing(g)' => Whole(held'[g], turns', disk')
  BY <1>1, <1>2 DEF IntakeInv
<1> QED BY <1>5, <1>6, <1>7, <1>8 DEF IntakeInv

(* A hand-over that raises unlinks the files of its own message.             *)
LEMMA RaisingKeeps ==
  ASSUME IntakeInv, NEW h \in Handlers, HandleRaises(h)
  PROVE  IntakeInv'
<1>1. /\ Handing(h) /\ UNCHANGED <<turns, bus>>
      /\ at' = [at EXCEPT ![h] = "reading"] /\ held' = [held EXCEPT ![h] = None]
  BY DEF HandleRaises, Leaves, Handing
<1> DEFINE written == held[h].media
<1>2. PICK bad \in SUBSET ToSet(written) :
        stuck' = stuck \cup bad /\ disk' = disk \ (ToSet(written) \ bad)
  BY DEF HandleRaises, Unlink
<1> HIDE DEF written
<1>3. ~Handing(h)' /\ \A g \in Handlers \ {h} : Handing(g)' = Handing(g) /\ held'[g] = held[g]
  BY <1>1 DEF IntakeInv, Handing
<1>4. \A f \in ToSet(written) : f[1] = held[h].turn
  BY <1>1, FilesOfTurn DEF IntakeInv, Whole, Messages, written
<1>5. ASSUME NEW m, Whole(m, turns, disk), m.turn # held[h].turn PROVE Whole(m, turns', disk')
  <2>1. \A f \in ToSet(written) : f[1] # m.turn
    BY <1>4, <1>5
  <2>2. turns \in Nat /\ turns <= turns /\ disk \ ToSet(written) \subseteq disk'
    BY <1>2 DEF IntakeInv
  <2>3. Whole(m, turns, disk')
    BY <1>5, <2>1, <2>2, OtherTurnStaysWhole
  <2> QED BY <1>1, <2>3
<1>7. /\ at' \in [Handlers -> {"reading", "handing", "closed"}]
      /\ held' \in [Handlers -> Messages \cup {None}] /\ turns' \in Nat
  BY <1>1 DEF IntakeInv
<1>8. \A m \in bus' : Whole(m, turns', disk')
  BY <1>1, <1>5 DEF IntakeInv
<1>9. \A g \in Handlers : Handing(g)' => Whole(held'[g], turns', disk')
  BY <1>1, <1>3, <1>5 DEF IntakeInv
<1>10. \A g \in Handlers : Handing(g)' =>
         /\ \A i \in Handlers \ {g} : Handing(i)' => held'[i].turn # held'[g].turn
         /\ \A m \in bus' : m.turn # held'[g].turn
  BY <1>1, <1>3 DEF IntakeInv
<1> QED BY <1>7, <1>8, <1>9, <1>10 DEF IntakeInv

(* Every step keeps the invariant.                                           *)
LEMMA IntakeStep == IntakeInv /\ [Next]_vars => IntakeInv'
<1> SUFFICES ASSUME IntakeInv, [Next]_vars PROVE IntakeInv'
  OBVIOUS
<1>1. ASSUME NEW h \in Handlers, Handler(h) PROVE IntakeInv'
  <2>1. CASE Rejected(h)
    BY <2>1, RejectedKeeps
  <2>2. CASE Accepted(h)
    BY <2>2, AcceptedKeeps
  <2>3. CASE HandedOver(h)
    BY <2>3, LeavingKeeps DEF HandedOver
  <2>4. CASE HandleRaises(h)
    BY <2>4, RaisingKeeps
  <2>5. CASE HandleDrops(h)
    BY <2>5, LeavingKeeps DEF HandleDrops
  <2>6. CASE HandlerCancelled(h)
    BY <2>6, LeavingKeeps DEF HandlerCancelled
  <2> QED BY <1>1, <2>1, <2>2, <2>3, <2>4, <2>5, <2>6 DEF Handler
<1>2. CASE UNCHANGED vars
  BY <1>2 DEF vars, IntakeInv, Handing
<1> QED BY <1>1, <1>2 DEF Next

(* It holds before the first frame.                                          *)
LEMMA IntakeInit == Init => IntakeInv
BY DEF Init, IntakeInv, Handing

-----------------------------------------------------------------------------
(* What failed turns leave behind                                            *)

\* A file is of a turn read so far; one of a turn that is being handed over is in its
\* media_paths, so that an unlink of those misses none; and such a turn has not failed.
CleanInv ==
  /\ \A t \in failed : t \in 1 .. turns
  /\ \A f \in disk : f[1] \in 1 .. turns
  /\ \A h \in Handlers : Handing(h) =>
       /\ held[h].turn \notin failed
       /\ \A f \in disk : f[1] = held[h].turn => f \in ToSet(held[h].media)
  /\ FailedTurnsCleaned

(* A rejected frame leaves what it could not unlink and what a write has     *)
(* torn; both are of its own turn.                                           *)
LEMMA RejectedCleans ==
  ASSUME IntakeInv, CleanInv, NEW h \in Handlers, Rejected(h)
  PROVE  CleanInv'
<1>0. turns \in Nat /\ \A g \in Handlers : Handing(g) => held[g].turn \in 1 .. turns
  BY DEF IntakeInv, Whole, Messages
<1>1. PICK images, failing, left :
        LET d == Decode(turns + 1, images, failing)
        IN  /\ images \in Frames /\ Reads(h, images, failing, d.reason)
            /\ left \subseteq FailedWrite(turns + 1, d)
            /\ Unlink(d.saved, disk \cup ToSet(d.saved) \cup left)
            /\ torn' = torn \cup left /\ failed' = failed \cup {turns + 1}
            /\ UNCHANGED <<at, held>>
  BY DEF Rejected
<1> DEFINE d == Decode(turns + 1, images, failing)
           written == ToSet(d.saved)
<1>2. \A f \in written : f[1] = turns + 1
  BY <1>1, FrameIsSeq, DecodeSound
<1>3. \A f \in left : f[1] = turns + 1
  BY <1>1 DEF FailedWrite
<1>4. PICK bad \in SUBSET written :
        stuck' = stuck \cup bad /\ disk' = (disk \cup written \cup left) \ (written \ bad)
  BY <1>1 DEF Unlink
<1>5. /\ turns' = turns + 1 /\ UNCHANGED <<at, held>>
      /\ torn' = torn \cup left /\ failed' = failed \cup {turns + 1}
  BY <1>1 DEF Reads
<1> HIDE DEF d, written
<1>6. FailedTurnsCleaned'
  <2> SUFFICES ASSUME NEW f \in disk', f[1] \in failed' PROVE f \in stuck' \/ f \in torn'
    BY DEF FailedTurnsCleaned
  <2>1. CASE f \in written \cup left
    BY <1>4, <1>5, <2>1
  <2>2. CASE f \notin written \cup left
    <3>1. f \in disk /\ f[1] \in failed
      BY <1>0, <1>4, <1>5, <2>2 DEF CleanInv
    <3> QED BY <1>4, <1>5, <3>1 DEF CleanInv, FailedTurnsCleaned
  <2> QED BY <2>1, <2>2
<1>7. \A t \in failed' : t \in 1 .. turns'
  BY <1>0, <1>5 DEF CleanInv
<1>8. \A f \in disk' : f[1] \in 1 .. turns'
  BY <1>0, <1>2, <1>3, <1>4, <1>5 DEF CleanInv
<1>9. ASSUME NEW g \in Handlers, Handing(g)'
      PROVE  /\ held'[g].turn \notin failed'
             /\ \A f \in disk' : f[1] = held'[g].turn => f \in ToSet(held'[g].media)
  <2>1. Handing(g) /\ held'[g] = held[g]
    BY <1>5, <1>9 DEF Handing
  <2>2. held[g].turn # turns + 1
    BY <1>0, <2>1
  <2> QED BY <1>2, <1>3, <1>4, <1>5, <2>1, <2>2 DEF CleanInv
<1> QED BY <1>6, <1>7, <1>8, <1>9 DEF CleanInv

(* An accepted frame has every file of its turn in its media_paths.          *)
LEMMA AcceptedCleans ==
  ASSUME IntakeInv, CleanInv, NEW h \in Handlers, Accepted(h)
  PROVE  CleanInv'
<1>0. turns \in Nat /\ \A g \in Handlers : Handing(g) => held[g].turn \in 1 .. turns
  BY DEF IntakeInv, Whole, Messages
<1>1. PICK images, failing, files :
        /\ images \in Frames /\ files = Decode(turns + 1, images, failing).saved
        /\ Reads(h, images, failing, None)
        /\ at' = [at EXCEPT ![h] = "handing"]
        /\ held' = [held EXCEPT ![h] = [turn |-> turns + 1, images |-> images,
                                        media |-> files]]
        /\ disk' = disk \cup ToSet(files)
        /\ UNCHANGED <<stuck, torn, failed>>
  BY DEF Accepted
<1>2. \A f \in ToSet(files) : f[1] = turns + 1
  BY <1>1, FrameIsSeq, DecodeSound
<1>3. turns' = turns + 1
  BY <1>1 DEF Reads
<1>4. \A t \in failed' : t \in 1 .. turns'
  BY <1>0, <1>1, <1>3 DEF CleanInv
<1>5. \A f \in disk' : f[1] \in 1 .. turns'
  BY <1>0, <1>1, <1>2, <1>3 DEF CleanInv
<1>6. FailedTurnsCleaned'
  BY <1>0, <1>1, <1>2 DEF CleanInv, FailedTurnsCleaned
<1>7. ASSUME NEW g \in Handlers, Handing(g)'
      PROVE  /\ held'[g].turn \notin failed'
             /\ \A f \in disk' : f[1] = held'[g].turn => f \in ToSet(held'[g].media)
  <2>1. CASE g = h
    <3>1. held'[g].turn = turns + 1 /\ held'[g].media = files
      BY <1>1, <2>1 DEF IntakeInv
    <3>2. turns + 1 \notin failed /\ \A f \in disk : f[1] # turns + 1
      BY <1>0 DEF CleanInv
    <3> QED BY <1>1, <3>1, <3>2
  <2>2. CASE g # h
    <3>1. Handing(g) /\ held'[g] = held[g]
      BY <1>1, <1>7, <2>2 DEF IntakeInv, Handing
    <3>2. held[g].turn # turns + 1
      BY <1>0, <3>1
    <3> QED BY <1>1, <1>2, <3>1, <3>2 DEF CleanInv
  <2> QED BY <2>1, <2>2
<1> QED BY <1>4, <1>5, <1>6, <1>7 DEF CleanInv

(* A handler that lets go of its message fails its turn only if it has       *)
(* unlinked what is in media_paths, which is all the turn has on disk.       *)
LEMMA LeavingCleans ==
  ASSUME IntakeInv, CleanInv, NEW h \in Handlers, NEW next \in {"reading", "closed"},
         Leaves(h, next),
         \/ UNCHANGED <<disk, stuck, failed>>
         \/ Unlink(held[h].media, disk) /\ failed' = failed \cup {held[h].turn}
  PROVE  CleanInv'
<1>1. /\ Handing(h) /\ UNCHANGED <<turns, torn>>
      /\ at' = [at EXCEPT ![h] = next] /\ held' = [held EXCEPT ![h] = None]
  BY DEF Leaves, Handing
<1>2. ~Handing(h)' /\ \A g \in Handlers \ {h} : Handing(g)' = Handing(g) /\ held'[g] = held[g]
  BY <1>1 DEF IntakeInv, Handing
<1>3. /\ held[h].turn \in 1 .. turns
      /\ \A f \in disk : f[1] = held[h].turn => f \in ToSet(held[h].media)
  BY <1>1 DEF IntakeInv, CleanInv, Whole, Messages
<1>4. \A g \in Handlers \ {h} : Handing(g) => held[g].turn # held[h].turn
  BY <1>1 DEF IntakeInv
<1>5. CASE UNCHANGED <<disk, stuck, failed>>
  BY <1>1, <1>2, <1>5 DEF CleanInv, FailedTurnsCleaned
<1>6. CASE Unlink(held[h].media, disk) /\ failed' = failed \cup {held[h].turn}
  <2> DEFINE written == ToSet(held[h].media)
  <2>1. PICK bad \in SUBSET written :
          stuck' = stuck \cup bad /\ disk' = disk \ (written \ bad)
    BY <1>6 DEF Unlink
  <2> HIDE DEF written
  <2>2. FailedTurnsCleaned'
    <3> SUFFICES ASSUME NEW f \in disk', f[1] \in failed' PROVE f \in stuck' \/ f \in torn'
      BY DEF FailedTurnsCleaned
    <3>1. CASE f[1] = held[h].turn
      BY <1>3, <2>1, <3>1 DEF written
    <3>2. CASE f[1] # held[h].turn
      BY <1>1, <1>6, <2>1, <3>2 DEF CleanInv, FailedTurnsCleaned
    <3> QED BY <3>1, <3>2
  <2>3. \A t \in failed' : t \in 1 .. turns'
    BY <1>1, <1>3, <1>6 DEF CleanInv
  <2>4. \A f \in disk' : f[1] \in 1 .. turns'
    BY <1>1, <2>1 DEF CleanInv
  <2>5. \A g \in Handlers : Handing(g)' =>
          /\ held'[g].turn \notin failed'
          /\ \A f \in disk' : f[1] = held'[g].turn => f \in ToSet(held'[g].media)
    BY <1>2, <1>4, <1>6, <2>1 DEF CleanInv
  <2> QED BY <2>2, <2>3, <2>4, <2>5 DEF CleanInv
<1> QED BY <1>5, <1>6

(* Every step keeps failed turns clean.                                      *)
LEMMA CleanStep == IntakeInv /\ CleanInv /\ [Next]_vars => CleanInv'
<1> SUFFICES ASSUME IntakeInv, CleanInv, [Next]_vars PROVE CleanInv'
  OBVIOUS
<1>1. ASSUME NEW h \in Handlers, Handler(h) PROVE CleanInv'
  <2>1. CASE Rejected(h)
    BY <2>1, RejectedCleans
  <2>2. CASE Accepted(h)
    BY <2>2, AcceptedCleans
  <2>3. CASE HandedOver(h)
    BY <2>3, LeavingCleans DEF HandedOver
  <2>4. CASE HandleRaises(h)
    BY <2>4, LeavingCleans DEF HandleRaises
  <2>5. CASE HandleDrops(h)
    BY <2>5, LeavingCleans DEF HandleDrops
  <2>6. CASE HandlerCancelled(h)
    BY <2>6, LeavingCleans DEF HandlerCancelled
  <2> QED BY <1>1, <2>1, <2>2, <2>3, <2>4, <2>5, <2>6 DEF Handler
<1>2. CASE UNCHANGED vars
  BY <1>2 DEF vars, CleanInv, Handing, FailedTurnsCleaned
<1> QED BY <1>1, <1>2 DEF Next

-----------------------------------------------------------------------------
(* What nanobot has taken stays readable, whole and in the order of the      *)
(* frame, whatever other handlers do meanwhile.                              *)
THEOREM TakenMediaStaysReadable == Spec => []TakenMediaReadable
<1>1. IntakeInv => TakenMediaReadable
  <2> SUFFICES ASSUME IntakeInv, NEW m \in bus
               PROVE  m.media = [i \in DOMAIN m.images |-> <<m.turn, i>>]
                      /\ ToSet(m.media) \subseteq disk
    BY DEF TakenMediaReadable
  <2>1. Whole(m, turns, disk)
    BY DEF IntakeInv
  <2>2. DOMAIN m.images = 1 .. Len(m.images)
    BY <2>1 DEF Whole, Messages
  <2> QED BY <2>1, <2>2 DEF Whole, Files
<1> QED BY <1>1, IntakeInit, IntakeStep, PTL DEF Spec

(* A turn that has failed, at whichever entry or in the hand-over, leaves no *)
(* file but those whose own unlink failed and what a write has torn.         *)
THEOREM FailedTurnsLeaveNothing == Spec => []FailedTurnsCleaned
<1>1. Init => CleanInv
  BY DEF Init, CleanInv, Handing, FailedTurnsCleaned
<1>2. CleanInv => FailedTurnsCleaned
  BY DEF CleanInv
<1> QED BY <1>1, <1>2, IntakeInit, IntakeStep, CleanStep, PTL DEF Spec

(* A frame is accepted exactly if it is within the cap and every entry is    *)
(* stored; otherwise the reason is that of the first entry at fault.         *)
THEOREM FirstFaultDecides == Spec => []VerdictOfFirstFault
<1> DEFINE I == VerdictOfFirstFault
<1>1. Init => I
  BY DEF Init, VerdictOfFirstFault
<1>2. I /\ [Next]_vars => I'
  <2> SUFFICES ASSUME I, [Next]_vars PROVE I'
    OBVIOUS
  <2>1. CASE UNCHANGED last
    BY <2>1 DEF VerdictOfFirstFault
  <2>2. ASSUME NEW h \in Handlers, NEW images \in Frames, NEW failing,
               Reads(h, images, failing, Decode(turns + 1, images, failing).reason)
        PROVE  I'
    <3>1. last' = [images |-> images, failing |-> failing,
                   reason |-> Decode(turns + 1, images, failing).reason]
      BY <2>2 DEF Reads
    <3>2. VerdictOf(last'.reason, last'.images, last'.failing)
      BY <3>1, FrameIsSeq, DecodeVerdict
    <3> QED BY <3>2 DEF VerdictOf, VerdictOfFirstFault
  <2>3. ASSUME NEW h \in Handlers, Rejected(h) \/ Accepted(h) PROVE I'
    <3>1. PICK images \in Frames :
            \E failing : Reads(h, images, failing, Decode(turns + 1, images, failing).reason)
      BY <2>3 DEF Rejected, Accepted
    <3> HIDE DEF I
    <3> QED BY <2>2, <3>1
  <2> QED BY <2>1, <2>3 DEF Next, Handler, HandedOver, HandleRaises, HandleDrops,
                            HandlerCancelled, Leaves, vars
<1> QED BY <1>1, <1>2, PTL DEF Spec
=============================================================================
