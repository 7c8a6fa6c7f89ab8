------------------------- MODULE IdleScanner_proofs -------------------------
(***************************************************************************)
(* What TLAPS proves of IdleScanner, for any configuration and any number  *)
(* of sessions.                                                            *)
(***************************************************************************)
EXTENDS IdleScanner, FiniteSetTheorems, TLAPS

(* What a nudge leaves of the table of cooldowns is a table of cooldowns.    *)
LEMMA SweptType ==
  ASSUME TypeOK
  PROVE  Swept \in [Sessions -> Time]
BY DEF TypeOK, Swept, Time

(* Every step keeps every variable in its type.                              *)
LEMMA IdleTypeStep == TypeOK /\ [Next]_vars => TypeOK'
<1> USE IdleAssumption
<1> SUFFICES ASSUME TypeOK, [Next]_vars PROVE TypeOK'
  OBVIOUS
<1>1. CASE ScanAndNudge
  <2>0. nextScan' \in Nat
    BY <1>1 DEF ScanAndNudge, TypeOK
  <2>1. CASE Suppressed /\ passedOver' = [s \in Sessions |-> 0]
             /\ UNCHANGED <<cooldownUntil, queued, lastAttempt>>
    BY <1>1, <2>0, <2>1 DEF ScanAndNudge, TypeOK, store
  <2>2. CASE cooldownUntil' = Swept /\ passedOver' = [s \in Sessions |-> 0]
             /\ UNCHANGED <<queued, lastAttempt>>
    BY <1>1, <2>0, <2>2, SweptType DEF ScanAndNudge, TypeOK, store
  <2>3. ASSUME NEW s \in SelectTarget, NEW ok \in BOOLEAN, Nudge(s, ok) PROVE TypeOK'
    <3>1. s \in Sessions
      BY DEF SelectTarget, Candidates, Examined
    <3>2. cooldownUntil' \in [Sessions -> Time]
      BY <2>3, <3>1, SweptType DEF Nudge, Time, TypeOK
    <3>3. queued' \in [Sessions -> Nat] /\ lastAttempt' \in [Sessions -> Time]
      BY <2>3, <3>1 DEF Nudge, Time, TypeOK
    <3>4. passedOver' \in [Sessions -> Nat]
      BY <2>3 DEF Nudge, TypeOK
    <3> QED BY <1>1, <2>0, <3>2, <3>3, <3>4 DEF ScanAndNudge, TypeOK, store
  <2> QED BY <1>1, <2>1, <2>2, <2>3 DEF ScanAndNudge
<1>2. CASE Tick
  BY <1>2 DEF Tick, TypeOK, scanner, store, history
<1>3. ASSUME NEW s \in Sessions, UserTurnBegins(s) PROVE TypeOK'
  BY <1>3 DEF UserTurnBegins, TypeOK, scanner, history
<1>4. ASSUME NEW s \in Sessions, NudgeTurnBegins(s) PROVE TypeOK'
  BY <1>4 DEF NudgeTurnBegins, TypeOK, scanner, history
<1>5. ASSUME NEW s \in Sessions, NEW saved \in BOOLEAN, TurnEnds(s, saved) PROVE TypeOK'
  BY <1>5 DEF TurnEnds, TypeOK, scanner, history, Time
<1>6. CASE Crash
  BY <1>6 DEF Crash, TypeOK, history, Time
<1>7. CASE Boot
  BY <1>7 DEF Boot, TypeOK, store
<1>8. CASE UNCHANGED vars
  BY <1>8 DEF vars, scanner, store, history, TypeOK
<1> QED BY <1>1, <1>2, <1>3, <1>4, <1>5, <1>6, <1>7, <1>8 DEF Next

(* Boot with or without sessions satisfies the types.                        *)
LEMMA IdleInitType == Init => TypeOK
BY IdleAssumption DEF Init, TypeOK, Time

-----------------------------------------------------------------------------
(* The table of cooldowns *)

\* The table remembers every attempt of this process until its cooldown is over.
CooldownExact ==
  \A s \in Sessions :
    /\ lastAttempt[s] # None => lastAttempt[s] <= now
    /\ cooldownUntil[s] # None =>
         lastAttempt[s] # None /\ cooldownUntil[s] = lastAttempt[s] + Cooldown
    /\ up /\ lastAttempt[s] # None /\ lastAttempt[s] > startedAt /\ cooldownUntil[s] = None
         => now >= lastAttempt[s] + Cooldown

IdleInv == TypeOK /\ CooldownExact

(* A swept table keeps the invariant as long as nothing is selected.         *)
LEMMA SweepKeepsCooldowns ==
  ASSUME IdleInv, NEW s \in Sessions
  PROVE  /\ Swept[s] # None =>
              lastAttempt[s] # None /\ Swept[s] = lastAttempt[s] + Cooldown
         /\ up /\ lastAttempt[s] # None /\ lastAttempt[s] > startedAt /\ Swept[s] = None
              => now >= lastAttempt[s] + Cooldown
<1> USE IdleAssumption
<1>1. CASE s \in Examined /\ ~IsInCooldown(s)
  <2>1. Swept[s] = None
    BY <1>1 DEF Swept
  <2>2. cooldownUntil[s] = None \/ now >= cooldownUntil[s]
    BY <1>1 DEF IsInCooldown, IdleInv, TypeOK, Time
  <2> QED BY <2>1, <2>2 DEF IdleInv, CooldownExact
<1>2. CASE ~(s \in Examined /\ ~IsInCooldown(s))
  <2>1. Swept[s] = cooldownUntil[s]
    BY <1>2 DEF Swept
  <2> QED BY <2>1 DEF IdleInv, CooldownExact
<1> QED BY <1>1, <1>2

(* Every step keeps the table exact.                                         *)
LEMMA IdleInvStep == IdleInv /\ [Next]_vars => IdleInv'
<1> USE IdleAssumption
<1> SUFFICES ASSUME IdleInv, [Next]_vars PROVE CooldownExact'
  BY IdleTypeStep DEF IdleInv
<1>0. TypeOK /\ CooldownExact
  BY DEF IdleInv
<1>1. CASE ScanAndNudge
  <2>1. CASE Suppressed /\ UNCHANGED <<cooldownUntil, queued, lastAttempt>>
    BY <1>0, <1>1, <2>1 DEF ScanAndNudge, CooldownExact
  <2>2. CASE cooldownUntil' = Swept /\ UNCHANGED <<queued, lastAttempt>>
    BY <1>0, <1>1, <2>2, SweepKeepsCooldowns DEF ScanAndNudge, CooldownExact
  <2>3. ASSUME NEW t \in SelectTarget, NEW ok \in BOOLEAN, Nudge(t, ok) PROVE CooldownExact'
    <3>1. t \in Sessions
      BY DEF SelectTarget, Candidates, Examined
    <3>2. SUFFICES ASSUME NEW s \in Sessions
                   PROVE  /\ lastAttempt'[s] # None => lastAttempt'[s] <= now
                          /\ cooldownUntil'[s] # None =>
                               /\ lastAttempt'[s] # None
                               /\ cooldownUntil'[s] = lastAttempt'[s] + Cooldown
                          /\ up /\ lastAttempt'[s] # None /\ lastAttempt'[s] > startedAt
                             /\ cooldownUntil'[s] = None => now >= lastAttempt'[s] + Cooldown
      BY <1>1 DEF ScanAndNudge, CooldownExact
    <3>3. CASE s = t
      <4>1. cooldownUntil'[s] = now + Cooldown /\ lastAttempt'[s] = now
        BY <1>0, <2>3, <3>1, <3>3, SweptType DEF Nudge, TypeOK
      <4> QED BY <1>0, <4>1 DEF TypeOK
    <3>4. CASE s # t
      <4>1. cooldownUntil'[s] = Swept[s] /\ lastAttempt'[s] = lastAttempt[s]
        BY <1>0, <2>3, <3>4, SweptType DEF Nudge, TypeOK
      <4> QED BY <1>0, <4>1, SweepKeepsCooldowns DEF CooldownExact
    <3> QED BY <3>3, <3>4
  <2> QED BY <1>1, <2>1, <2>2, <2>3 DEF ScanAndNudge
<1>2. CASE Tick
  <2>1. now' = now + 1 /\ UNCHANGED <<up, cooldownUntil, startedAt, lastAttempt>>
    BY <1>2 DEF Tick, scanner, history
  <2> QED BY <1>0, <2>1 DEF CooldownExact, TypeOK, Time
<1>3. ASSUME NEW s \in Sessions,
             UserTurnBegins(s) \/ NudgeTurnBegins(s)
               \/ \E saved \in BOOLEAN : TurnEnds(s, saved)
      PROVE  CooldownExact'
  BY <1>0, <1>3 DEF UserTurnBegins, NudgeTurnBegins, TurnEnds, scanner, history, CooldownExact
<1>4. CASE Crash
  BY <1>0, <1>4 DEF Crash, history, CooldownExact
<1>5. CASE Boot
  BY <1>0, <1>5 DEF Boot, CooldownExact, TypeOK, Time
<1>6. CASE UNCHANGED vars
  BY <1>0, <1>6 DEF vars, scanner, history, CooldownExact
<1> QED BY <1>1, <1>2, <1>3, <1>4, <1>5, <1>6 DEF Next

(* It holds at boot.                                                         *)
LEMMA IdleInvInit == Init => IdleInv
BY IdleInitType DEF Init, IdleInv, CooldownExact

(* Every variable keeps its type.                                            *)
THEOREM IdleTypeCorrect == Spec => []TypeOK
BY IdleInitType, IdleTypeStep, PTL DEF Spec

(* Within one process no session is selected twice within the cooldown, for  *)
(* every cooldown, scan interval and set of sessions, even if every dispatch *)
(* fails.                                                                    *)
THEOREM AttemptsStaySpaced == Spec => AttemptsSpaced
<1> DEFINE Spaced == \A s \in Sessions :
      lastAttempt'[s] # lastAttempt[s] /\ lastAttempt[s] # None /\ lastAttempt[s] > startedAt
        => now >= lastAttempt[s] + Cooldown
<1>1. IdleInv /\ [Next]_vars => [Spaced]_vars
  <2> USE IdleAssumption
  <2> SUFFICES ASSUME IdleInv, Next, NEW s \in Sessions, lastAttempt'[s] # lastAttempt[s],
                      lastAttempt[s] # None, lastAttempt[s] > startedAt
               PROVE  now >= lastAttempt[s] + Cooldown
    OBVIOUS
  <2>1. ScanAndNudge
    BY DEF Next, Tick, Crash, Boot, UserTurnBegins, NudgeTurnBegins, TurnEnds, history
  <2>2. PICK t \in SelectTarget, ok \in BOOLEAN : Nudge(t, ok)
    BY <2>1 DEF ScanAndNudge, history
  <2>3. s = t
    BY <2>2 DEF Nudge, IdleInv, TypeOK
  <2>4. up /\ ~IsInCooldown(s)
    BY <2>1, <2>2, <2>3 DEF ScanAndNudge, SelectTarget, Candidates
  <2>5. cooldownUntil[s] = None \/ now >= cooldownUntil[s]
    BY <2>4 DEF IsInCooldown, IdleInv, TypeOK, Time
  <2> QED BY <2>4, <2>5 DEF IdleInv, CooldownExact
<1> QED BY <1>1, IdleInvInit, IdleInvStep, PTL DEF Spec, AttemptsSpaced

-----------------------------------------------------------------------------
(* The gates *)

(* An hour of the window as a user counts it is a quiet hour of the code,    *)
(* with the window inside a day, across midnight or empty.                   *)
LEMMA WindowIsQuiet ==
  ASSUME NEW t \in Nat, t % Day \in QuietWindow
  PROVE  InQuietHours(t)
<1> USE IdleAssumption
<1> DEFINE length == (QuietEnd + Day - QuietStart) % Day
<1>1. PICK k \in 0 .. length - 1 : t % Day = (QuietStart + k) % Day
  BY DEF QuietWindow
<1>2. \A n \in Nat : n < Day => n % Day = n
  OBVIOUS
<1>3. \A n \in Nat : Day <= n /\ n < Day + Day => n % Day = n - Day
  OBVIOUS
<1>4. CASE QuietStart <= QuietEnd
  <2>1. length = QuietEnd - QuietStart
    BY <1>3, <1>4
  <2>2. (QuietStart + k) % Day = QuietStart + k
    BY <1>1, <1>2, <2>1
  <2> QED BY <1>1, <1>4, <2>1, <2>2 DEF InQuietHours
<1>5. CASE QuietEnd < QuietStart
  <2>1. length = QuietEnd + Day - QuietStart
    BY <1>2, <1>5
  <2>2. CASE QuietStart + k < Day
    BY <1>1, <1>2, <1>5, <2>2 DEF InQuietHours
  <2>3. CASE Day <= QuietStart + k
    BY <1>1, <1>3, <1>5, <2>1, <2>3 DEF InQuietHours
  <2> QED BY <1>1, <2>1, <2>2, <2>3
<1> QED BY <1>4, <1>5

(* Every nudge is justified and goes to the most recent eligible session,    *)
(* however old the listing is and whatever the two zones, for any thresholds *)
(* and number of sessions.                                                   *)
THEOREM NudgesStayJustified == Spec => NudgesJustified
<1> DEFINE Justified == \A s \in Sessions : queued'[s] > queued[s] =>
             /\ ~active[s] /\ fresh[s] # None /\ fresh[s] + IdleTimeout <= now + Skew
             /\ now % Day \notin QuietWindow
             /\ startedAt + StartupGrace <= now
             /\ \A t \in Sessions \ {s} :
                  /\ queued'[t] = queued[t]
                  /\ t \in Candidates => fresh[t] <= fresh[s]
<1>1. TypeOK /\ [Next]_vars => [Justified]_vars
  <2> USE IdleAssumption
  <2> SUFFICES ASSUME TypeOK, Next, NEW s \in Sessions, queued'[s] > queued[s]
               PROVE  /\ ~active[s] /\ fresh[s] # None /\ fresh[s] + IdleTimeout <= now + Skew
                      /\ now % Day \notin QuietWindow
                      /\ startedAt + StartupGrace <= now
                      /\ \A t \in Sessions \ {s} :
                           /\ queued'[t] = queued[t]
                           /\ t \in Candidates => fresh[t] <= fresh[s]
    OBVIOUS
  <2>0. queued[s] \in Nat /\ queued'[s] # queued[s]
    BY DEF TypeOK
  <2>1. ScanAndNudge
    <3>1. ~Crash
      BY <2>0 DEF Crash
    <3>2. \A r \in Sessions : ~NudgeTurnBegins(r)
      BY <2>0 DEF NudgeTurnBegins, TypeOK
    <3> QED BY <2>0, <3>1, <3>2 DEF Next, Tick, Boot, UserTurnBegins, TurnEnds
  <2>2. PICK r \in SelectTarget, ok \in BOOLEAN : ~Suppressed /\ Nudge(r, ok)
    BY <2>0, <2>1 DEF ScanAndNudge
  <2>3. s = r /\ \A t \in Sessions \ {s} : queued'[t] = queued[t]
    BY <2>0, <2>2 DEF Nudge, TypeOK
  <2>4. s \in Candidates /\ \A t \in Candidates : fresh[t] <= fresh[s]
    BY <2>2, <2>3 DEF SelectTarget
  <2>5. ~active[s] /\ fresh[s] # None /\ fresh[s] + IdleTimeout <= now + Skew
    BY <2>4, IdleAssumption DEF Candidates, Examined, IsIdle, ToAware, TypeOK, Time
  <2>6. startedAt + StartupGrace <= now /\ ~InQuietHours(now)
    BY <2>2 DEF Suppressed, TypeOK
  <2>7. now % Day \notin QuietWindow
    BY <2>6, WindowIsQuiet DEF TypeOK
  <2> QED BY <2>3, <2>4, <2>5, <2>6, <2>7
<1> QED BY <1>1, IdleTypeCorrect, PTL DEF Spec, NudgesJustified

-----------------------------------------------------------------------------
(* The rotation *)

(* Scans of a running process are exactly one interval apart.                *)
ScansRegular == up => now <= nextScan /\ startedAt + ScanInterval <= nextScan

(* Whoever has been passed over p times in a row has been so for p different *)
(* sessions, all of which were selected in the last p scans.                 *)
PassedFor(s, row) ==
  /\ row \subseteq Sessions \ {s}
  /\ Cardinality(row) = passedOver[s]
  /\ \A t \in row :
       /\ lastAttempt[t] # None /\ lastAttempt[t] > startedAt
       /\ nextScan - passedOver[s] * ScanInterval <= lastAttempt[t]

RowsDistinct == \A s \in Sessions : \E row \in SUBSET Sessions : PassedFor(s, row)

RotationInv == IdleInv /\ ScansRegular /\ RowsDistinct

(* A session that is not passed over has an empty row.                       *)
LEMMA NoRow ==
  ASSUME NEW s \in Sessions, passedOver[s] = 0
  PROVE  PassedFor(s, {})
BY FS_EmptySet DEF PassedFor

(* A row is shorter than the number of sessions.                             *)
LEMMA RowsAreShort ==
  ASSUME IsFiniteSet(Sessions), NEW s \in Sessions, NEW row, PassedFor(s, row)
  PROVE  /\ IsFiniteSet(row) /\ passedOver[s] \in Nat
         /\ passedOver[s] <= Cardinality(Sessions) - 1
<1>1. IsFiniteSet(Sessions \ {s}) /\ Cardinality(Sessions \ {s}) = Cardinality(Sessions) - 1
  BY FS_RemoveElement
<1>2. IsFiniteSet(row) /\ Cardinality(row) <= Cardinality(Sessions \ {s})
  BY <1>1, FS_Subset DEF PassedFor
<1>3. Cardinality(row) \in Nat
  BY <1>2, FS_CardinalityType
<1> QED BY <1>1, <1>2, <1>3 DEF PassedFor

(* A session of a row is still cooling down at the next scan.                *)
LEMMA RowCoolsDown ==
  ASSUME CooldownCoversSessions, IdleInv, up, now = nextScan,
         NEW s \in Sessions, NEW row, PassedFor(s, row), NEW t \in row
  PROVE  IsInCooldown(t)
<1> USE IdleAssumption
<1>1. passedOver[s] \in Nat /\ passedOver[s] <= Cardinality(Sessions) - 1
  BY RowsAreShort DEF CooldownCoversSessions
<1>2. Cardinality(Sessions) \in Nat
  BY FS_CardinalityType DEF CooldownCoversSessions
<1>3. passedOver[s] * ScanInterval <= (Cardinality(Sessions) - 1) * ScanInterval
  BY <1>1, <1>2
<1>4. passedOver[s] * ScanInterval < Cooldown
  <2>1. passedOver[s] * ScanInterval \in Int /\ (Cardinality(Sessions) - 1) * ScanInterval \in Int
    BY <1>1, <1>2
  <2> QED BY <1>3, <2>1 DEF CooldownCoversSessions
<1>5. t \in Sessions /\ lastAttempt[t] \in Nat /\ lastAttempt[t] > startedAt
      /\ nextScan - passedOver[s] * ScanInterval <= lastAttempt[t]
  BY DEF PassedFor, IdleInv, TypeOK, Time
<1>6. now < lastAttempt[t] + Cooldown
  <2>1. passedOver[s] * ScanInterval \in Nat /\ now \in Nat
    BY <1>1 DEF IdleInv, TypeOK
  <2> QED BY <1>4, <1>5, <2>1
<1>7. cooldownUntil[t] # None /\ cooldownUntil[t] = lastAttempt[t] + Cooldown
  BY <1>5, <1>6 DEF IdleInv, CooldownExact, TypeOK, Time
<1> QED BY <1>6, <1>7 DEF IsInCooldown

(* A scan adds the session it selects to the row of every other candidate.   *)
LEMMA ScanKeepsRows ==
  ASSUME CooldownCoversSessions, RotationInv, ScanAndNudge
  PROVE  RowsDistinct' /\ ScansRegular'
<1> USE IdleAssumption
<1>1. up /\ now = nextScan /\ nextScan' = now + ScanInterval /\ UNCHANGED <<now, up, startedAt>>
      /\ now \in Nat /\ startedAt \in Nat /\ startedAt < now
  BY DEF ScanAndNudge, RotationInv, ScansRegular, IdleInv, TypeOK
<1>2. ScansRegular'
  BY <1>1 DEF ScansRegular
<1>3. CASE passedOver' = [s \in Sessions |-> 0]
  <2>1. \A s \in Sessions : PassedFor(s, {})'
    BY <1>3, FS_EmptySet DEF PassedFor
  <2> QED BY <1>2, <2>1 DEF RowsDistinct
<1>4. ASSUME NEW t \in SelectTarget, NEW ok \in BOOLEAN, Nudge(t, ok) PROVE RowsDistinct'
  <2>1. t \in Sessions /\ ~IsInCooldown(t)
    BY DEF SelectTarget, Candidates, Examined
  <2>2. /\ lastAttempt'[t] = now
        /\ \A r \in Sessions \ {t} : lastAttempt'[r] = lastAttempt[r]
    BY <1>4, <2>1 DEF Nudge, RotationInv, IdleInv, TypeOK
  <2> SUFFICES ASSUME NEW s \in Sessions PROVE \E row \in SUBSET Sessions : PassedFor(s, row)'
    BY DEF RowsDistinct
  <2>3. CASE s \notin Candidates \ {t}
    <3>1. passedOver'[s] = 0
      BY <1>4, <2>3 DEF Nudge
    <3>2. PassedFor(s, {})'
      BY <3>1, FS_EmptySet DEF PassedFor
    <3> QED BY <3>2
  <2>4. CASE s \in Candidates \ {t}
    <3>1. passedOver'[s] = passedOver[s] + 1
      BY <1>4, <2>4 DEF Nudge
    <3>2. PICK row \in SUBSET Sessions : PassedFor(s, row)
      BY DEF RotationInv, RowsDistinct
    <3>3. t \notin row
      BY <1>1, <2>1, <3>2, RowCoolsDown DEF RotationInv
    <3>4. passedOver[s] \in Nat /\ IsFiniteSet(row)
      BY <3>2, RowsAreShort DEF CooldownCoversSessions
    <3> DEFINE new == row \cup {t}
    <3>5. Cardinality(new) = passedOver'[s]
      BY <3>1, <3>2, <3>3, <3>4, FS_AddElement DEF PassedFor
    <3>6. nextScan' - passedOver'[s] * ScanInterval = nextScan - passedOver[s] * ScanInterval
      BY <1>1, <3>1, <3>4
    <3>7. ASSUME NEW r \in new
          PROVE  /\ lastAttempt'[r] # None /\ lastAttempt'[r] > startedAt'
                 /\ nextScan' - passedOver'[s] * ScanInterval <= lastAttempt'[r]
      <4>1. CASE r = t
        <5>1. passedOver[s] * ScanInterval \in Nat
          BY <3>4
        <5> QED BY <1>1, <2>2, <3>6, <4>1, <5>1
      <4>2. CASE r # t
        BY <1>1, <2>2, <3>2, <3>6, <4>2 DEF PassedFor
      <4> QED BY <4>1, <4>2
    <3>8. new \subseteq Sessions \ {s}
      BY <2>1, <2>4, <3>2 DEF PassedFor
    <3>9. PassedFor(s, new)'
      BY <3>5, <3>7, <3>8 DEF PassedFor
    <3> QED BY <2>1, <3>9
  <2> QED BY <2>3, <2>4
<1> QED BY <1>2, <1>3, <1>4 DEF ScanAndNudge

(* Every step keeps the rows; a new process starts new ones.                 *)
LEMMA RotationStep ==
  ASSUME CooldownCoversSessions, RotationInv, [Next]_vars
  PROVE  RotationInv'
<1> USE IdleAssumption
<1>1. IdleInv'
  BY IdleInvStep DEF RotationInv
<1>2. CASE ScanAndNudge
  BY <1>1, <1>2, ScanKeepsRows DEF RotationInv
<1>3. CASE Tick
  BY <1>1, <1>3 DEF Tick, RotationInv, ScansRegular, RowsDistinct, PassedFor, scanner, history,
                    IdleInv, TypeOK
<1>4. CASE Crash
  BY <1>1, <1>4 DEF Crash, RotationInv, ScansRegular, RowsDistinct, PassedFor, history
<1>5. CASE Boot
  <2>1. \A s \in Sessions : PassedFor(s, {})'
    BY <1>5, FS_EmptySet DEF Boot, PassedFor
  <2>2. ScansRegular'
    BY <1>5 DEF Boot, ScansRegular, RotationInv, IdleInv, TypeOK
  <2> QED BY <1>1, <2>1, <2>2 DEF RotationInv, RowsDistinct
<1>6. CASE UNCHANGED <<now, up, scanner, history>>
  BY <1>1, <1>6 DEF RotationInv, ScansRegular, RowsDistinct, PassedFor, scanner, history
<1> QED BY <1>2, <1>3, <1>4, <1>5, <1>6
    DEF Next, UserTurnBegins, NudgeTurnBegins, TurnEnds, vars

(* It holds at boot.                                                         *)
LEMMA RotationInit == Init => RotationInv
<1> SUFFICES ASSUME Init PROVE ScansRegular /\ RowsDistinct
  BY IdleInvInit DEF RotationInv
<1>1. \A s \in Sessions : PassedFor(s, {})
  BY NoRow DEF Init
<1> QED BY <1>1, IdleAssumption DEF Init, ScansRegular, RowsDistinct

(* Always nudging the most recent session starves nobody: for any number of  *)
(* sessions, whatever the users do and however many dispatches fail, if the  *)
(* cooldown covers the sessions.                                             *)
THEOREM NobodyIsStarved ==
  ASSUME CooldownCoversSessions
  PROVE  Spec => []NobodyStarves
<1>1. RotationInv => NobodyStarves
  <2> SUFFICES ASSUME RotationInv, NEW s \in Sessions PROVE passedOver[s] < Cardinality(Sessions)
    BY DEF NobodyStarves
  <2>1. PICK row \in SUBSET Sessions : PassedFor(s, row)
    BY DEF RotationInv, RowsDistinct
  <2>2. Cardinality(Sessions) \in Nat
    BY FS_CardinalityType DEF CooldownCoversSessions
  <2> QED BY <2>1, <2>2, RowsAreShort DEF CooldownCoversSessions
<1>2. RotationInv /\ [Next]_vars => RotationInv'
  BY RotationStep
<1> QED BY <1>1, <1>2, RotationInit, PTL DEF Spec
=============================================================================
