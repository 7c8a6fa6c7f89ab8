----------------------------- MODULE IdleScanner -----------------------------
(***************************************************************************)
(* The idle watcher's judgment gate (services/proactive/scanner.py): on    *)
(* every tick at most one session that has been silent for long enough is  *)
(* nudged, the most recently updated one, unless it is cooling down.       *)
(*                                                                         *)
(* scan_and_nudge awaits nothing but the put on the unbounded inbound      *)
(* queue, so a scan is one step.  Time is counted in units of which a scan *)
(* interval, a cooldown, ... are a few.  The scanner's clock runs in the   *)
(* configured zone; the session store and the turns are nanobot's, which   *)
(* writes updated_at as the host's local time without a zone.              *)
(***************************************************************************)
EXTENDS Integers, FiniteSets

CONSTANTS Sessions,      \* well-formed keys of allowlisted channels; a scan
                         \* skips all others
          IdleTimeout, Cooldown, ScanInterval, StartupGrace,
          Day,           \* time units in a day
          QuietStart, QuietEnd,
          Skew,          \* how far the configured zone is ahead of the host's (no
                         \* daylight saving time within a run)
          MaxTime,       \* bound on the clock
          None

ASSUME IdleAssumption ==
  /\ IdleTimeout \in Nat /\ Cooldown \in Nat /\ StartupGrace \in Nat
  /\ ScanInterval \in Nat \ {0} /\ Day \in Nat \ {0} /\ MaxTime \in Nat
  /\ QuietStart \in 0 .. Day - 1 /\ QuietEnd \in 0 .. Day - 1
  /\ Skew \in Int
  /\ None \notin Nat

VARIABLES
  now,            \* the clock
  up,             \* the process is running
  startedAt,      \* _started_at
  nextScan,       \* when the sleep between two scans ends
  cooldownUntil,  \* _cooldown_until; lost with the process
  fresh,          \* when updated_at was set, of the session as get_or_create
                  \* returns it (None: no session)
  listed,         \* the same of the session as list_sessions reads it from disk
  active,         \* the session's lock is held by a turn
  queued,         \* nudges of the session on the inbound bus
  lastAttempt,    \* history: when a session was last selected, restarts included
  passedOver      \* history: scans in a row that selected another session although
                  \* this one was eligible; a suppressed scan ends the row

scanner == <<startedAt, nextScan, cooldownUntil>>
store   == <<fresh, listed, active>>
history == <<lastAttempt, passedOver>>
vars    == <<now, up, scanner, store, queued, history>>

Time == Nat \cup {None}

TypeOK ==
  /\ now \in Nat /\ up \in BOOLEAN
  /\ startedAt \in Nat /\ nextScan \in Nat
  /\ cooldownUntil \in [Sessions -> Time]
  /\ fresh \in [Sessions -> Time] /\ listed \in [Sessions -> Time]
  /\ active \in [Sessions -> BOOLEAN]
  /\ queued \in [Sessions -> Nat]
  /\ lastAttempt \in [Sessions -> Time]
  /\ passedOver \in [Sessions -> Nat]

\* Boot with some sessions left by an earlier process.
Init ==
  /\ now = 0 /\ up = TRUE
  /\ startedAt = 0 /\ nextScan = ScanInterval
  /\ cooldownUntil = [s \in Sessions |-> None]
  /\ fresh \in [Sessions -> {0, None}]
  /\ listed = fresh
  /\ active = [s \in Sessions |-> FALSE]
  /\ queued = [s \in Sessions |-> 0]
  /\ lastAttempt = [s \in Sessions |-> None]
  /\ passedOver = [s \in Sessions |-> 0]

-----------------------------------------------------------------------------
(* The gates *)

InQuietHours(t) ==
  LET current == t % Day
  IN  IF QuietStart <= QuietEnd
      THEN QuietStart <= current /\ current < QuietEnd
      ELSE QuietStart <= current \/ current < QuietEnd

Suppressed == now - startedAt < StartupGrace \/ InQuietHours(now)

\* The instant that _to_aware takes an update at ts for: the host's local time
\* then, read as a time of the configured zone.
ToAware(ts) == ts - Skew

IsIdle(ts) == ts # None /\ now - ToAware(ts) >= IdleTimeout

\* The sessions whose cooldown the scan gets to look at.
Examined == {s \in Sessions : ~active[s] /\ IsIdle(listed[s])}

IsInCooldown(s) == cooldownUntil[s] # None /\ now < cooldownUntil[s]

\* Looking at an expired cooldown deletes it.
Swept == [s \in Sessions |-> IF s \in Examined /\ ~IsInCooldown(s) THEN None
                             ELSE cooldownUntil[s]]

\* Faulty variant: the listed timestamp is not validated again.
CandidatesUnvalidated == {s \in Examined : ~IsInCooldown(s)}

\* Every gate passes, for the session as get_or_create returns it too.
Candidates == {s \in Examined : ~IsInCooldown(s) /\ IsIdle(fresh[s])}

\* The most recently updated one; a tie is decided by the order of the listing.
SelectTarget ==
  {s \in Candidates : \A t \in Candidates : fresh[t] <= fresh[s]}

-----------------------------------------------------------------------------
(* The scanner *)

\* Faulty variant: the cooldown starts only when the dispatch has succeeded.
NudgeCoolsAfterwards(s, ok) ==
  /\ cooldownUntil' = IF ok THEN [Swept EXCEPT ![s] = now + Cooldown] ELSE Swept
  /\ queued' = IF ok THEN [queued EXCEPT ![s] = @ + 1] ELSE queued
  /\ lastAttempt' = [lastAttempt EXCEPT ![s] = now]
  /\ passedOver' = [t \in Sessions |-> IF t \in Candidates \ {s} THEN passedOver[t] + 1 ELSE 0]

\* The cooldown is marked first; then the dispatch succeeds, or raises and is
\* logged.
Nudge(s, ok) ==
  /\ cooldownUntil' = [Swept EXCEPT ![s] = now + Cooldown]
  /\ queued' = IF ok THEN [queued EXCEPT ![s] = @ + 1] ELSE queued
  /\ lastAttempt' = [lastAttempt EXCEPT ![s] = now]
  /\ passedOver' = [t \in Sessions |-> IF t \in Candidates \ {s} THEN passedOver[t] + 1 ELSE 0]

ScanAndNudge ==
  /\ up
  /\ now >= nextScan
  /\ nextScan' = now + ScanInterval
  /\ \/ /\ Suppressed
        /\ passedOver' = [s \in Sessions |-> 0]
        /\ UNCHANGED <<cooldownUntil, queued, lastAttempt>>
     \/ /\ ~Suppressed
        /\ SelectTarget = {}
        /\ cooldownUntil' = Swept
        /\ passedOver' = [s \in Sessions |-> 0]
        /\ UNCHANGED <<queued, lastAttempt>>
     \/ /\ ~Suppressed
        /\ \E s \in SelectTarget, ok \in BOOLEAN : Nudge(s, ok)
  /\ UNCHANGED <<now, up, startedAt, store>>

-----------------------------------------------------------------------------
(* nanobot and the world *)

\* A due scan is not delayed by a whole time unit.
Tick ==
  /\ now < MaxTime
  /\ up => now < nextScan
  /\ now' = now + 1
  /\ UNCHANGED <<up, scanner, store, queued, history>>

\* A turn takes the session's lock: for a message of the user, or for a nudge.
UserTurnBegins(s) ==
  /\ up /\ ~active[s]
  /\ active' = [active EXCEPT ![s] = TRUE]
  /\ UNCHANGED <<now, up, scanner, fresh, listed, queued, history>>

NudgeTurnBegins(s) ==
  /\ up /\ ~active[s] /\ queued[s] > 0
  /\ active' = [active EXCEPT ![s] = TRUE]
  /\ queued' = [queued EXCEPT ![s] = @ - 1]
  /\ UNCHANGED <<now, up, scanner, fresh, listed, history>>

\* The session is updated; saving it to the disk may fail or come later.
TurnEnds(s, saved) ==
  /\ active[s]
  /\ active' = [active EXCEPT ![s] = FALSE]
  /\ fresh' = [fresh EXCEPT ![s] = now]
  /\ listed' = IF saved THEN [listed EXCEPT ![s] = now] ELSE listed
  /\ UNCHANGED <<now, up, scanner, queued, history>>

Crash ==
  /\ up
  /\ up' = FALSE
  /\ cooldownUntil' = [s \in Sessions |-> None]
  /\ fresh' = listed
  /\ active' = [s \in Sessions |-> FALSE]
  /\ queued' = [s \in Sessions |-> 0]
  /\ UNCHANGED <<now, startedAt, nextScan, listed, history>>

Boot ==
  /\ ~up
  /\ up' = TRUE
  /\ startedAt' = now
  /\ nextScan' = now + ScanInterval
  /\ passedOver' = [s \in Sessions |-> 0]
  /\ UNCHANGED <<now, cooldownUntil, store, queued, lastAttempt>>

Next ==
  \/ ScanAndNudge \/ Tick \/ Crash \/ Boot
  \/ \E s \in Sessions :
       \/ UserTurnBegins(s) \/ NudgeTurnBegins(s)
       \/ \E saved \in BOOLEAN : TurnEnds(s, saved)

Spec == Init /\ [][Next]_vars

-----------------------------------------------------------------------------
(* Properties *)

\* The quiet hours as a user would count them: from the start on, hour by hour
\* around the clock, up to the end.
QuietWindow == {(QuietStart + k) % Day : k \in 0 .. ((QuietEnd + Day - QuietStart) % Day) - 1}

\* A nudge goes only to a session in which nobody has spoken for the idle
\* timeout, no turn is running, and never in the quiet hours or the grace
\* period -- although the listing the scan works on may be out of date.  One scan
\* nudges one session at most, and no eligible session was updated after it.
\* The silence is shorter, or longer, by what the configured zone is ahead of the
\* host's, or behind it, and by no more than that.
NudgesJustified ==
  [][\A s \in Sessions : queued'[s] > queued[s] =>
       /\ ~active[s] /\ fresh[s] # None /\ fresh[s] + IdleTimeout <= now + Skew
       /\ now % Day \notin QuietWindow
       /\ startedAt + StartupGrace <= now
       /\ \A t \in Sessions \ {s} :
            /\ queued'[t] = queued[t]
            /\ t \in Candidates => fresh[t] <= fresh[s]]_vars

\* One process never selects a session twice within the cooldown: neither
\* failing dispatches nor turns in between nor swept entries make it forget.
AttemptsSpaced ==
  [][\A s \in Sessions :
       lastAttempt'[s] # lastAttempt[s] /\ lastAttempt[s] # None /\ lastAttempt[s] > startedAt
         => now >= lastAttempt[s] + Cooldown]_vars

\* The scans of one cooldown are at least as many as the sessions.
CooldownCoversSessions ==
  IsFiniteSet(Sessions) /\ (Cardinality(Sessions) - 1) * ScanInterval < Cooldown

\* Always nudging the most recent session starves nobody if the cooldown covers the
\* sessions: between two suppressed scans an eligible session is passed over at most
\* once for each other one, because those cool down, failing dispatches included.
NobodyStarves == \A s \in Sessions : passedOver[s] < Cardinality(Sessions)

=============================================================================
