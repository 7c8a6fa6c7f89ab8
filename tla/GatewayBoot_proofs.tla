-------------------------- MODULE GatewayBoot_proofs --------------------------
(***************************************************************************)
(* What TLAPS proves of GatewayBoot: for any voices, session keys and      *)
(* number of run() calls, for either route, over any number of processes.  *)
(***************************************************************************)
EXTENDS GatewayBoot, Induction, SequenceTheorems

(* OneWatcher is not inductive alone.  That there are not two routes needs   *)
(* that the stashed starter and the composite exclude each other, that there *)
(* are not two tasks needs that nothing was spawned before the first run,    *)
(* and that a disabled watcher's job never fires needs that hooks_factory    *)
(* has switched it off by the time the process gets to run.                  *)
WatcherInv ==
  /\ Route \in {"cron", "task"}
  /\ runs \in Nat /\ watchers \in {0, 1}
  /\ runs = 0 => watchers = 0
  /\ watchers = 1 => starter
  /\ starter \in BOOLEAN
  /\ starter => Route = "task"
  /\ onJob = "composite" => Route = "cron"
  /\ boot \in {"down", "patched"} => ~fired /\ ~starter /\ onJob = "none" /\ runs = 0
  /\ boot \in {"wiring", "channels", "running"} /\ ~env.idle /\ env.cron => job # "on"
  /\ ~env.idle => ~fired
  /\ boot \in {"down", "patched", "wiring", "channels", "running", "failed"}

(* Before the first process there is no watcher.                             *)
LEMMA WatcherInit == Init => WatcherInv
<1> SUFFICES ASSUME Init PROVE WatcherInv
  OBVIOUS
<1>1. ~fired /\ ~starter /\ starter \in BOOLEAN
  BY DEF Init
<1>2. runs = 0 /\ watchers = 0 /\ onJob = "none" /\ boot = "down"
  BY DEF Init
<1> QED BY <1>1, <1>2, BootAssumption DEF WatcherInv

(* No stage of the boot, and no second run, adds a watcher or a job.         *)
LEMMA WatcherStep == WatcherInv /\ [Next]_vars => WatcherInv'
<1> SUFFICES ASSUME WatcherInv, [Next]_vars PROVE WatcherInv'
  OBVIOUS
<1>1. ASSUME NEW e \in Envs, Launch(e) PROVE WatcherInv'
  BY <1>1 DEF WatcherInv, Launch, Fails, life
<1>2. CASE HooksFactory
  BY <1>2 DEF WatcherInv, HooksFactory, Fails, InstallIdle, life
<1>3. CASE CliWires
  BY <1>3 DEF WatcherInv, CliWires
<1>4. ASSUME NEW order \in Orders, InitChannels(order) \/ InitChannelsRaises(order)
      PROVE  WatcherInv'
  BY <1>4 DEF WatcherInv, InitChannels, InitChannelsRaises, Fails, life
<1>5. CASE Run
  BY <1>5 DEF WatcherInv, Run, booted
<1>6. CASE CronFires
  BY <1>6 DEF WatcherInv, CronFires, booted
<1>7. CASE WatcherTicks
  BY <1>7 DEF WatcherInv, WatcherTicks, booted
<1>8. ASSUME NEW key \in Keys, TurnSaved(key) PROVE WatcherInv'
  BY <1>8 DEF WatcherInv, TurnSaved, booted, life
<1>9. ASSUME NEW req \in Deletes, NEW raises \in {{}, Keys}, Request(req, raises)
      PROVE  WatcherInv'
  BY <1>9 DEF WatcherInv, Request, booted, life
<1>10. CASE Exit
  <2>1. ~fired' /\ ~starter' /\ starter' \in BOOLEAN
    BY <1>10 DEF Exit
  <2>2. runs' = 0 /\ watchers' = 0 /\ onJob' = "none" /\ boot' = "down"
    BY <1>10 DEF Exit
  <2> QED BY <2>1, <2>2 DEF WatcherInv
<1>11. CASE UNCHANGED vars
  BY <1>11 DEF WatcherInv, vars, booted, life
<1> QED BY <1>1, <1>2, <1>3, <1>4, <1>5, <1>6, <1>7, <1>8, <1>9, <1>10, <1>11 DEF Next

(* However often run is called and whatever earlier processes left in the    *)
(* cron store, one process never has two watchers.                           *)
THEOREM OneWatcherOnly == Spec => []OneWatcher
<1>1. WatcherInv => OneWatcher
  BY DEF WatcherInv, OneWatcher
<1> QED BY <1>1, WatcherInit, WatcherStep, PTL DEF Spec

(* A disabled watcher's job never fires, whatever is in the cron store.      *)
THEOREM DisabledStaysSilent == Spec => []DisabledNeverFires
<1>1. WatcherInv => DisabledNeverFires
  BY DEF WatcherInv, DisabledNeverFires
<1> QED BY <1>1, WatcherInit, WatcherStep, PTL DEF Spec

(* A hooks_factory that raises leaves the persistent cron store as it was:   *)
(* no other step ends a patched boot.                                        *)
THEOREM FailedFactoryLeavesNothing == Spec => FactoryAllOrNothing
<1> DEFINE A == boot = "patched" /\ boot' = "failed" => UNCHANGED <<job, onJob, starter>>
<1>1. [Next]_vars => A
  <2> SUFFICES ASSUME [Next]_vars, boot = "patched", boot' = "failed"
               PROVE  UNCHANGED <<job, onJob, starter>>
    OBVIOUS
  <2>1. CASE HooksFactory
    BY <2>1 DEF HooksFactory, life
  <2>2. CASE ~HooksFactory
    BY <2>2 DEF Next, Launch, CliWires, InitChannels, InitChannelsRaises, Run, CronFires,
                WatcherTicks, TurnSaved, Request, Exit, vars, booted, life
  <2> QED BY <2>1, <2>2
<1>2. A => [boot = "patched" /\ boot' = "failed" => UNCHANGED <<job, onJob, starter>>]_vars
  OBVIOUS
<1> QED BY <1>1, <1>2, PTL DEF Spec, FactoryAllOrNothing

-----------------------------------------------------------------------------
(* What is sound does not fail, and what is not does, in whichever order     *)
(* _hooks_factory meets it.                                                  *)

TTSSound(e) ==
  /\ e.rules = "there" /\ e.modes.form \in {"empty", "mapping"}
  /\ "typo" \notin {e.modes.default, e.modes.desktop_mate}
  /\ e.typo # "TTS_BARRIER_TIMEOUT"

Sound(e) ==
  /\ e.version /\ e.typo \notin {"LTM_TOP_K", "IDLE_TIMEOUT_S"}
  /\ e.tts => TTSSound(e)
  /\ e.idle => e.cron /\ e.typo # "IDLE_TIMEZONE"

(* BootsIfSound speaks of the boot from its wiring on; a process that is not *)
(* wired yet has passed the version check, and nothing else.                 *)
BootInv ==
  /\ boot # "down" => env \in Envs
  /\ boot = "patched" => env.version
  /\ boot \in {"wiring", "channels", "running"} => Sound(env)
  /\ boot = "failed" => ~Sound(env) \/ error = "channels"

(* A mode file is accepted exactly if its form and its values are right.     *)
LEMMA ModesErrorSound ==
  ASSUME NEW e \in Envs
  PROVE  ModesError(e.modes) = "none" <=>
           e.modes.form \in {"empty", "mapping"}
             /\ "typo" \notin {e.modes.default, e.modes.desktop_mate}
<1>1. e.modes \in ModeFiles
  BY DEF Envs
<1>2. e.modes.form \in {"missing", "unparsable", "not a mapping", "empty",
                         "channels not a mapping", "mapping"}
  BY <1>1 DEF ModeFiles
<1>3. CASE e.modes.form \in {"empty", "mapping"}
  BY <1>3 DEF ModesError
<1>4. CASE e.modes.form \notin {"empty", "mapping"}
  BY <1>2, <1>4 DEF ModesError
<1> QED BY <1>3, <1>4

(* TTS is built exactly if nothing it reads is wrong.                        *)
LEMMA TTSErrorSound ==
  ASSUME NEW e \in Envs
  PROVE  TTSError(e) = "none" <=> TTSSound(e)
<1>1. e.rules \in {"missing", "there"}
  BY DEF Envs
<1>2. e.modes.form = "missing" => ModesError(e.modes) # "none"
  BY DEF ModesError
<1> QED BY <1>1, <1>2, ModesErrorSound DEF TTSError, TTSSound

(* The exception that hooks_factory meets first is one that something deserves. *)
LEMMA FactoryErrorSound ==
  ASSUME NEW e \in Envs, e.version
  PROVE  FactoryError(e) = "none" <=> Sound(e)
<1>1. e.typo \in {"none", "LTM_TOP_K", "TTS_BARRIER_TIMEOUT", "IDLE_TIMEOUT_S", "IDLE_TIMEZONE"}
      /\ e.tts \in BOOLEAN /\ e.idle \in BOOLEAN /\ e.cron \in BOOLEAN
  BY DEF Envs
<1> QED BY <1>1, TTSErrorSound DEF FactoryError, IdleError, Sound

(* A process gets on only from a sound environment.                          *)
LEMMA BootStep == BootInv /\ [Next]_vars => BootInv'
<1> SUFFICES ASSUME BootInv, [Next]_vars PROVE BootInv'
  OBVIOUS
<1>1. ASSUME NEW e \in Envs, Launch(e) PROVE BootInv'
  BY <1>1 DEF Launch, Fails, BootInv, Sound
<1>2. CASE HooksFactory
  <2>1. env \in Envs /\ env' = env /\ env.version
    BY <1>2 DEF HooksFactory, BootInv
  <2>2. CASE FactoryError(env) # "none"
    BY <1>2, <2>1, <2>2, FactoryErrorSound DEF HooksFactory, Fails, BootInv
  <2>3. CASE FactoryError(env) = "none"
    BY <1>2, <2>1, <2>3, FactoryErrorSound DEF HooksFactory, BootInv
  <2> QED BY <2>2, <2>3
<1>3. CASE CliWires \/ \E order \in Orders : InitChannels(order) \/ InitChannelsRaises(order)
  BY <1>3 DEF CliWires, InitChannels, InitChannelsRaises, Fails, BootInv
<1>4. CASE Exit
  BY <1>4 DEF Exit, BootInv
<1>5. CASE UNCHANGED booted
  BY <1>5 DEF booted, BootInv
<1> QED BY <1>1, <1>2, <1>3, <1>4, <1>5
    DEF Next, Run, CronFires, WatcherTicks, TurnSaved, Request, vars

(* A misconfiguration is loud and nothing else is: whatever the operator     *)
(* asked for, a process gets past its factory exactly if it can be done.     *)
THEOREM OnlyTheSoundBoot == Spec => []BootsIfSound
<1>1. Init => BootInv
  BY DEF Init, BootInv
<1>2. BootInv => BootsIfSound
  BY DEF BootInv, BootsIfSound, Sound, TTSSound
<1> QED BY <1>1, <1>2, BootStep, PTL DEF Spec

-----------------------------------------------------------------------------
(* The answers of one request: only the list reads foreign sessions, and     *)
(* drops them again; the other two refuse a foreign key before they look at  *)
(* the store.                                                                *)
LEMMA ReplyUnseen ==
  ASSUME NEW token \in BOOLEAN, NEW sm, NEW there, NEW raises, NEW req \in Requests
  PROVE  /\ \/ Reply(token, sm, there, raises, req)
                = Reply(token, sm, there \cap OwnKeys, raises, req)
            \/ /\ req.route = "list" /\ raises \cap (there \ OwnKeys) # {}
               /\ Reply(token, sm, there, raises, req) = Status(500)
         /\ there \ OwnKeys \subseteq Deleted(token, sm, there, raises, req)
<1> DEFINE own == there \cap OwnKeys
<1>1. Listed(there) = Listed(own)
  BY DEF Listed
<1>2. ASSUME Refused(sm, req) = 0 PROVE req.key \in OwnKeys
  BY <1>2 DEF Refused
<1>3. there \ OwnKeys \subseteq Deleted(token, sm, there, raises, req)
  BY <1>2 DEF Deleted
<1>4. CASE req.route = "list"
  <2>1. raises \cap there # {} => raises \cap own # {} \/ raises \cap (there \ OwnKeys) # {}
    OBVIOUS
  <2>2. raises \cap own # {} => raises \cap there # {}
    OBVIOUS
  <2>3. CASE TokenValid(token, req) /\ sm # Absent
    <3>1. Reply(token, sm, there, raises, req)
            = IF raises \cap there # {} THEN Status(500)
              ELSE [status |-> 200, body |-> Listed(there)]
      BY <1>4, <2>3 DEF Reply
    <3>2. Reply(token, sm, own, raises, req)
            = IF raises \cap own # {} THEN Status(500)
              ELSE [status |-> 200, body |-> Listed(own)]
      BY <1>4, <2>3 DEF Reply
    <3> QED BY <1>1, <1>3, <1>4, <2>1, <2>2, <3>1, <3>2
  <2>4. CASE ~(TokenValid(token, req) /\ sm # Absent)
    BY <1>3, <1>4, <2>4 DEF Reply
  <2> QED BY <2>3, <2>4
<1>5. CASE req.route # "list" /\ Refused(sm, req) = 0
  <2>1. {req.key} \cap there = {req.key} \cap own
    BY <1>2, <1>5
  <2>2. req.key \in there <=> req.key \in own
    BY <1>2, <1>5
  <2>3. req.key \in raises \cap there <=> req.key \in raises \cap own
    BY <2>2
  <2> QED BY <1>3, <1>5, <2>1, <2>2, <2>3 DEF Reply
<1>6. CASE req.route # "list" /\ Refused(sm, req) # 0
  BY <1>3, <1>6 DEF Reply
<1> QED BY <1>4, <1>5, <1>6

(* No answer of the REST surface depends on the sessions of other channels,  *)
(* but for a list that fails on one it cannot read, and no request removes   *)
(* one.                                                                      *)
THEOREM ForeignSessionsStayUnseen == Spec => []ForeignSessionsUnseen
<1>1. ForeignSessionsUnseen
  BY ReplyUnseen DEF ForeignSessionsUnseen
<1> QED BY <1>1, PTL

(* Audio is in the voice that was asked for, or there is none.               *)
THEOREM NeverInAnotherVoice == Spec => []NeverAnotherVoice
<1>1. NeverAnotherVoice
  BY DEF NeverAnotherVoice, Synthesize
<1> QED BY <1>1, PTL
-----------------------------------------------------------------------------
(* ChannelManager._init_channels: what the loop over the classes leaves.     *)

ClassTables == [Classes -> [fn : Classes \cup {"inherited"}, wrapped : BOOLEAN]]

\* One turn of the loop.
WrapOne(t, k) == IF Declares(Resolved(t, k)) THEN [t EXCEPT ![k] = Wrapper(Resolved(t, k))] ELSE t

(* A wrapped class still has a constructor of one of the classes.            *)
LEMMA WrapOneType ==
  ASSUME NEW t \in ClassTables, NEW k \in Classes
  PROVE  WrapOne(t, k) \in ClassTables
<1>1. Resolved(t, k) \in [fn : Classes \cup {"inherited"}, wrapped : BOOLEAN]
  BY DEF Resolved, ClassTables, Classes
<1>2. Wrapper(Resolved(t, k)) \in [fn : Classes \cup {"inherited"}, wrapped : BOOLEAN]
  BY <1>1 DEF Wrapper
<1> QED BY <1>2 DEF WrapOne, ClassTables

(* The loop goes through the classes one by one.                             *)
LEMMA WrappedStepwise ==
  ASSUME inits \in ClassTables, NEW order \in Seq(Classes)
  PROVE  \E acc :
           /\ acc[0] = inits
           /\ \A i \in DOMAIN order : acc[i] = WrapOne(acc[i - 1], order[i])
           /\ acc[Len(order)] = WrapAll(order)
<1> DEFINE n == Len(order)
           h == [p \in (1 .. n) \X ClassTables |-> WrapOne(p[2], order[p[1]])]
           is(f) == f = [s \in SUBSET (1 .. n) |->
                           IF s = {} THEN inits
                           ELSE WrapOne(f[s \ {Max(s)}], order[Max(s)])]
           t == CHOOSE f : is(f)
<1>1. WrapAll(order) = t[1 .. n]
  BY DOMAIN order = 1 .. n DEF WrapAll, FoldLeft, MapThenFoldSet, WrapOne
<1>2. n \in Nat /\ \A i \in 1 .. n : order[i] \in Classes
  OBVIOUS
<1>3. h \in [(1 .. n) \X ClassTables -> ClassTables]
  BY <1>2, WrapOneType
<1>4. PICK f : FoldTable(f, n, ClassTables, inits, h)
  <2> HIDE DEF h, n
  <2> QED BY <1>2, <1>3, FoldOnInterval
<1>5. is(f)
  <2> SUFFICES ASSUME NEW s \in SUBSET (1 .. n)
               PROVE  f[s] = IF s = {} THEN inits
                             ELSE WrapOne(f[s \ {Max(s)}], order[Max(s)])
    BY <1>4 DEF FoldTable
  <2>1. CASE s = {}
    BY <1>4, <2>1 DEF FoldTable
  <2>2. CASE s # {}
    <3>1. Max(s) \in 1 .. n
      BY <1>2, <2>2, MaxInInterval
    <3>2. f[s \ {Max(s)}] \in ClassTables
      BY <1>4 DEF FoldTable
    <3> QED BY <1>4, <2>2, <3>1, <3>2 DEF FoldTable
  <2> QED BY <2>1, <2>2
<1>6. is(t)
  BY <1>5
<1>7. t[1 .. 0] = inits
  <2>1. 1 .. 0 = {} /\ {} \in SUBSET (1 .. n)
    OBVIOUS
  <2> QED BY <1>6, <2>1
<1>8. ASSUME NEW i \in 1 .. n
      PROVE  t[1 .. i] = WrapOne(t[1 .. (i - 1)], order[i])
  <2>1. 1 .. i \in SUBSET (1 .. n) /\ 1 .. i # {} /\ Max(1 .. i) = i
        /\ (1 .. i) \ {i} = 1 .. (i - 1)
    BY <1>2, IntervalPeeled
  <2> HIDE DEF t
  <2> QED BY <1>6, <2>1
<1> DEFINE acc == [i \in 0 .. n |-> t[1 .. i]]
<1>9. /\ acc[0] = inits
      /\ \A i \in DOMAIN order : acc[i] = WrapOne(acc[i - 1], order[i])
      /\ acc[n] = WrapAll(order)
  <2>1. \A i \in 0 .. n : acc[i] = t[1 .. i]
    OBVIOUS
  <2>2. \A i \in 1 .. n : i \in 0 .. n /\ i - 1 \in 0 .. n
    OBVIOUS
  <2>3. DOMAIN order = 1 .. n /\ 0 \in 0 .. n /\ n \in 0 .. n
    OBVIOUS
  <2> HIDE DEF acc, t, n
  <2> QED BY <1>1, <1>7, <1>8, <2>1, <2>2, <2>3
<1> HIDE DEF acc
<1> QED BY <1>9

(* Every class keeps the constructor it would have had, and one that the     *)
(* loop has been at, and that takes a session manager, ends up in a wrapper: *)
(* its own, or the one its parent already has.                               *)
Injected(t, done) ==
  /\ t \in ClassTables
  /\ \A k \in {"websocket", "desktop_mate", "slack"} : t[k].fn = k
  /\ \/ t["child"].fn = "inherited" /\ ~t["child"].wrapped
     \/ t["child"].fn = "desktop_mate" /\ t["child"].wrapped
  /\ ~t["slack"].wrapped
  /\ \A k \in done : k # "slack" => Resolved(t, k).wrapped

(* Wrapping one more class keeps the ones wrapped before it.                 *)
LEMMA WrapOneInjects ==
  ASSUME NEW done \in SUBSET Classes, NEW t, Injected(t, done), NEW k \in Classes
  PROVE  Injected(WrapOne(t, k), done \cup {k})
<1>1. t \in ClassTables /\ WrapOne(t, k) \in ClassTables
  BY WrapOneType DEF Injected
<1>2. \A c \in Classes : t[c] \in [fn : Classes \cup {"inherited"}, wrapped : BOOLEAN]
  BY <1>1 DEF ClassTables
<1>3. CASE k = "websocket"
  BY <1>1, <1>2, <1>3 DEF Injected, WrapOne, Resolved, Declares, Wrapper, ClassTables, Classes
<1>4. CASE k = "desktop_mate"
  BY <1>1, <1>2, <1>4 DEF Injected, WrapOne, Resolved, Declares, Wrapper, ClassTables, Classes
<1>5. CASE k = "slack"
  BY <1>1, <1>2, <1>5 DEF Injected, WrapOne, Resolved, Declares, Wrapper, ClassTables, Classes
<1>6. CASE k = "child"
  BY <1>1, <1>2, <1>6 DEF Injected, WrapOne, Resolved, Declares, Wrapper, ClassTables, Classes
<1> QED BY <1>3, <1>4, <1>5, <1>6 DEF Classes

(* Nothing is wrapped before the loop.                                       *)
LEMMA OwnInitsInjected == Injected(OwnInits, {})
  BY DEF Injected, OwnInits, ClassTables, Classes

(* A discovery order meets each of the classes.                              *)
LEMMA OrdersMeetAll ==
  ASSUME NEW order \in Orders
  PROVE  order \in Seq(Classes) /\ {order[i] : i \in DOMAIN order} = Classes
<1> DEFINE Three == Classes \ {"slack"}
<1>1. Three = {"websocket", "desktop_mate", "child"}
  BY DEF Classes
<1>2. Cardinality(Three) = 3
  <2>1. Cardinality({"websocket"}) = 1 /\ IsFiniteSet({"websocket"})
    BY FS_Singleton
  <2>2. /\ Cardinality({"websocket"} \cup {"desktop_mate"}) = 2
        /\ IsFiniteSet({"websocket"} \cup {"desktop_mate"})
    BY <2>1, FS_AddElement
  <2>3. Cardinality(({"websocket"} \cup {"desktop_mate"}) \cup {"child"}) = 3
    BY <2>2, FS_AddElement
  <2>4. ({"websocket"} \cup {"desktop_mate"}) \cup {"child"} = Three
    BY <1>1
  <2> QED BY <2>3, <2>4
<1>3. PICK f \in SetToSeqs(Three) : order = Append(f, "slack")
  BY DEF Orders
<1>4. f \in [1 .. 3 -> Three] /\ \A i, j \in 1 .. 3 : i # j => f[i] # f[j]
  BY <1>2, <1>3 DEF SetToSeqs
<1> HIDE DEF Three
<1>5. f \in Seq(Classes) /\ Len(f) = 3
  <2>1. f = [i \in 1 .. 3 |-> f[i]] /\ \A i \in 1 .. 3 : f[i] \in Classes
    BY <1>4 DEF Three
  <2> DEFINE g == [i \in 1 .. 3 |-> f[i]]
  <2>2. g \in Seq(Classes) /\ Len(g) = 3
    BY <2>1
  <2> QED BY <2>1, <2>2
<1>6. /\ order \in Seq(Classes) /\ Len(order) = 4 /\ order[4] = "slack"
      /\ order[1] = f[1] /\ order[2] = f[2] /\ order[3] = f[3]
  <2>1. f \in Seq(Classes) /\ "slack" \in Classes
    BY <1>5 DEF Classes
  <2>2. order \in Seq(Classes) /\ Len(order) = Len(f) + 1
    BY <1>3, <2>1, AppendProperties
  <2>3. order[Len(f) + 1] = "slack"
    BY <1>3, <2>1, AppendProperties
  <2>4. ASSUME NEW i \in 1 .. Len(f) PROVE order[i] = f[i]
    BY <1>3, <2>1, AppendProperties
  <2>5. Len(f) + 1 = 4 /\ 1 \in 1 .. Len(f) /\ 2 \in 1 .. Len(f) /\ 3 \in 1 .. Len(f)
    BY <1>5
  <2>6. order[1] = f[1]
    BY <2>4, <2>5
  <2>7. order[2] = f[2]
    BY <2>4, <2>5
  <2>8. order[3] = f[3]
    BY <2>4, <2>5
  <2>9. Len(order) = 4 /\ order[4] = "slack"
    BY <2>2, <2>3, <2>5
  <2> QED BY <2>2, <2>6, <2>7, <2>8, <2>9
<1>7. \A k \in Three : f[1] = k \/ f[2] = k \/ f[3] = k
  <2>1. /\ f[1] \in Three /\ f[2] \in Three /\ f[3] \in Three
        /\ f[1] # f[2] /\ f[1] # f[3] /\ f[2] # f[3]
    BY <1>4
  <2> QED BY <1>1, <2>1 DEF Three
<1>8. DOMAIN order = 1 .. 4 /\ 1 \in 1 .. 4 /\ 2 \in 1 .. 4 /\ 3 \in 1 .. 4 /\ 4 \in 1 .. 4
  BY <1>6
<1>9. ASSUME NEW k \in Classes PROVE \E i \in 1 .. 4 : order[i] = k
  <2>1. CASE k = "slack"
    BY <1>6, <1>8, <2>1
  <2>2. CASE k # "slack"
    <3>1. f[1] = k \/ f[2] = k \/ f[3] = k
      BY <1>7, <2>2 DEF Three
    <3> QED BY <1>6, <1>8, <3>1
  <2> QED BY <2>1, <2>2
<1>10. \A i \in 1 .. 4 : order[i] \in Classes
  BY <1>6, <1>8, ElementOfSeq
<1> QED BY <1>6, <1>8, <1>9, <1>10

(* The loop wraps every class if there are sessions, and none otherwise.     *)
LEMMA PatchedInjects ==
  ASSUME inits = OwnInits, NEW order \in Orders
  PROVE  Injected(Patched(order), IF env.sessions = Absent THEN {} ELSE Classes)
<1>1. CASE env.sessions = Absent
  BY <1>1, OwnInitsInjected DEF Patched
<1>2. CASE env.sessions # Absent
  <2> DEFINE n == Len(order)
             met(k) == {order[i] : i \in 1 .. k}
  <2>1. order \in Seq(Classes) /\ DOMAIN order = 1 .. n /\ n \in Nat /\ met(n) = Classes
    BY OrdersMeetAll
  <2>2. inits \in ClassTables
    BY OwnInitsInjected DEF Injected
  <2>3. PICK acc : /\ acc[0] = inits
                   /\ \A i \in DOMAIN order : acc[i] = WrapOne(acc[i - 1], order[i])
                   /\ acc[n] = WrapAll(order)
    BY <2>1, <2>2, WrappedStepwise
  <2> DEFINE S == {k \in 0 .. n : Injected(acc[k], met(k))}
  <2>4. 0 \in S
    <3>1. met(0) = {}
      OBVIOUS
    <3>2. acc[0] = OwnInits /\ 0 \in 0 .. n
      BY <2>1, <2>3
    <3>3. Injected(acc[0], met(0))
      <4> HIDE DEF met, S
      <4> QED BY <3>1, <3>2, OwnInitsInjected
    <3> QED BY <3>2, <3>3
  <2>5. ASSUME NEW i \in 1 .. n, i - 1 \in S PROVE i \in S
    <3>1. met(i) = met(i - 1) \cup {order[i]}
      <4>1. 1 .. i = (1 .. (i - 1)) \cup {i}
        OBVIOUS
      <4> QED BY <4>1
    <3>2. order[i] \in Classes /\ met(i - 1) \in SUBSET Classes
      BY <2>1
    <3>3. Injected(acc[i - 1], met(i - 1)) /\ acc[i] = WrapOne(acc[i - 1], order[i])
      BY <2>1, <2>3, <2>5
    <3>4. Injected(acc[i], met(i))
      <4> HIDE DEF met, S
      <4> QED BY <3>1, <3>2, <3>3, WrapOneInjects
    <3> QED BY <3>4
  <2>6. n \in S
    <3> HIDE DEF S, n
    <3>1. 0 .. n \subseteq S
      BY <2>1, <2>4, <2>5, IntervalByInduction
    <3> QED BY <2>1, <3>1
  <2>7. Injected(WrapAll(order), Classes)
    <3>1. Injected(acc[n], met(n))
      BY <2>6
    <3> HIDE DEF met, S
    <3> QED BY <2>1, <2>3, <3>1
  <2> QED BY <1>2, <2>7 DEF Patched
<1> QED BY <1>1, <1>2

(* What a wrapped and an unwrapped constructor do.                           *)
LEMMA Constructed ==
  ASSUME NEW t, NEW k, NEW w \in BOOLEAN, w = Resolved(t, k).wrapped
  PROVE  /\ Construct(t, k).by = Resolved(t, k).fn
         /\ Construct(t, k).manager = (env.sessions # Absent /\ (w \/ k = "websocket"))
<1> DEFINE given == env.sessions # Absent /\ (Resolved(t, k).wrapped \/ k = "websocket")
<1>1. given \in BOOLEAN
  OBVIOUS
<1>2. Construct(t, k) = [by |-> Resolved(t, k).fn, manager |-> given]
  BY DEF Construct
<1>3. given = (env.sessions # Absent /\ (w \/ k = "websocket"))
  OBVIOUS
<1> HIDE DEF given
<1>4. Construct(t, k).by = Resolved(t, k).fn /\ Construct(t, k).manager = given
  BY <1>2
<1> QED BY <1>3, <1>4

(* What the manager has built holds while the process runs; the classes are  *)
(* their own again in every process that gets to the channels.               *)
InjectionInv ==
  /\ boot \in {"down", "patched", "wiring", "channels"} => inits = OwnInits
  /\ inits \in ClassTables
  /\ InjectionExact

(* Every stage of the boot leaves the constructors as they belong to it.     *)
LEMMA InjectionStep == InjectionInv /\ [Next]_vars => InjectionInv'
<1> SUFFICES ASSUME InjectionInv, [Next]_vars PROVE InjectionInv'
  OBVIOUS
<1>0. OwnInits \in ClassTables /\ \A k \in Classes : ~OwnInits[k].wrapped
  BY OwnInitsInjected DEF Injected, OwnInits
<1>1. ASSUME NEW t \in ClassTables
      PROVE  Unwrapped(t) \in ClassTables /\ \A k \in Classes : ~Unwrapped(t)[k].wrapped
  BY DEF Unwrapped, ClassTables
<1>2. ASSUME NEW order \in Orders, InitChannels(order) PROVE InjectionInv'
  <2> DEFINE t == Patched(order)
  <2>1. inits = OwnInits /\ env' = env /\ boot' = "running"
    BY <1>2 DEF InitChannels, InjectionInv
  <2>2. Injected(t, IF env.sessions = Absent THEN {} ELSE Classes)
    BY <2>1, PatchedInjects
  <2>3. t \in ClassTables
    BY <2>2 DEF Injected
  <2>4. \A k \in Classes : built'[k] = Construct(t, k)
    BY <1>2 DEF InitChannels
  <2>5. inits' \in ClassTables /\ \A k \in Classes : ~inits'[k].wrapped
    BY <1>1, <1>2, <2>3 DEF InitChannels
  <2>6. ASSUME NEW k \in Classes
        PROVE  /\ built'[k].by = (IF k = "child" THEN "desktop_mate" ELSE k)
               /\ built'[k].manager = (env.sessions # Absent /\ k # "slack")
    <3> HIDE DEF t
    <3>1. Resolved(t, k).fn = (IF k = "child" THEN "desktop_mate" ELSE k)
      BY <2>2 DEF Injected, Resolved, Classes
    <3>2. PICK w \in BOOLEAN : w = Resolved(t, k).wrapped
      BY <2>3 DEF Resolved, ClassTables, Classes
    <3>3. /\ built'[k].by = Resolved(t, k).fn
          /\ built'[k].manager = (env.sessions # Absent /\ (w \/ k = "websocket"))
      BY <2>4, <3>2, Constructed
    <3>4. CASE env.sessions = Absent
      BY <3>1, <3>3, <3>4
    <3>5. CASE env.sessions # Absent
      <4>1. k # "slack" => w
        BY <2>2, <3>2, <3>5 DEF Injected
      <4>2. k = "slack" => ~w /\ k # "websocket"
        BY <2>2, <3>2 DEF Injected, Resolved
      <4> QED BY <3>1, <3>3, <3>5, <4>1, <4>2
    <3> QED BY <3>4, <3>5
  <2> QED BY <2>1, <2>5, <2>6 DEF InjectionInv, InjectionExact
<1>3. ASSUME NEW order \in Orders, InitChannelsRaises(order) PROVE InjectionInv'
  <2>1. inits = OwnInits /\ boot' = "failed"
    BY <1>3 DEF InitChannelsRaises, InjectionInv, Fails
  <2>2. Patched(order) \in ClassTables
    BY <2>1, PatchedInjects DEF Injected
  <2> QED BY <1>1, <1>3, <2>1, <2>2 DEF InitChannelsRaises, InjectionInv, InjectionExact
<1>4. ASSUME NEW e \in Envs, Launch(e) PROVE InjectionInv'
  BY <1>4 DEF Launch, Fails, InjectionInv, InjectionExact
<1>5. CASE HooksFactory
  BY <1>5 DEF HooksFactory, Fails, InjectionInv, InjectionExact
<1>6. CASE CliWires
  BY <1>6 DEF CliWires, InjectionInv, InjectionExact
<1>7. CASE Exit
  BY <1>0, <1>7 DEF Exit, InjectionInv, InjectionExact
<1>8. CASE UNCHANGED booted
  BY <1>8 DEF booted, InjectionInv, InjectionExact
<1> QED BY <1>2, <1>3, <1>4, <1>5, <1>6, <1>7, <1>8
    DEF Next, Run, CronFires, WatcherTicks, TurnSaved, Request, vars

(* Before the first process no class is wrapped.                             *)
LEMMA InjectionInit == Init => InjectionInv
<1> SUFFICES ASSUME Init PROVE InjectionInv
  OBVIOUS
<1>1. inits = OwnInits /\ boot = "down"
  BY DEF Init
<1>2. OwnInits \in ClassTables /\ \A k \in Classes : ~OwnInits[k].wrapped
  BY OwnInitsInjected DEF Injected, OwnInits
<1> QED BY <1>1, <1>2 DEF InjectionInv, InjectionExact

(* Whatever the order of discovery, every channel is built by the            *)
(* constructor it would have had, with the session manager if it takes one,  *)
(* and no class stays wrapped, even if upstream raises.                      *)
THEOREM InjectionIsExact == Spec => []InjectionExact
<1>1. InjectionInv => InjectionExact
  BY DEF InjectionInv
<1> QED BY <1>1, InjectionInit, InjectionStep, PTL DEF Spec

(* With the injection exact, a gateway with sessions serves what it lists:   *)
(* the channel has been given the manager that the REST surface asks.        *)
THEOREM ListedStaysServed == Spec => []ListedIsServed
<1>1. InjectionInv => ListedIsServed
  <2> SUFFICES ASSUME InjectionExact, boot = "running", env.sessions # Absent
               PROVE  ListedIsServed
    BY DEF InjectionInv, ListedIsServed
  <2> DEFINE ask(route, key) == Req(route, key, [bearer |-> "right", query |-> Absent], FALSE)
             reply(route, key, there) == Reply(TRUE, Manager, there, {}, ask(route, key))
  <2>1. Manager # Absent
    BY DEF Manager, InjectionExact, Classes
  <2>2. \A route, key : TokenValid(TRUE, ask(route, key))
    BY DEF TokenValid, Req
  <2> DEFINE list(there) == reply("list", Absent, there)
             messages(key) == reply("messages", key, store)
             after(key) == Deleted(TRUE, Manager, store, {}, ask("delete", key))
  <2>3. \A there : list(there).status = 200 /\ list(there).body = Listed(there)
    <3> SUFFICES ASSUME NEW there
                 PROVE  list(there).status = 200 /\ list(there).body = Listed(there)
      OBVIOUS
    <3> QED BY <2>1, <2>2 DEF Reply, Req
  <2>4. ASSUME NEW shown \in Listed(store) \ OddKeys
        PROVE  messages(shown).status = 200 /\ after(shown) = store \ {shown}
    <3>1. shown \in store /\ shown \in OwnKeys
      BY DEF Listed
    <3>2. \A route : Refused(Manager, ask(route, shown)) = 0
      BY <2>1, <3>1 DEF Refused, Req
    <3> QED BY <2>2, <3>1, <3>2 DEF Reply, Deleted, Req
  <2>5. \A key : Listed(store \ {key}) = Listed(store) \ {key}
    BY DEF Listed
  <2>6. /\ list(store).status = 200
        /\ \A shown \in list(store).body \ OddKeys :
             messages(shown).status = 200 /\ list(after(shown)).body = list(store).body \ {shown}
    <3> HIDE DEF list, messages, after
    <3> QED BY <2>3, <2>4, <2>5
  <2> QED BY <2>6, Zenon DEF ListedIsServed
<1> QED BY <1>1, InjectionInit, InjectionStep, PTL DEF Spec

-----------------------------------------------------------------------------
(* The shape of a process, from the invariants above: the mode is one that   *)
(* load_channel_modes accepts, and a watcher needs a run.                    *)
BootTypeInv ==
  /\ env \in Envs
  /\ mode \in {"none", "streaming", "attachment"} /\ client \in Clients \cup {NoClient}
  /\ onJob \in {"none", "composite", "cli"} /\ job \in {"absent", "on", "off"}
  /\ runs \in 0 .. MaxRuns
  /\ store \subseteq Keys

(* A process that is down has an environment of the model.                   *)
LEMMA DownType == Down \in Envs
<1>1. Down.modes \in ModeFiles
  BY DEF Down, ModeFiles
<1> QED BY <1>1 DEF Down, Envs

(* One step per action; the environment changes between processes only.      *)
LEMMA BootTypeStep ==
  WatcherInv /\ BootInv /\ BootTypeInv /\ [Next]_vars => BootTypeInv'
<1> SUFFICES ASSUME WatcherInv, BootInv, BootTypeInv, [Next]_vars PROVE BootTypeInv'
  OBVIOUS
<1>1. ASSUME NEW e \in Envs, Launch(e) PROVE BootTypeInv'
  BY <1>1 DEF Launch, BootTypeInv, assembly, life
<1>2. CASE HooksFactory
  <2>1. InstallIdle => onJob' \in {"none", "composite", "cli"} /\ job' \in {"absent", "on", "off"}
                         /\ runs' = runs
    BY DEF InstallIdle, BootTypeInv
  <2>2. CASE FactoryError(env) # "none"
    BY <1>2, <2>2 DEF HooksFactory, BootTypeInv, assembly, life
  <2>3. CASE FactoryError(env) = "none"
    <3>1. env.tts => TTSSound(env)
      BY <1>2, <2>3, FactoryErrorSound DEF HooksFactory, BootInv, BootTypeInv, Sound
    <3>2. ASSUME env.tts PROVE Lookup(env.modes) \in {"none", "streaming", "attachment"}
      <4>1. /\ env.modes.default \in {Absent, "streaming"}
            /\ env.modes.desktop_mate \in {Absent, "streaming", "attachment", "typo"}
        BY DEF BootTypeInv, Envs, ModeFiles
      <4> QED BY <3>1, <3>2, <4>1 DEF Lookup, TTSSound
    <3>3. Assemble => mode' \in {"none", "streaming", "attachment"}
                        /\ client' \in Clients \cup {NoClient}
      BY <3>2 DEF Assemble, BootTypeInv
    <3> QED BY <1>2, <2>1, <2>3, <3>3 DEF HooksFactory, BootTypeInv
  <2> QED BY <2>2, <2>3
<1>3. CASE CliWires
  BY <1>3 DEF CliWires, BootTypeInv, assembly
<1>4. ASSUME NEW order \in Orders, InitChannels(order) \/ InitChannelsRaises(order)
      PROVE  BootTypeInv'
  BY <1>4 DEF InitChannels, InitChannelsRaises, BootTypeInv, assembly, life
<1>5. CASE Run
  BY <1>5, BootAssumption DEF Run, BootTypeInv, booted, assembly
<1>6. CASE CronFires \/ WatcherTicks
  BY <1>6 DEF CronFires, WatcherTicks, BootTypeInv, booted, assembly
<1>7. ASSUME NEW key \in Keys, TurnSaved(key) PROVE BootTypeInv'
  BY <1>7 DEF TurnSaved, BootTypeInv, booted, assembly, life
<1>8. ASSUME NEW req \in Deletes, NEW raises \in {{}, Keys}, Request(req, raises)
      PROVE  BootTypeInv'
  <2>1. store' \subseteq store
    BY <1>8 DEF Request, Deleted
  <2> QED BY <1>8, <2>1 DEF Request, BootTypeInv, booted, assembly, life
<1>9. CASE Exit
  BY <1>9, BootAssumption, DownType DEF Exit, BootTypeInv
<1>10. CASE UNCHANGED vars
  BY <1>10 DEF vars, BootTypeInv, booted, assembly, life
<1> QED BY <1>1, <1>2, <1>3, <1>4, <1>5, <1>6, <1>7, <1>8, <1>9, <1>10 DEF Next

(* Type correctness, over any number of processes and crashes.               *)
THEOREM TypeCorrect == Spec => []TypeOK
<1>1. Init => BootTypeInv
  BY DownType, BootAssumption DEF Init, BootTypeInv
<1>2. Init => BootInv
  BY DEF Init, BootInv
<1>3. WatcherInv /\ InjectionInv /\ BootTypeInv => TypeOK
  <2> SUFFICES ASSUME WatcherInv, InjectionInv, BootTypeInv PROVE TypeOK
    OBVIOUS
  <2>1. watchers \in 0 .. MaxRuns
    BY BootAssumption DEF WatcherInv, BootTypeInv
  <2> QED BY <2>1 DEF WatcherInv, InjectionInv, BootTypeInv, TypeOK, ClassTables
<1> QED BY <1>1, <1>2, <1>3, WatcherInit, WatcherStep, InjectionInit, InjectionStep, BootStep,
           BootTypeStep, PTL DEF Spec
=============================================================================
