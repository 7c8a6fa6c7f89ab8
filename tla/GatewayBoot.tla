----------------------------- MODULE GatewayBoot -----------------------------
(***************************************************************************)
(* A gateway process from the operator's configuration to the running      *)
(* agent: the patches of gateway.py, hooks_factory (launcher.py) inside    *)
(* AgentLoop.__init__, the watcher's installation                          *)
(* (services/proactive/installer.py), the channel modes                    *)
(* (services/tts/modes.py), the channel manager's injection, and what then *)
(* depends on it: the watcher, the REST surface (SessionRest), the voice.  *)
(* The cron store and the sessions outlive the process.                    *)
(***************************************************************************)
EXTENDS SessionRest, Sequences, SequencesExt

CONSTANTS Route,     \* "cron" (what launcher.py calls) or "task"
          Voices,    \* reference ids
          VoiceDirs, \* the ids with a merged_audio.mp3 in ref_audio_dir
          MaxRuns    \* bound: calls of AgentLoop.run on one agent

ASSUME BootAssumption ==
  Route \in {"cron", "task"} /\ MaxRuns \in Nat /\ VoiceDirs \subseteq SUBSET Voices

\* What TTS_MODES_PATH may hold, as far as desktop_mate is concerned.
ModeFiles ==
  [form : {"missing", "unparsable", "not a mapping", "empty", "channels not a mapping"},
   default : {Absent}, desktop_mate : {Absent}]
    \cup [form : {"mapping"}, default : {Absent, "streaming"},
          desktop_mate : {Absent, "streaming", "attachment", "typo"}]

\* The operator's configuration.  typo names a number that is none, or a time zone that
\* does not exist, if any.
Envs ==
  [version : BOOLEAN,                          \* nanobot's version is a validated one
   typo : {"none", "LTM_TOP_K", "TTS_BARRIER_TIMEOUT", "IDLE_TIMEOUT_S", "IDLE_TIMEZONE"},
   tts : BOOLEAN, rules : {"missing", "there"}, modes : ModeFiles,
   idle : BOOLEAN, cron : BOOLEAN, sessions : {Absent, "store"}]

Classes == {"websocket", "desktop_mate", "slack", "child"}

\* What TTS_REF_AUDIO may name, and what ref_audio_dir holds.  The launcher passes no
\* directory, which is as good as an empty one.
Clients == [ref : {Absent, ""} \cup Voices, dir : VoiceDirs]
NoClient == [ref |-> Absent, dir |-> {}]

VARIABLES
  env,       \* of this process, Down between processes
  boot,      \* "down", "patched", "wiring", "channels", "running" or "failed"
  error,     \* what ended the boot
  hooks,     \* AgentLoop._extra_hooks as hooks_factory leaves them
  mode,      \* the sink's lookup for desktop_mate
  client,    \* the synthesizer: default reference id and what its directory holds
  inits,     \* per channel class, its own __init__ or "inherited"
  built,     \* per channel class, how it was constructed
  onJob,     \* cron.on_job: "none", "composite" or "cli"
  job,       \* the idle-watcher job in the cron store: "absent", "on" or "off"
  fired,     \* the job has fired in this process
  starter,   \* the stashed coroutine factory
  runs,      \* calls of AgentLoop.run
  watchers,  \* watcher tasks alive
  scanning,  \* scan_and_nudge is being called
  store      \* sessions on disk

life == <<onJob, job, fired, starter, runs, watchers, scanning>>
assembly == <<hooks, mode, client>>
booted == <<env, boot, error, assembly, inits, built>>
vars == <<booted, life, store>>

Down == [version |-> TRUE, typo |-> "none", tts |-> FALSE, rules |-> "there", 
         modes |-> [form |-> "empty", default |-> Absent, desktop_mate |-> Absent],
         idle |-> FALSE, cron |-> FALSE, sessions |-> Absent]

\* "child" inherits the constructor of desktop_mate; "slack" takes no session manager.
OwnInits ==
  [k \in Classes |-> [fn |-> IF k = "child" THEN "inherited" ELSE k, wrapped |-> FALSE]]
Unbuilt == [k \in Classes |-> [by |-> "nobody", manager |-> FALSE]]

Init ==
  /\ env = Down /\ boot = "down" /\ error = "none"
  /\ hooks = {} /\ mode = "none" /\ client = NoClient /\ inits = OwnInits /\ built = Unbuilt
  /\ onJob = "none" /\ job \in {"absent", "on", "off"} /\ fired = FALSE
  /\ starter = FALSE /\ runs = 0 /\ watchers = 0 /\ scanning = FALSE
  /\ store = {}

-----------------------------------------------------------------------------
(* hooks_factory *)

\* load_channel_modes: the exception, or "none".
ModesError(f) ==
  IF f.form \in {"empty", "mapping"}
  THEN IF "typo" \in {f.default, f.desktop_mate} THEN "mode" ELSE "none"
  ELSE f.form

\* ChannelModeMap.lookup("desktop_mate"), over the defaults of the fields.
\* Faulty variant: no default for a channel that is not listed.
LookupListedOnly(f) ==
  IF f.desktop_mate = Absent /\ f.default # Absent THEN Absent ELSE "none"

Lookup(f) ==
  IF f.desktop_mate # Absent THEN f.desktop_mate
  ELSE IF f.default # Absent THEN f.default ELSE "none"

\* _build_tts_hook: the first thing that raises.
TTSError(e) ==
  CASE e.rules = "missing" -> "rules"
    [] e.modes.form = "missing" -> "modes"
    [] ModesError(e.modes) # "none" -> ModesError(e.modes)
    [] OTHER -> IF e.typo = "TTS_BARRIER_TIMEOUT" THEN e.typo ELSE "none"

\* What an enabled watcher raises before it changes anything: there is no scheduler, or
\* the constructor of the scanner finds no such time zone.
IdleError(e) ==
  IF ~e.cron THEN "cron" ELSE IF e.typo = "IDLE_TIMEZONE" THEN e.typo ELSE "none"

\* _hooks_factory: the first thing that raises.  The watcher's numbers are parsed even if
\* it is disabled.
\* Faulty variant: files are checked whether TTS is on or not.
FactoryErrorAlwaysTTS(e) ==
  CASE e.typo = "LTM_TOP_K" -> e.typo
    [] TTSError(e) # "none" -> TTSError(e)
    [] e.typo = "IDLE_TIMEOUT_S" -> e.typo
    [] OTHER -> IF e.idle THEN IdleError(e) ELSE "none"

FactoryError(e) ==
  CASE e.typo = "LTM_TOP_K" -> e.typo
    [] e.tts /\ TTSError(e) # "none" -> TTSError(e)
    [] e.typo = "IDLE_TIMEOUT_S" -> e.typo
    [] OTHER -> IF e.idle THEN IdleError(e) ELSE "none"

Fails(why) == boot' = "failed" /\ error' = why

\* run() up to the dispatch to nanobot's CLI.
Launch(e) ==
  /\ boot = "down"
  /\ env' = e
  /\ IF e.version THEN boot' = "patched" /\ UNCHANGED error ELSE Fails("version")
  /\ UNCHANGED <<assembly, inits, built, life, store>>

\* The hooks, and what _build_tts_hook gives the TTS hook.
Assemble ==
  /\ hooks' = {"ltm"} \cup IF env.tts THEN {"tts"} ELSE {}
  /\ IF env.tts
     THEN mode' = Lookup(env.modes) /\ client' \in Clients
     ELSE UNCHANGED <<mode, client>>

\* The watcher's part of _hooks_factory; a disabled one only switches off a job left
\* in the store.
\* Faulty variants: it does not; the watcher is handed to cron on both routes.
InstallIdleIfEnabled ==
  /\ onJob' = IF env.idle /\ Route = "cron" THEN "composite" ELSE onJob
  /\ job' = IF env.idle /\ Route = "cron" THEN "on" ELSE job
  /\ starter' = (env.idle /\ Route = "task")
  /\ UNCHANGED <<fired, runs, watchers, scanning>>

InstallIdleThroughCron ==
  /\ onJob' = IF env.idle THEN "composite" ELSE onJob
  /\ job' = IF env.idle THEN "on" ELSE IF env.cron /\ job # "absent" THEN "off" ELSE job
  /\ UNCHANGED <<starter, fired, runs, watchers, scanning>>

InstallIdle ==
  /\ onJob' = IF env.idle /\ Route = "cron" THEN "composite" ELSE onJob
  /\ job' = IF env.idle /\ Route = "cron" THEN "on"
            ELSE IF ~env.idle /\ env.cron /\ job # "absent" THEN "off" ELSE job
  /\ starter' = (env.idle /\ Route = "task")
  /\ UNCHANGED <<fired, runs, watchers, scanning>>

\* Faulty variant: the watcher is installed before the TTS hook is built.
HooksFactoryIdleFirst ==
  /\ boot = "patched"
  /\ InstallIdle
  /\ IF FactoryError(env) # "none"
     THEN Fails(FactoryError(env)) /\ UNCHANGED assembly
     ELSE boot' = "wiring" /\ UNCHANGED error /\ Assemble
  /\ UNCHANGED <<env, inits, built, store>>

HooksFactory ==
  /\ boot = "patched"
  /\ IF FactoryError(env) # "none"
     THEN Fails(FactoryError(env)) /\ UNCHANGED <<assembly, life>>
     ELSE boot' = "wiring" /\ UNCHANGED error /\ Assemble /\ InstallIdle
  /\ UNCHANGED <<env, inits, built, store>>

\* nanobot's cli/commands.py, if it has a cron service.
CliWires ==
  /\ boot = "wiring"
  /\ boot' = "channels"
  /\ onJob' = IF env.cron THEN "cli" ELSE onJob
  /\ UNCHANGED <<env, error, assembly, inits, built, job, fired, starter, runs, watchers,
                 scanning, store>>

-----------------------------------------------------------------------------
(* ChannelManager._init_channels *)

\* The function that cls.__init__ is.
Resolved(t, k) == IF t[k].fn = "inherited" THEN t["desktop_mate"] ELSE t[k]

\* A wrapper's own signature has no session_manager.
Declares(f) == ~f.wrapped /\ f.fn \in {"websocket", "desktop_mate"}

Wrapper(f) == [f EXCEPT !.wrapped = TRUE]

\* The first loop: each class in the order of its discovery.
\* Faulty variant: a wrapper looks up what it calls when the loop is over.
WrapAllLate(order) ==
  LET last == order[Max({i \in DOMAIN order : Declares(Resolved(inits, order[i]))})]
  IN  FoldLeft(LAMBDA t, k : IF Declares(Resolved(t, k))
                             THEN [t EXCEPT ![k] = Wrapper(Resolved(inits, last))] ELSE t,
               inits, order)

WrapAll(order) ==
  FoldLeft(LAMBDA t, k : IF Declares(Resolved(t, k))
                         THEN [t EXCEPT ![k] = Wrapper(Resolved(t, k))] ELSE t,
           inits, order)

\* The constructor that runs, and whether it is given the session manager: by a
\* wrapper, or by upstream for the built-in websocket channel.
Construct(t, k) ==
  [by |-> Resolved(t, k).fn,
   manager |-> env.sessions # Absent /\ (Resolved(t, k).wrapped \/ k = "websocket")]

\* The finally clause: the classes that were wrapped get their function back.
Unwrapped(t) == [k \in Classes |-> [t[k] EXCEPT !.wrapped = FALSE]]

\* Where "slack", which is left out, stands in the order makes no difference.
Orders == {Append(order, "slack") : order \in SetToSeqs(Classes \ {"slack"})}

Patched(order) == IF env.sessions = Absent THEN inits ELSE WrapAll(order)

InitChannels(order) ==
  /\ boot = "channels"
  /\ boot' = "running"
  /\ built' = [k \in Classes |-> Construct(Patched(order), k)]
  /\ inits' = Unwrapped(Patched(order))
  /\ UNCHANGED <<env, error, assembly, life, store>>

\* Upstream's _init_channels raises on the way.
InitChannelsRaises(order) ==
  /\ boot = "channels"
  /\ Fails("channels")
  /\ inits' = Unwrapped(Patched(order))
  /\ UNCHANGED <<env, assembly, built, life, store>>

-----------------------------------------------------------------------------
(* The running gateway *)

\* Faulty variant: no _yuri_idle_task_started.
RunSpawnsAgain ==
  /\ boot = "running" /\ runs < MaxRuns
  /\ runs' = runs + 1
  /\ watchers' = IF starter THEN watchers + 1 ELSE watchers
  /\ UNCHANGED <<booted, onJob, job, fired, starter, scanning, store>>

\* The patched run spawns the watcher once per agent.
Run ==
  /\ boot = "running" /\ runs < MaxRuns
  /\ runs' = runs + 1
  /\ watchers' = IF starter /\ runs = 0 THEN watchers + 1 ELSE watchers
  /\ UNCHANGED <<booted, onJob, job, fired, starter, scanning, store>>

\* The job is due: cron calls on_job, whatever that is by now.
CronFires ==
  /\ boot = "running" /\ runs > 0 /\ env.cron /\ job = "on"
  /\ fired' = TRUE
  /\ scanning' = (scanning \/ onJob = "composite")
  /\ UNCHANGED <<booted, onJob, job, starter, runs, watchers, store>>

WatcherTicks ==
  /\ watchers > 0
  /\ scanning' = TRUE
  /\ UNCHANGED <<booted, onJob, job, fired, starter, runs, watchers, store>>

\* IrodoriClient.synthesize: the voice of the audio, or None.
\* Faulty variant: an unknown reference falls back to the default voice.
SynthesizeOpen(c, text, ref, answered) ==
  LET effective == IF ref # Absent THEN ref ELSE c.ref
  IN  IF text = "" \/ ~answered THEN "None"
      ELSE IF effective \in c.dir THEN effective ELSE "default voice"

Synthesize(c, text, ref, answered) ==
  LET effective == IF ref # Absent THEN ref ELSE c.ref
  IN  IF text = "" \/ ~answered \/ effective \notin c.dir \cup {Absent, ""} THEN "None"
      ELSE IF effective \in c.dir THEN effective ELSE "default voice"

\* nanobot saves the session of a turn.
TurnSaved(key) ==
  /\ boot = "running"
  /\ store' = store \cup {key}
  /\ UNCHANGED <<booted, life>>

\* The channel holds a session manager if its class was given one.
Manager ==
  IF boot = "running" /\ built["desktop_mate"].manager THEN env.sessions ELSE Absent

Deletes == {req \in Requests : req.route = "delete"}

\* A request to the channel's server, of which only a delete can change anything; a
\* token is configured.
Request(req, raises) ==
  /\ boot = "running"
  /\ store' = Deleted(TRUE, Manager, store, raises, req)
  /\ UNCHANGED <<booted, life>>

\* The process ends; the next one starts from the stores.
Exit ==
  /\ boot \in {"running", "failed"}
  /\ env' = Down /\ boot' = "down" /\ error' = "none"
  /\ hooks' = {} /\ mode' = "none" /\ client' = NoClient /\ inits' = OwnInits /\ built' = Unbuilt
  /\ onJob' = "none" /\ fired' = FALSE /\ starter' = FALSE
  /\ runs' = 0 /\ watchers' = 0 /\ scanning' = FALSE
  /\ UNCHANGED <<job, store>>

Next ==
  \/ \E e \in Envs : Launch(e)
  \/ HooksFactory \/ CliWires
  \/ \E order \in Orders : InitChannels(order) \/ InitChannelsRaises(order)
  \/ Run \/ CronFires \/ WatcherTicks
  \/ \E key \in Keys : TurnSaved(key)
  \/ \E req \in Deletes, raises \in {{}, Keys} : Request(req, raises)
  \/ Exit

Spec == Init /\ [][Next]_vars

\* The CLI of a process that has booted runs the agent; timers of a running loop fire.
FairSpec == Spec /\ WF_vars(Run) /\ WF_vars(CronFires) /\ WF_vars(WatcherTicks)

-----------------------------------------------------------------------------
(* Properties *)

\* The shape of a process and of what outlives it.
TypeOK ==
  /\ env \in Envs
  /\ boot \in {"down", "patched", "wiring", "channels", "running", "failed"}
  /\ mode \in {"none", "streaming", "attachment"} /\ client \in Clients \cup {NoClient}
  /\ inits \in [Classes -> [fn : Classes \cup {"inherited"}, wrapped : BOOLEAN]]
  /\ onJob \in {"none", "composite", "cli"} /\ job \in {"absent", "on", "off"}
  /\ runs \in 0 .. MaxRuns /\ watchers \in 0 .. MaxRuns
  /\ store \subseteq Keys

\* A misconfiguration is loud and nothing else is: a process runs exactly if what the
\* operator asked for can be done.  An unvalidated nanobot, a number that is none, a file
\* that is missing or malformed, a missing scheduler or a time zone that does not exist
\* stops it.  What a disabled part would need is not consulted, but for the watcher's
\* numbers, which are parsed all the same.
BootsIfSound ==
  LET ttsSound ==
        /\ env.rules = "there" /\ env.modes.form \in {"empty", "mapping"}
        /\ "typo" \notin {env.modes.default, env.modes.desktop_mate}
        /\ env.typo # "TTS_BARRIER_TIMEOUT"
      sound ==
        /\ env.version /\ env.typo \notin {"LTM_TOP_K", "IDLE_TIMEOUT_S"}
        /\ env.tts => ttsSound
        /\ env.idle => env.cron /\ env.typo # "IDLE_TIMEZONE"
  IN  /\ boot \in {"wiring", "channels", "running"} => sound
      /\ boot = "failed" => ~sound \/ error = "channels"

\* A hooks_factory that raises leaves the persistent cron store as it was.
FactoryAllOrNothing ==
  [][boot = "patched" /\ boot' = "failed" => UNCHANGED <<job, onJob, starter>>]_vars

\* A disabled watcher's job never fires, whatever an earlier process left in the store.
DisabledNeverFires == ~env.idle => ~fired

\* However often run is called, and whatever earlier processes left in the cron store,
\* one process never has two watchers nudging past each other's cooldown tables.
OneWatcher == watchers + (IF onJob = "composite" /\ job = "on" THEN 1 ELSE 0) <= 1

\* Whatever the order in which the classes are discovered, and though one inherits the
\* constructor of another: every channel is built by the constructor it would have had,
\* each one that takes a session manager has it, and no class stays wrapped, even if
\* upstream raises.
InjectionExact ==
  /\ boot = "running" =>
       \A k \in Classes :
         /\ built[k].by = (IF k = "child" THEN "desktop_mate" ELSE k)
         /\ built[k].manager = (env.sessions # Absent /\ k # "slack")
  /\ \A k \in Classes : ~inits[k].wrapped

\* No answer of the REST surface is other than it would be without the sessions of other
\* channels, but for one: the list is an internal error while one of them is unreadable.
\* And no request removes one.
ForeignSessionsUnseen ==
  boot = "running" => \A req \in Requests, raises \in SUBSET store, token \in BOOLEAN :
    LET answer(there) == Reply(token, Manager, there, raises, req)
        foreign == store \ OwnKeys
    IN  /\ \/ answer(store) = answer(store \cap OwnKeys)
           \/ /\ req.route = "list" /\ raises \cap foreign # {}
              /\ answer(store) = Status(500)
        /\ foreign \subseteq Deleted(token, Manager, store, raises, req)

\* On a gateway with sessions, what the list shows can be read, and deleting it takes it
\* off the list and leaves the rest, but for keys that the path syntax refuses.
ListedIsServed ==
  boot = "running" /\ env.sessions # Absent =>
    LET ask(route, key) == Req(route, key, [bearer |-> "right", query |-> Absent], FALSE)
        reply(route, key, there) == Reply(TRUE, Manager, there, {}, ask(route, key))
        listed == reply("list", Absent, store)
    IN  /\ listed.status = 200
        /\ \A shown \in listed.body \ OddKeys :
             LET rest == Deleted(TRUE, Manager, store, {}, ask("delete", shown))
             IN  /\ reply("messages", shown, store).status = 200
                 /\ reply("list", Absent, rest).body = listed.body \ {shown}

\* Audio is in the voice that was asked for, by the call or else by the configuration, or
\* there is none: an id that cannot be resolved never falls back to another voice.
NeverAnotherVoice ==
  boot = "running" => \A ref \in {Absent, ""} \cup Voices, text \in {"", "text"}, answered \in BOOLEAN :
    LET voice == Synthesize(client, text, ref, answered)
        wanted == IF ref = Absent THEN client.ref ELSE ref
    IN  voice # "None" => (voice = wanted \/ (wanted \in {Absent, ""} /\ voice = "default voice"))

\* An enabled watcher of a booted process eventually scans.  The task route does what
\* install_idle_asyncio_task promises.  On the cron route it is what the setup guide says
\* of install_idle_system_job (it nudges by itself after N minutes without conversation),
\* and there it fails: the CLI has replaced the composite, as the installer's own comment
\* on the other route says.
EnabledWatcherScans == (boot = "running" /\ env.idle) ~> (scanning \/ boot = "down")
=============================================================================
