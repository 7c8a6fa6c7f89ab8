# nanobot_runtime in TLA+

nanobot_runtime adds a spoken front end (the DesktopMate WebSocket channel), text-to-speech, an idle
watcher and long-term memory to the nanobot agent framework, all inside one asyncio process. This
directory models the parts whose correctness depends on the order of events: TLA+ modules, TLC
configurations that check them on small instances, and TLAPS proofs for instances of any size.
Paths below are relative to `src/src/nanobot_runtime/`.

## The system

| Component | State it keeps | Operations | Talks to |
|---|---|---|---|
| Channel (`services/channels/desktop_mate.py`, `desktop_mate_server.py`, `desktop_mate_tts.py`) | `_chat_conn`, `_streams`, `_current_stream_id`, TTS flag and voice per chat, `?tts=` override per connection | handshake, inbound loop, attach / detach, `send`, `send_delta`, `send_tts_chunk`, `start`, `stop` | the sockets; nanobot's outbound dispatcher calls it; the TTS sink asks it |
| Image intake (`desktop_mate_image.py`) | files in the media directory | decode, abort with unlink, hand over | the inbound loop; nanobot reads the files |
| TTS hook (`services/hooks/tts/hook.py`) | a bucket per session: chunker, next sequence number, pending synthesis tasks | `on_stream`, `on_stream_end` (the barrier), `_synth_and_emit` tasks | called by nanobot's agent loop; the sink; the synthesizer |
| Sink (`LazyChannelTTSSink`), channel modes (`services/tts/modes.py`) | none of their own; a mode per channel read at boot | `is_enabled`, `send_tts_chunk` | joins hook and channel |
| Idle watcher (`services/proactive/scanner.py`) | `_cooldown_until`, `_started_at` | `scan_and_nudge` | reads nanobot's session store and locks, publishes to its inbound bus |
| Boot (`launcher.py`, `gateway.py`, `services/proactive/installer.py`, `services/tts/modes.py`) | the hooks of the agent, the patched constructors, `cron.on_job`, the cron store, the stashed starter | version check, `hooks_factory`, two install routes, the patched `AgentLoop.__init__` / `run` and `ChannelManager._init_channels` | environment, YAML files, nanobot's CLI, cron service and channel manager |
| Chunker and preprocessor (`services/tts/chunker.py`, `preprocessor.py`) | `_buffer`, `_inside_reasoning`, one pair per bucket | `feed`, `flush`, `process` | the hook |
| Long-term memory (`services/hooks/ltm/`, `clients/ltm.py`) | the wrapped `archive` | injection before a turn, saving after an archive, tool arguments | memory server over MCP |
| REST surface (`clients/desktop_mate_rest.py`) | none; the session store is nanobot's | list, messages, delete, token check | the channel's server; the injected session manager |
| Synthesizer client (`clients/irodori.py`) | default voice, directory of voices | `synthesize` | HTTP |
| Emotion mapper, error classifier, logger, environment parsing | none | pure text functions, I/O | |

Everything runs on one event loop: a coroutine is atomic between two awaits, and anything may happen
during one. What is hard here:

* a chat moves from socket to socket while frames, handlers and failing sends of the previous
  owner are still under way; `_send_frame` detaches a connection from inside another coroutine;
* one hook and one *current stream* are shared by all turns, while synthesis tasks finish in any
  order and the end marker is published before the barrier;
* aborted turns leave buckets behind, a barrier times out in the middle of a send;
* the idle watcher decides on a listing that may be stale, and its table does not survive a restart;
* `stop()` gives up after two seconds and clears state under handlers that still run;
* files are written before a hand-over that may fail, be dropped, or be cancelled;
* text arrives cut at any place, and an aborted turn leaves half a sentence (or half a thought) behind;
* a memory server may answer late, fail or never answer, inside nanobot's consolidation and every turn;
* a process starts from what earlier ones left in the cron store, and monkey patches nest and are undone.

What makes each component correct:

* **Channel**: routing tables agree with each other and with the handlers that run; a healthy owner
  loses nothing to a departed one, its flag and voice included; a muted socket stays
  silent; `stream_start` comes first; a lost link is forgotten.
* **Hook**: no task escapes the barrier of its session; numbering has no gap; no turn waits for ever; the
  end of a turn silences what is still unheard.
* **Chunker**: a turn is spoken as written, however it is cut, in whole sentences.
* **Hook + channel**: only streaming channels are spoken; once a turn is settled, nothing more of it is put on a
  socket.
* **Idle watcher**: a nudge is justified at the moment it is sent; attempts are spaced; the most recent
  session is chosen and nobody starves.
* **Boot**: a misconfiguration is loud and nothing else is; a failing factory leaves the cron store alone; an
  enabled watcher scans, once, and a disabled one never; every channel class gets its session manager and its own
  constructor back.
* **REST and voice**: answers do not depend on other channels' sessions; what is listed can be read and deleted; audio is in
  the wanted voice or there is none.
* **Memory**: what an archived chunk says is saved once, in one identity; a turn is grounded once; failures cost
  nothing but themselves.
* **Images**: the verdict is that of the first fault; what nanobot has taken stays readable; a failed turn
  leaves nothing on disk that it could have removed.

## Modules

| Module | Models | Correspondence |
|---|---|---|
| `ChatOwnership` | what `_chat_conn` and `_streams` promise | abstract: a chat has one owner, streams open under an owner and close when the owner leaves |
| `DesktopMateChannel` | the channel | one variable per dict of the code; every `await connection.send` is two steps (frame on the socket; return or failure), so `send_delta` resumes with the connection it captured |
| `SpeechBarrier` | what the hook promises | abstract: a session says sentences 0, 1, 2, ...; each is heard or silenced; the end of a turn silences the rest |
| `TTSHook` | the hook | `bucket` is `_states`, `task` the asyncio tasks with their place in `_synth_and_emit`; the answers of sink and resolver are inputs that change at any time |
| `TTSPipeline` | hook + sink + outbound bus + channel | EXTENDS the channel, INSTANCEs the hook with `Chunks` as its tasks and the sink's `is_enabled` substituted for the input; `wire` holds the audio frames that are on an open link, which a cancelled send does not call back |
| `ImageIntake` | image files | `Decode` is the loop of `_decode_images`; the hand-over awaits and may publish, raise, drop or be cancelled; a failing write may leave part of its file (`FailedWrite`) |
| `IdleScanner` | the judgment gate | `Candidates` / `SelectTarget` are `_select_target`; the clock, the sessions and their (possibly stale) listing are the environment; `ToAware` reads a host-local `updated_at` as a time of the configured zone |
| `SentenceChunker` | chunker and preprocessor under the turns of a session | text is a sequence of pieces (word, sentence end, tags, tool-call ends, asterisk); `FilterReasoning`, `DropToolCalls`, `CutAll`, `Clean` are the functions of the code; a delta may cut a tag in two |
| `LongTermMemory` | archive wrapper, injection hook, arguments hook | a record per archive call and per turn; every answer of the server is an action of its own |
| `SessionRest` | how one request is answered | `Reply` and `Deleted` over the sessions on disk; `list_sessions` reads them all before the prefix is looked at, and fails on one it cannot read |
| `GatewayBoot` | boot, then what depends on it | `boot` is how far the process has come; every environment is tried; cron store and sessions outlive the process; EXTENDS `SessionRest` |
| `*_proofs` | theorems about the module they extend | |
| `Induction` | induction and folds over naturals, for the proofs about loops | |
| `MC*` | model values, stream/chat maps, symmetry sets for TLC | |

Abstractions: outside `SentenceChunker` text is reduced to whether there is any; a frame to its kind; ids, chats, streams and
voices to model values. Calls of `send` without a stream id (plain messages with no routing effect)
are left out. `install_idle_system_job` wraps `on_job` and registers the job in one step (installer.py:85). nanobot, websockets, the cron service and the disk are modelled from how this code uses them, pessimistically where it does not
say: a failing write may leave a file, an unreadable session makes `list_sessions` raise, `updated_at` has no zone. They
are marked external in the map of `PROJECT.json`. Operators introduced by "Faulty variant" are the same
definitions with a plausible bug; they are not used by any specification and serve to confirm that
each property notices the bug.

## What the runs check

`tlc -config X.cfg MCModule.tla`; the pairs are in `PROJECT.json`.

| Run | Instance | Shows |
|---|---|---|
| `channel_routing` | 2 sockets, 2 chats with one stream each | `StreamsAttached`, `CurrentRegistered`, `OwnersServed`, `FramesFollowStart`, `HealthyOwnerKept` under takeovers, failing sends, departures and `stop()`; `ImplementsOwnership`: the channel implements `ChatOwnership` |
| `channel_policy` | a `?tts=0` socket and an ordinary one, 1 chat, messages with a flag and perhaps a voice, 1 chunk under way | `MutedSocketSilent`, `OverrideHoldsWhileOpen`, `LostConnectionForgotten`; `PolicyOfItsOwner`: under one owner a chat's flag and voice change by that owner's messages only, whoever else departs or fails late |
| `hook_barrier` | 2 sessions, 3 task slots | `LiveTasksTracked`, `SequencesContiguous`, `BarrierSettles` though a synthesis may hang, and `ImplementsBarrier`: the hook implements `SpeechBarrier` |
| `pipeline_gating` | a DesktopMate and a text session, 1 socket, 2 tasks | `TextChannelsNeverSpoken`; `NothingHandedOverLate`: no sentence is put on a socket once `on_stream_end` of its turn has returned, by timeout or not |
| `idle_gates` | 2 sessions, the configured zone ahead of the host's, quiet hours across midnight, restarts, cooldown of 4 scans | `NudgesJustified` (every gate at the moment of the nudge, the silence up to the distance of the two zones, and the most recent session is the one), `AttemptsSpaced`, `NobodyStarves` |
| `image_intake` | 2 handlers, 2 frames, every frame of up to 3 entries (cap 2), every set of failing writes (torn or not) and unlinks | `VerdictOfFirstFault` (the loop against a declarative reference), `TakenMediaReadable`, `FailedTurnsCleaned` |
| `boot` | task route, every environment, every order of channel classes, any cron store left behind, 2 voices, 3 session keys | `BootsIfSound`, `FactoryAllOrNothing`, `InjectionExact`, `DisabledNeverFires`, `OneWatcher`, `EnabledWatcherScans`; on the running gateway `ForeignSessionsUnseen`, `ListedIsServed`, `NeverAnotherVoice` |
| `chunker_stream` | turns of up to 4 pieces, cut into deltas in every way, aborted at any point | `SpokenAsWritten` (the incremental chunker against the whole text), `NothingHeldBack`, `ChunksWholeSentences`, `DirectionsUnspoken` |
| `ltm_memory` | 1 archive of up to 2 messages, 1 turn, a server that answers, fails or hangs | `ArchiveSavesOnce`, `GroundedOnce`, `OneIdentity`, `ArchiveReturns` |

Bounds, and why they are enough. Two sockets are the smallest number with a takeover, and a third would
only be another previous owner; two chats (sessions, handlers) are the smallest number in which one can
be disturbed by the other; three task slots let a bucket hold a finished, a running and a
scheduled sentence; two frames let one be cleaned up while the
other is under way. A connection object is opened once, as in the code, and a stream id is used once, so
these models end: their configurations switch deadlock checking off. `MaxTime` covers a full day, a
cooldown and a restart within it; the clock stops there, so deadlock checking is off as well. `MaxBus` = 1
makes a publisher wait where the code's queue is unbounded; the order of messages is the same, and the
cross-talk run, where two turns publish at once, has 2. `pipeline_gating` streams one turn of its DesktopMate
session, whose sentences must not be handed over after it; that none is in a later turn either is the theorem's to say.
`MaxText` = 4 pieces, with `MinChunk` = 2, hold two
sentences, a sentence that is too short next to another, a whole tag or tool call around or between words, and a
cut tag; `MaxDelta` = 3 lets one delta complete two tags. `MaxChunk` = 2 mixes what is saved with what is not, next
to the summary; `MaxIter` = 1 repeats the first iteration once and goes into one more. Archive calls
share nothing with each other or with turns, so one of each is enough. `MaxRuns` = 2 calls `run` again on the same
agent. `Skew` = 1 is half the idle timeout, so that both a nudge that is
justified and one that comes too early occur. Symmetry is used for interchangeable sockets, handlers, sessions and tasks, never in a run with liveness.

### Fairness

* `DesktopMateChannel!Fairness`: coroutines that can go on do (the event loop is fair), a lost link is
  drained by websockets, and `stop()` ends by its own `wait_for`. Nobody has to connect, send or leave.
* `TTSHook!Fairness`: `asyncio.wait` returns when the tasks are done or at its timeout; a
  task that is scheduled or whose send has returned goes on. A synthesis need never return.
* `GatewayBoot!FairSpec`: the CLI of a process that has booted runs the agent, and timers of a running loop fire.
  No process has to start, and a running one may exit.
* `LongTermMemory!FairSpec`: a request to the memory server ends somehow, one outcome being that it hangs for
  ever, and the event loop resumes `archive()` when all have ended.

## Disagreements between code and documentation

Three have a run whose one property states the documented behaviour; TLC refutes it.

| Run | What happens |
|---|---|
| `pipeline_cross_talk` | A sentence of one chat is sent to another one whose stream has become current; the live scenarios promise no cross-talk. |
| `chunker_split` | A `<think>` tag cut over two deltas is not recognized and the reasoning is spoken; chunker.py:8 says such blocks are filtered out of the stream. |
| `install_cron` | Installed through cron, as the launcher does, the watcher never scans: nanobot's CLI assigns `cron.on_job` afterwards. |

Four more contradict what a docstring, a comment or a test says, and the models have them; no property of theirs can be
stated that the code keeps, beyond what is said here:

* Voices: a departing socket takes those of its chats with it (desktop_mate.py:150, `DropChats`), so a nudge has none.
  desktop_mate_tts.py:52 and desktop_mate.py:125 promise that a session keeps its voice, for nudges in particular.
  `PolicyOfItsOwner` is about a chat that has an owner.
* Zones: `updated_at` is the host's local time without a zone and is read in the configured one (scanner.py:210,
  `ToAware`): on a host in UTC with the launcher's default, Asia/Tokyo, a session used a moment ago has been idle for nine
  hours and is nudged. Behind the host's zone, nudges come late. config/idle.py:41 promises seconds of silence, and
  config/idle.py:60 and docs/setup.md:192 give the zone to the quiet hours only. `NudgesJustified` bounds the error by the distance.
* Dropped messages: one that `_handle_message` drops without an exception, or whose handler is cancelled in it, leaves its
  files (`HandleDrops`, `HandlerCancelled`), as the unlink is in an `except Exception`. desktop_mate_server.py:95 and
  `tests/services/channels/test_desktop_mate_images.py:538` want them cleaned up. `FailedTurnsCleaned` covers the turns that
  are rejected or raise.
* Torn files: a write that fails half-way leaves a file that `_abort` does not know of (`FailedWrite`);
  `test_desktop_mate_images.py:405` promises no partial state on disk. `FailedTurnsCleaned` says that nothing else is left.

Others were seen while modelling; none has a run of its own.

Channel, hook, images and watcher:

* A send that fails makes `_send_frame` forget `?tts=0` (desktop_mate.py:151), so that messages the handler still
  reads from the lost socket are taken without it, contrary to the comment at desktop_mate.py:129.
  `OverrideHoldsWhileOpen` states what does hold: the override stays in force as long as the link is open.
* `send_delta` drops the end marker of a stream that did send text, if a disconnect purged its entry and the
  chat came back; the comment at desktop_mate.py:279 says such a marker never had text.
* Entries of `_streams` are not cleared when a new stream registers, contrary to desktop_mate.py:253; they stay until
  the chat is detached.
* A later sentence reaches the sink before an earlier one of the same bucket, as nothing orders two tasks;
  `tests/e2e/test_live_scenarios.py:133` expects increasing sequences.
* `stream_end` may go out before audio of the stream, because the end marker is published before the barrier; hook.py:8
  says the barrier prevents this, and desktop_mate.py:251 accepts it.
* A session can be nudged again within its cooldown after a restart (config/idle.py:44; the table is in memory).
* hook.py:155 ("the next turn starts clean") holds after a turn that ends; after an aborted one the next turn
  inherits the bucket: its numbers, its pending tasks and what the chunker held. `SpeechBarrier` and `carried` in
  `SentenceChunker` say exactly that.

Text, voice and boot:

* Custom reasoning tags given to `SentenceChunker` have no effect (chunker.py:106).
* A sentence end inside a tool call cuts the call before its braces arrive, and the first part is spoken: the exception in `SpokenAsWritten`.
* `TTS_REF_AUDIO` names a voice, but launcher.py:100 passes no `ref_audio_dir`, so with it set every synthesis
  yields nothing (docs/faq/env-vars.md:26).
* The voice the front end chose is stored by the channel, but launcher.py:104 passes no `reference_id_resolver`.
* A malformed rules file degrades silently to the default emoji, while a missing one is loud; a bad quiet
  hour is only noticed by the first scan. (A time zone that does not exist is loud: the scanner's constructor raises it at
  boot, `IdleError`.) The watcher's numbers are parsed even with `IDLE_ENABLED=0`, so a typo in one stops a gateway that
  has no watcher.
* An empty `LTM_URL` is said to disable long-term memory (docs/setup.md:36); the launcher still builds its hooks.

Memory and REST:

* With an image the user's message is a list, so the search uses an older utterance (injection.py:34) and the text
  next to the image is never saved. Blank utterances are saved, though injection ignores them.
* Neither the search (injection.py:84) nor the saves (consolidator.py:79) have a timeout: a server that hangs holds
  the turn, or nanobot's consolidation. `ArchiveReturns` says that nothing else does.
* One session that cannot be read, of whichever channel, makes the list of DesktopMate sessions an internal error
  (desktop_mate_rest.py:133), as far as nanobot's `list_sessions` raises on it: the exception in `ForeignSessionsUnseen`.
* A session whose chat id the path syntax refuses is listed, but its messages and its deletion answer 400
  (`OddKeys` in `ListedIsServed`).
* docs/operations.md:122 gives POST for the deletion; websockets reads only GET requests.

## What is proved

With TLAPS, for any number of connections, chats, streams, sessions, tasks, voices and keys, from the named
assumptions on the constants only (`ConstantsAssumption`, `HookAssumption`, `PipelineAssumption`, `HookDataAssumption`,
`IdleAssumption`, `BootAssumption`, `IntakeAssumption`, `MemoryAssumption`, `ChunkerAssumption`). The bounds (`MaxTime`,
`MaxImages`, `MaxChunk`, `MaxIter`, `MaxRuns`, `MaxText`, `MaxDelta`, ...) are constants like any other, so these results hold
for frames, archived chunks, turns and deltas of any length.

* `TTSPipeline_proofs`, first for `DesktopMateChannel` alone: `TypeCorrect`, `StreamsStayAttached`, `CurrentStaysRegistered`, `OwnersStayServed`,
  `PolicyStaysWithOwner`, `MutedSocketStaysSilent`, `OverrideStaysInForce`, `HealthyOwnerStaysKept`, `DeltasFollowTheStart`, `ChannelImplementsOwnership`.
  The inductive invariant `IInv` joins them, because none is inductive alone: the
  purge keeps the streams attached only if every attached chat is known; a late failing send detaches
  whatever it was given, which is harmless only as owners are served; and the silence of a muted socket
  rests on `OverrideKept`, that an open link still has its override. `DetachSafe` and `SendReturnsSafe`
  show that a detach preserves the routing part, whoever calls it. `DeltasFollowTheStart` needs `StartInv` on top: a call
  that has announced a stream still has its delta to send on the connection it captured, so the invariant says
  where every registered stream, and every call under way, has been announced. The refinement uses `DetachForgets`: the
  global purge of `_detach_connection` closes exactly the streams of the departing connection.
* `TTSHook_proofs`: `HookTypeCorrect`, `LiveTasksStayTracked`, `SequencesStayContiguous`, from `HInv`. The strengthening
  `TasksInBuckets` says that a slot is kept exactly while a bucket remembers it; without it a new
  sentence could take the slot of one still counted. `HookImplementsBarrier`: under the mapping that reads `said` off a
  bucket's counter and `unheard` off its live tasks, every step of the hook is a step of `SpeechBarrier` or
  stutters. There is a lemma per kind of step (`DispatchSays`, `TaskEndHears`, `DropSilences`), and
  `BarrierBucketStep` says that a session at its barrier still has its bucket.
* `TTSPipeline_proofs`, then for the composition: `NothingIsHandedOverLate`, `TextChannelsStaySilent`, from `PInv`. `turnOf` and
  `unsettled` are history: the turn that dispatched a task, and the turns of a session since its last `on_stream_end`
  returned. What a step hands to a socket belongs to a task that starts to emit, so it is enough that every
  task's turn is unsettled (`TasksOfUnsettledTurns`). That is not inductive alone: the turn that dispatches a task must be
  unsettled itself (`RunningTurnsUnsettled`), and when a barrier settles the turns of a session no task of it may be left.
  The latter needs that each live one is tracked by the bucket, and so has been waited for or cancelled (`LiveTasksTracked`), and
  that a slot is kept no longer than the bucket (`TasksHaveBuckets`). Nothing is claimed of frames that are on the wire by then.
* `IdleScanner_proofs`: `IdleTypeCorrect`, `AttemptsStaySpaced`, `NudgesStayJustified`, from `IdleInv`. `CooldownExact` ties the
  table to the last attempt: an entry is that attempt plus the cooldown, and a missing entry means the
  cooldown is over. That covers the entries `_is_in_cooldown` sweeps. `WindowIsQuiet` shows that the comparison of
  wrapped clock times, in either order of the two hours, is membership in the window. `NudgesStayJustified` holds for
  any two zones, with the silence it promises short by their distance.
  `NobodyIsStarved` assumes `CooldownCoversSessions`: all scans but one that a cooldown leaves room for are enough to go
  once round the other sessions. That is not a property of the code but of an operator's configuration (the defaults
  of 900 and 30 seconds, config/idle.py:43, cover 30 sessions), and with fewer scans two sessions could take turns for ever. `NobodyStarves`
  alone is not inductive. `RotationInv` adds who it was: a session passed over p times has been passed over for p
  *different* sessions (`PassedFor`), each attempted in one of the last p scans. One that is still cooling down cannot be
  chosen again (`CooldownExact`, `ScansRegular`), so the row grows by a new session each time and is bounded by their number.
* `GatewayBoot_proofs`, for either route: `TypeCorrect`, `OneWatcherOnly`, `DisabledStaysSilent`, `FailedFactoryLeavesNothing`,
  `OnlyTheSoundBoot`, `InjectionIsExact`, `ListedStaysServed`, `ForeignSessionsStayUnseen`, `NeverInAnotherVoice`. The first two follow from `WatcherInv`: neither a running
  watcher nor a job that is on says anything of the configuration by itself, so the invariant records, for each stage
  of the boot, what the factory has made of them. `FactoryErrorSound` relates
  the exception `_hooks_factory` meets first to what is wrong at all. `ReplyUnseen` is the lemma about `SessionRest`: no answer tells a store from its own part,
  but for a list that fails on a foreign session it cannot read.

  `InjectionIsExact` is about the loop over the channel classes, where one class inherits the constructor of another and
  so may find it wrapped already. `Injected(t, done)` says what the loop has made of the table when the classes in `done`
  have had their turn; `WrapOneInjects` is its step, `OrdersMeetAll` that every discovery order meets every class.
  `InjectionInv` carries the result through a start, an exception of upstream and the way back. `ListedStaysServed` rests
  on it: the REST surface asks the manager that the injection gave the channel.
* `ImageIntake_proofs`: `FirstFaultDecides` compares the loop of `_decode_images`, which writes as it goes, with the
  reference that looks for the first faulty entry (`StoredStepwise` steps through the loop, `DecodeCases` sorts its
  outcomes). `TakenMediaStaysReadable`, from `IntakeInv`: a message that
  is under way or taken has its files on disk (`Whole`), and no two messages come from one turn. Without the second part the
  unlinks of a handler might hit the files of another one's message. `FailedTurnsLeaveNothing` adds `CleanInv`: an unlink of a
  turn's `media_paths` misses no file of it, because they are all the turn has on disk, and every file is of a turn that has been read.
* `LongTermMemory_proofs`: `ArchiveSavesExactlyOnce` counts. `ToSaveCounts` shows that the loop of `_push_to_ltm` queues each
  utterance as often as the user made it, and the summary once; `ArchiveInv` that the saves of a call are always that
  queue, whatever the server answers and in whichever order. `TurnsAreGroundedOnce`, from `TurnInv`: besides that the
  block is in the first system message (`Grounding`) and the query is the latest utterance (`Asking`), it records
  that a turn which is searching has no block yet; without that the end of a second search could add one. Both must survive a
  message list that grows a system message at its head, which moves every position (`GroundedInFront`). `OnlyOneIdentity` joins the two invariants.

* `SentenceChunker_proofs`: `TurnsSpokenAsWritten`, `NothingStaysBehind`, `ChunksAreSentences`, `OnlyDirectionsUnspoken`. What the
  chunker is made of are folds, nested in one another (`CutAll` over `CutPositions`, `DropToolCalls` after
  `FilterReasoning`), and each is first turned into a lemma about one piece more or two parts put together.
  The sentences `CutAll` returns and the remainder are the buffer again (`CutKeepsText`), and nothing is left to cut
  (`CutAllDone`). `WholeInv` gives `NothingStaysBehind`, `ChunksAreSentences` and `OnlyDirectionsUnspoken`; the second is not
  inductive, as it does not say that a turn that still streams has whole chunks only.
  `SpokenInv` compares the chunker with the whole text of the turn. The reasoning
  filter may be applied part by part because `Mode`, whether it is inside a block, is all it remembers of the text so far;
  the filter of tool calls remembers nothing, so the buffer must hold no complete call (`Callless`), and a call that spans what has been cut off
  and what has not must contain the end of a sentence, which is the exception `SpokenAsWritten` makes.
  `OnlyDirectionsUnspoken` is a count (`PickCount`): before a word stand b asterisks and behind it a, and the
  code's rule of pairing them off from the left is the parity of b (`StarsParity`).

The type invariants of the channel, the hook and the watcher are theorems and are not checked by a run.

`Induction` holds what the four proofs about loops rest on. The induction theorems of the library take an operator as a
parameter, which none of the provers here can instantiate. The module states induction over sets instead: the library does give
that strict inclusion is well-founded on finite sets, from which every nonempty set of naturals has a least element
(`LeastNatural`), and from that `NaturalsByInduction`, `IntervalByInduction` and, for the community modules' folds,
`FoldOnInterval`: the table that a fold over positions is defined to choose exists, and it is filled step by step.

Only model-checked:

* the liveness properties `LostConnectionForgotten`, `BarrierSettles`, `EnabledWatcherScans` and `ArchiveReturns`: fairness
  and ENABLED are out of TLAPS's reach.

Every other property of the passing runs is a theorem as well. That the three divergences happen is for TLC's
counterexamples to show.

## Not modelled

* The emotion mapper: a table from emoji to names, read from YAML, with no effect on order or routing.
* The error classifier (nothing in the runtime calls it) and the logger.
* Newlines as ends of sentences (chunker.py:28): like the other enders they only cut.
* `_channel_from_session_key` and the mode map would let any channel listed as streaming be spoken; the runs stream
  DesktopMate sessions only.
* The contents of frames, JSON, headers and YAML; the defaults of environment variables.
* `delete_memory` of the memory client (no caller).
* The voice resolver in the pipeline: the launcher passes none, so the stored voice is never used.
* Buckets without a session key (the hook's fallback key): the nanobot fork always supplies one.

## Plan

In order, with what each adds:

1. Liveness of the idle watcher: a session silent for long enough is nudged if quiet hours leave room.
2. Pipeline: chunker and hook composed, so that text left by an aborted turn is followed to the socket; a nudge that waits
   on the inbound bus while the user speaks.
