--------------------------- MODULE LongTermMemory ---------------------------
(***************************************************************************)
(* What services/hooks/ltm does around a memory server that answers late,  *)
(* fails or never answers: the wrapper of Consolidator.archive saves what  *)
(* an archived chunk says (consolidator.py), the injection hook puts what  *)
(* a search finds into the turn's system message (injection.py), and the   *)
(* arguments hook sets the identity of the model's own calls (args.py).    *)
(***************************************************************************)
EXTENDS Naturals, Sequences, FiniteSets, SequencesExt

CONSTANTS Calls,     \* archive() calls that may be under way at once
          Turns,     \* agent turns that may be under way at once
          UserId,    \* LTM_USER_ID
          AgentId,   \* LTM_AGENT_ID
          Other,     \* what the model may pass for an identity
          MaxChunk,  \* bound: messages of an archived chunk
          MaxIter    \* bound: iterations and repeated first iterations of a turn

ASSUME MemoryAssumption == MaxChunk \in Nat /\ MaxIter \in Nat

Identity == [user |-> UserId, agent |-> AgentId]

\* "blank" is a string of blanks; "parts" is a list, as a message with an image has.
Contents == {"old", "new", "blank", "empty", "parts"}
Messages == [role : {"user"}, content : Contents \ {"new"}]
              \cup {[role |-> "assistant", content |-> "old"]}
Chunks == UNION {[1 .. n -> Messages] : n \in 0 .. MaxChunk}

VARIABLES
  archive,  \* per call: [st, chunk, saves]
  turn      \* per turn: [st, iter, fires, msgs, query, found, tool]

vars == <<archive, turn>>

Sys(c) == [role |-> "system", content |-> c, blocks |-> 0]
Msg(r, c) == [role |-> r, content |-> c, blocks |-> 0]

\* The message lists nanobot may start a turn with.
Contexts ==
  {s \o u : s \in {<<>>, <<Sys("old")>>, <<Sys("empty")>>, <<Sys("parts")>>},
            u \in {<<Msg("user", "blank")>>,
                   <<Msg("user", "old"), Msg("assistant", "old"), Msg("user", "new")>>,
                   <<Msg("user", "old"), Msg("assistant", "old"), Msg("user", "parts")>>}}

NoTool == [ltm |-> FALSE, as |-> [user |-> "missing", agent |-> "missing"]]
Idle == [st |-> "idle", iter |-> 0, fires |-> 0, msgs |-> <<>>,
         query |-> "none", found |-> FALSE, tool |-> NoTool]

Init ==
  /\ archive = [c \in Calls |-> [st |-> "idle", chunk |-> <<>>, saves |-> <<>>]]
  /\ turn = [t \in Turns |-> Idle]

-----------------------------------------------------------------------------
(* archive() *)

Unsettled(c) ==
  {i \in DOMAIN archive[c].saves : archive[c].saves[i].st \in {"running", "hung"}}

Ended == {"idle", "summary", "unsaved", "raised", "cancelled"}

\* AutoCompact or maybe_consolidate_by_tokens archives a chunk; the record c is free
\* for a new call when nothing of the last one is left.
ArchiveCalled(c, chunk) ==
  /\ archive[c].st \in Ended
  /\ Unsettled(c) = {}
  /\ archive' = [archive EXCEPT ![c] = [st |-> "inner", chunk |-> chunk, saves |-> <<>>]]
  /\ UNCHANGED turn

\* The contents _push_to_ltm saves, in the order of its list of tasks.
\* Faulty variant: whoever said it.
ToSaveOfEveryRole(chunk) ==
  LET append(tasks, m) ==
        IF m.content \notin {"empty", "parts"} THEN Append(tasks, m.content) ELSE tasks
  IN  FoldLeft(append, <<"summary">>, chunk)

ToSave(chunk) ==
  LET append(tasks, m) ==
        IF m.role = "user" /\ m.content \notin {"empty", "parts"}
        THEN Append(tasks, m.content) ELSE tasks
  IN  FoldLeft(append, <<"summary">>, chunk)

\* self._inner_archive returns a summary, None or "", or the sentinel.
InnerReturns(c, result) ==
  /\ archive[c].st = "inner"
  /\ archive' =
       IF result = "summary"
       THEN [archive EXCEPT ![c].st = "pushing",
                            ![c].saves = [i \in DOMAIN ToSave(archive[c].chunk) |->
                                            [content |-> ToSave(archive[c].chunk)[i],
                                             as |-> Identity, st |-> "running"]]]
       ELSE [archive EXCEPT ![c].st = "unsaved"]
  /\ UNCHANGED turn

InnerRaises(c) ==
  /\ archive[c].st = "inner"
  /\ archive' = [archive EXCEPT ![c].st = "raised"]
  /\ UNCHANGED turn

\* add_memory returns or raises; _safe_add swallows the exception.  The server may
\* also never answer.
SafeAdd(c, i, answer) ==
  /\ i \in DOMAIN archive[c].saves
  /\ archive[c].saves[i].st = "running"
  /\ archive' = [archive EXCEPT ![c].saves[i].st = answer]
  /\ UNCHANGED turn

\* asyncio.wait(aws) is over; archive() returns the summary.
\* Faulty variant: it waits for successful saves only.
PushDoneIfAllSaved(c) ==
  /\ archive[c].st = "pushing"
  /\ \A i \in DOMAIN archive[c].saves : archive[c].saves[i].st = "ok"
  /\ archive' = [archive EXCEPT ![c].st = "summary"]
  /\ UNCHANGED turn

PushDone(c) ==
  /\ archive[c].st = "pushing"
  /\ Unsettled(c) = {}
  /\ archive' = [archive EXCEPT ![c].st = "summary"]
  /\ UNCHANGED turn

\* The caller of archive() is cancelled; asyncio.wait leaves the saves running.
ArchiveCancelled(c) ==
  /\ archive[c].st \in {"inner", "pushing"}
  /\ archive' = [archive EXCEPT ![c].st = "cancelled"]
  /\ UNCHANGED turn

Archive(c) ==
  \/ \E chunk \in Chunks : ArchiveCalled(c, chunk)
  \/ \E r \in {"summary", "none", "(nothing)"} : InnerReturns(c, r)
  \/ InnerRaises(c)
  \/ \E i \in 1 .. (MaxChunk + 1), answer \in {"ok", "failed", "hung"} : SafeAdd(c, i, answer)
  \/ PushDone(c) \/ ArchiveCancelled(c)

-----------------------------------------------------------------------------
(* A turn's hooks *)

Positions(msgs, P(_)) == {i \in DOMAIN msgs : P(msgs[i])}
IsSystem(m) == m.role = "system"

TurnBegins(t, msgs) ==
  /\ turn[t].st = "idle"
  /\ turn' = [turn EXCEPT ![t] = [Idle EXCEPT !.st = "iterating", !.msgs = msgs]]
  /\ UNCHANGED archive

AlreadyInjected(msgs) ==
  \E i \in Positions(msgs, IsSystem) : msgs[i].content # "parts" /\ msgs[i].blocks > 0

\* _last_user_message.
LastUserMessage(msgs) ==
  LET users == Positions(msgs, LAMBDA m : m.role = "user" /\ m.content \in {"old", "new"})
  IN  IF users = {} THEN "none" ELSE msgs[Max(users)].content

Skips(t) ==
  \/ turn[t].iter # 0
  \/ AlreadyInjected(turn[t].msgs)
  \/ LastUserMessage(turn[t].msgs) = "none"

\* before_iteration up to the search, or to an early return.
\* Faulty variant: no _already_injected.
BeforeIterationUnguarded(t) ==
  /\ turn[t].st = "iterating"
  /\ turn' = IF turn[t].iter # 0 \/ LastUserMessage(turn[t].msgs) = "none"
             THEN [turn EXCEPT ![t].st = "model"]
             ELSE [turn EXCEPT ![t].st = "searching", ![t].query = LastUserMessage(turn[t].msgs)]
  /\ UNCHANGED archive

BeforeIteration(t) ==
  /\ turn[t].st = "iterating"
  /\ turn' = IF Skips(t) THEN [turn EXCEPT ![t].st = "model"]
             ELSE [turn EXCEPT ![t].st = "searching",
                               ![t].query = LastUserMessage(turn[t].msgs)]
  /\ UNCHANGED archive

\* _append_to_system_message.
WithBlock(msgs) ==
  LET sys == Positions(msgs, IsSystem)
  IN  IF sys = {} THEN <<[Sys("old") EXCEPT !.blocks = 1]>> \o msgs
      ELSE IF msgs[Min(sys)].content = "parts" THEN msgs
      ELSE [msgs EXCEPT ![Min(sys)].blocks = @ + 1, ![Min(sys)].content = "old"]

\* The search has results, or none (or not a dict); when it raises, nanobot
\* logs the hook's exception and goes on.
SearchEnds(t, found) ==
  /\ turn[t].st = "searching"
  /\ turn' = [turn EXCEPT ![t].st = "model", ![t].found = @ \/ found,
                          ![t].msgs = IF found THEN WithBlock(@) ELSE @]
  /\ UNCHANGED archive

\* before_execute_tools on the call the model has chosen.
\* Faulty variant: an identity the model has passed is kept.
ArgumentsKept(call) ==
  IF call.ltm /\ call.as.user # Other THEN [call EXCEPT !.as = Identity] ELSE call

Arguments(call) ==
  IF call.ltm THEN [call EXCEPT !.as = Identity] ELSE call

ToolCalls ==
  [ltm : BOOLEAN, as : {[user |-> "missing", agent |-> "missing"],
                        [user |-> "missing", agent |-> Other], [user |-> Other, agent |-> "missing"]}]

\* The model calls a tool and nanobot goes into the next iteration.
ToolCalled(t, call) ==
  /\ turn[t].st = "model" /\ turn[t].iter < MaxIter
  /\ turn' = [turn EXCEPT ![t].st = "iterating", ![t].iter = @ + 1, ![t].tool = Arguments(call)]
  /\ UNCHANGED archive

\* The first iteration fires once more.
FiresAgain(t) ==
  /\ turn[t].st = "model" /\ turn[t].iter = 0 /\ turn[t].fires < MaxIter
  /\ turn' = [turn EXCEPT ![t].st = "iterating", ![t].fires = @ + 1]
  /\ UNCHANGED archive

TurnEnds(t) ==
  /\ turn[t].st \in {"iterating", "searching", "model"}
  /\ turn' = [turn EXCEPT ![t] = Idle]
  /\ UNCHANGED archive

Turn(t) ==
  \/ \E msgs \in Contexts : TurnBegins(t, msgs)
  \/ BeforeIteration(t)
  \/ \E found \in BOOLEAN : SearchEnds(t, found)
  \/ \E call \in ToolCalls : ToolCalled(t, call)
  \/ FiresAgain(t) \/ TurnEnds(t)

Next == (\E c \in Calls : Archive(c)) \/ (\E t \in Turns : Turn(t))

Spec == Init /\ [][Next]_vars

\* A request that the server does not leave hanging is answered, and the event
\* loop resumes archive() then.
FairSpec ==
  /\ Spec
  /\ \A c \in Calls :
       /\ WF_vars(PushDone(c))
       /\ \A i \in 1 .. (MaxChunk + 1) :
            WF_vars(\E answer \in {"ok", "failed", "hung"} : SafeAdd(c, i, answer))

-----------------------------------------------------------------------------
(* Properties *)

\* Once archive() has returned a summary, the summary and every utterance of the user
\* in the chunk have been submitted exactly once and each save has ended: one that fails
\* costs neither another one nor the summary, and nothing else of the chunk is saved.
\* An archive that yields no summary saves nothing.
ArchiveSavesOnce ==
  \A c \in Calls :
    /\ archive[c].st = "summary" =>
         /\ Unsettled(c) = {}
         /\ \A x \in {"old", "blank"} :
              Cardinality({i \in DOMAIN archive[c].saves : archive[c].saves[i].content = x})
                = Cardinality({i \in DOMAIN archive[c].chunk :
                                 archive[c].chunk[i] = [role |-> "user", content |-> x]})
         /\ Cardinality({i \in DOMAIN archive[c].saves : archive[c].saves[i].content = "summary"}) = 1
    /\ archive[c].st \in {"unsaved", "raised"} => archive[c].saves = <<>>

\* A search asks for the latest utterance (unless that is blank or comes with an image)
\* and what it finds goes into the first system message of the turn (made, if there is
\* none) and stays there once, however often the first iteration fires and however many
\* iterations follow.  A system message that is no string is left alone.
GroundedOnce ==
  \A t \in Turns :
    LET msgs == turn[t].msgs
        sys == Positions(msgs, IsSystem)
        grounded == {i \in sys : msgs[i].blocks > 0}
        latest == msgs[Max(Positions(msgs, LAMBDA m : m.role = "user"))].content
    IN  /\ turn[t].query # "none" /\ latest \notin {"blank", "parts"} => turn[t].query = latest
        /\ \A i \in DOMAIN msgs : msgs[i].blocks <= 1
        /\ grounded = IF turn[t].found /\ msgs[Min(sys)].content # "parts" THEN {Min(sys)} ELSE {}

\* The memory server is only ever asked in the configured identity: by the saves of an
\* archive and by the tool calls of a model that passes others or none.
OneIdentity ==
  /\ \A c \in Calls : \A i \in DOMAIN archive[c].saves : archive[c].saves[i].as = Identity
  /\ \A t \in Turns : turn[t].tool.ltm => turn[t].tool.as = Identity

\* The saves hold nanobot's consolidation back only while the server leaves one of them
\* unanswered: there is no timeout, but failures do not hold it.
ArchiveReturns ==
  \A c \in Calls :
    archive[c].st = "pushing" ~>
      (archive[c].st # "pushing" \/ \E i \in Unsettled(c) : archive[c].saves[i].st = "hung")
=============================================================================
