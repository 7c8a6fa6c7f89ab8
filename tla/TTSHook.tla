------------------------------- MODULE TTSHook -------------------------------
(***************************************************************************)
(* TTSHook (services/hooks/tts/hook.py): one hook object shared by every   *)
(* concurrent turn.  Each session has a bucket (chunker, sequence counter, *)
(* pending synthesis tasks); every speakable sentence becomes an asyncio   *)
(* task; on_stream_end(resuming=False) is the barrier that waits for the   *)
(* tasks, cancels those that outlive the timeout and drops the bucket.     *)
(*                                                                         *)
(* nanobot runs the turns of one session one after the other, so a session *)
(* key names at most one running turn.  (Turns without a key would share   *)
(* the fallback bucket; the nanobot fork always supplies one.)  A delta    *)
(* that completes several sentences behaves as several deltas that         *)
(* complete one each: nothing is awaited between two dispatches.           *)
(* on_stream_end(resuming=True) returns at once and is not an action.      *)
(***************************************************************************)
EXTENDS Naturals

CONSTANTS Sessions,   \* session keys
          Tasks,      \* bound: task slots, hence sentences a bucket may hold
          Voices,     \* reference ids a resolver may return
          None

VARIABLES
  sinkOn,   \* what sink.is_enabled(session) answers now
  voiceOf,  \* what the reference id resolver answers now (None: no voice)
  pc,       \* where each session's turn is
  bucket,   \* _states
  task      \* the synthesis tasks; a slot is free again once its bucket is gone

inputs == <<sinkOn, voiceOf>>
hookVars == <<pc, bucket, task>>
vars == <<inputs, hookVars>>

\* text: the chunker holds a remainder that flush() would return.
Bucket == [seq : Nat, pending : SUBSET Tasks, text : BOOLEAN]

TaskRec == [session : Sessions, seq : Nat, voice : Voices \cup {None},
            at : {"scheduled", "synth", "emitting", "done", "cancelled"}]

\* None is Python's None: no voice, no bucket, no task.
ASSUME HookAssumption == None \notin Voices \cup Bucket \cup TaskRec

TypeOK ==
  /\ sinkOn \in [Sessions -> BOOLEAN]
  /\ voiceOf \in [Sessions -> Voices \cup {None}]
  /\ pc \in [Sessions -> {"idle", "streaming", "barrier"}]
  /\ bucket \in [Sessions -> Bucket \cup {None}]
  /\ task \in [Tasks -> TaskRec \cup {None}]

HookInit ==
  /\ pc = [s \in Sessions |-> "idle"]
  /\ bucket = [s \in Sessions |-> None]
  /\ task = [t \in Tasks |-> None]

Init ==
  /\ sinkOn \in [Sessions -> BOOLEAN]
  /\ voiceOf \in [Sessions -> Voices \cup {None}]
  /\ HookInit

Live(t) == task[t] # None /\ task[t].at \in {"scheduled", "synth", "emitting"}

-----------------------------------------------------------------------------
(* The agent loop's side *)

TurnBegins(s) ==
  /\ pc[s] = "idle"
  /\ pc' = [pc EXCEPT ![s] = "streaming"]
  /\ UNCHANGED <<bucket, task>>

\* The turn's coroutine is cancelled or fails: on_stream_end is never called,
\* or never gets past its await.
TurnAborted(s) ==
  /\ pc[s] # "idle"
  /\ pc' = [pc EXCEPT ![s] = "idle"]
  /\ UNCHANGED <<bucket, task>>

StateFor(s) == IF bucket[s] = None THEN [seq |-> 0, pending |-> {}, text |-> FALSE]
               ELSE bucket[s]

\* _dispatch_sentence past its two early returns: the voice is resolved, the
\* next sequence number taken and the task created.
Dispatched(s, t, b) ==
  /\ sinkOn[s]
  /\ task[t] = None
  /\ task' = [task EXCEPT ![t] = [session |-> s, seq |-> b.seq, voice |-> voiceOf[s],
                                  at |-> "scheduled"]]

WithTask(b, t) == [seq |-> b.seq + 1, pending |-> b.pending \cup {t}, text |-> b.text]

\* Faulty variant: the sequence number is taken before the sink is asked.
OnStreamEagerSequence(s, text) ==
  /\ pc[s] = "streaming"
  /\ LET b == [StateFor(s) EXCEPT !.text = text]
     IN  \/ /\ bucket' = [bucket EXCEPT ![s] = [b EXCEPT !.seq = IF @ < 3 THEN @ + 1 ELSE @]]
            /\ UNCHANGED task
         \/ \E t \in Tasks :
              /\ Dispatched(s, t, b)
              /\ bucket' = [bucket EXCEPT ![s] = WithTask(b, t)]
  /\ UNCHANGED pc

\* A delta completes no sentence, or one that is not spoken (nothing
\* alphanumeric in it, or the sink says no), or one that is.
OnStream(s, text) ==
  /\ pc[s] = "streaming"
  /\ LET b == [StateFor(s) EXCEPT !.text = text]
     IN  \/ /\ bucket' = [bucket EXCEPT ![s] = b]
            /\ UNCHANGED task
         \/ \E t \in Tasks :
              /\ Dispatched(s, t, b)
              /\ bucket' = [bucket EXCEPT ![s] = WithTask(b, t)]
  /\ UNCHANGED pc

\* Dropping the bucket: its finished tasks are garbage.
DropBucket(s, tasks) ==
  /\ bucket' = [bucket EXCEPT ![s] = None]
  /\ task' = [t \in Tasks |->
                IF tasks[t] # None /\ tasks[t].session = s
                   /\ tasks[t].at \in {"done", "cancelled"}
                THEN None ELSE tasks[t]]

\* on_stream_end(resuming=False) for a turn without a bucket.
EndWithoutBucket(s) ==
  /\ pc[s] = "streaming"
  /\ bucket[s] = None
  /\ pc' = [pc EXCEPT ![s] = "idle"]
  /\ UNCHANGED <<bucket, task>>

\* Faulty variant: the bucket is dropped without waiting for its tasks.
OnStreamEndNoBarrier(s) ==
  /\ pc[s] = "streaming"
  /\ bucket[s] # None
  /\ DropBucket(s, task)
  /\ pc' = [pc EXCEPT ![s] = "idle"]

\* on_stream_end(resuming=False) up to the barrier: the remainder is flushed
\* and perhaps dispatched; with nothing pending the bucket goes at once.
OnStreamEnd(s) ==
  /\ pc[s] = "streaming"
  /\ bucket[s] # None
  /\ LET b == [bucket[s] EXCEPT !.text = FALSE]
     IN  \/ /\ b.pending = {}
            /\ DropBucket(s, task)
            /\ pc' = [pc EXCEPT ![s] = "idle"]
         \/ /\ b.pending # {}
            /\ bucket' = [bucket EXCEPT ![s] = b]
            /\ pc' = [pc EXCEPT ![s] = "barrier"]
            /\ UNCHANGED task
         \/ /\ bucket[s].text
            /\ \E t \in Tasks :
                 /\ Dispatched(s, t, b)
                 /\ bucket' = [bucket EXCEPT ![s] = WithTask(b, t)]
            /\ pc' = [pc EXCEPT ![s] = "barrier"]

\* asyncio.wait returns: every pending task is done.
BarrierPasses(s) ==
  /\ pc[s] = "barrier"
  /\ \A t \in bucket[s].pending : ~Live(t)
  /\ DropBucket(s, task)
  /\ pc' = [pc EXCEPT ![s] = "idle"]

\* Faulty variants: the tasks left are not cancelled; there is no timeout.
BarrierTimesOutLeavesTasks(s) ==
  /\ pc[s] = "barrier"
  /\ \E t \in bucket[s].pending : Live(t)
  /\ DropBucket(s, task)
  /\ pc' = [pc EXCEPT ![s] = "idle"]

BarrierNeverTimesOut(s) == FALSE /\ UNCHANGED <<pc, bucket, task>>

\* asyncio.wait times out: the tasks left are cancelled (each ends at its next
\* step without emitting anything) and the bucket is dropped all the same.
BarrierTimesOut(s) ==
  /\ pc[s] = "barrier"
  /\ \E t \in bucket[s].pending : Live(t)
  /\ DropBucket(s, [t \in Tasks |->
                      IF t \in bucket[s].pending /\ Live(t)
                      THEN [task[t] EXCEPT !.at = "cancelled"] ELSE task[t]])
  /\ pc' = [pc EXCEPT ![s] = "idle"]

-----------------------------------------------------------------------------
(* The synthesis tasks *)

Moves(t, from, to) ==
  /\ task[t] # None
  /\ task[t].at = from
  /\ task' = [task EXCEPT ![t].at = to]
  /\ UNCHANGED <<pc, bucket>>

\* The second-chance check, made when the task first runs.
TaskStarts(t) ==
  /\ task[t] # None
  /\ Moves(t, "scheduled", IF sinkOn[task[t].session] THEN "synth" ELSE "done")

\* synthesize() returns audio, or raises and the chunk goes without: either way
\* sink.send_tts_chunk is called in the same step.
SynthReturns(t) == Moves(t, "synth", "emitting")

EmitReturns(t) == Moves(t, "emitting", "done")

-----------------------------------------------------------------------------

Turn(s) ==
  \/ TurnBegins(s) \/ TurnAborted(s)
  \/ \E text \in BOOLEAN : OnStream(s, text)
  \/ EndWithoutBucket(s) \/ OnStreamEnd(s)
  \/ BarrierPasses(s) \/ BarrierTimesOut(s)

Task(t) == TaskStarts(t) \/ SynthReturns(t) \/ EmitReturns(t)

\* The sink's and the resolver's answers depend on the channel: any change.
InputsChange ==
  /\ sinkOn' \in [Sessions -> BOOLEAN]
  /\ voiceOf' \in [Sessions -> Voices \cup {None}]
  /\ UNCHANGED hookVars

Next ==
  \/ \E s \in Sessions : Turn(s) /\ UNCHANGED inputs
  \/ \E t \in Tasks : Task(t) /\ UNCHANGED inputs
  \/ InputsChange

Spec == Init /\ [][Next]_vars

\* The event loop runs tasks that can go on and asyncio.wait wakes up; a
\* synthesis may hang for ever, and nobody has to start or finish a turn.
Fairness ==
  /\ \A s \in Sessions : WF_vars((BarrierPasses(s) \/ BarrierTimesOut(s)) /\ UNCHANGED inputs)
  /\ \A t \in Tasks : WF_vars((TaskStarts(t) \/ EmitReturns(t)) /\ UNCHANGED inputs)

FairSpec == Spec /\ Fairness

-----------------------------------------------------------------------------
(* Properties *)

\* A task that can still speak is always in the pending set of its session's
\* bucket, so the next barrier of that session waits for it or cancels it, even
\* if the turn that started it was aborted; and when on_stream_end has dropped
\* the bucket, nothing more of that session is handed to the sink (a frame that
\* is on the socket by then may still arrive).
LiveTasksTracked ==
  \A t \in Tasks :
    Live(t) => /\ bucket[task[t].session] # None
               /\ t \in bucket[task[t].session].pending

\* As long as a bucket lives its sentences are numbered 0, 1, 2, ... without
\* a gap or a repeat: refused sentences take no number, timeouts reset nothing.
SequencesContiguous ==
  \A s \in Sessions : bucket[s] # None =>
    LET b == bucket[s]
    IN  /\ \A t \in b.pending : task[t] # None /\ task[t].session = s
        /\ \A t, u \in b.pending : task[t].seq = task[u].seq => t = u
        /\ \A t \in b.pending : task[t].seq < b.seq
        /\ \A n \in 0 .. (b.seq - 1) : \E t \in b.pending : task[t].seq = n

\* A turn never waits at the barrier for ever, whatever the synthesizer does,
\* and the sentences it waited for are settled when it stops waiting.
BarrierSettles ==
  \A s \in Sessions :
    pc[s] = "barrier" ~>
      pc[s] # "barrier" /\ (\A t \in Tasks : Live(t) => task[t].session # s \/ bucket[s] # None)

\* How many sentences of the session are numbered, and which a listener may
\* still hear.
Said(s) == IF bucket[s] = None THEN 0 ELSE bucket[s].seq

Unheard(s) == {task[t].seq : t \in {u \in Tasks : Live(u) /\ task[u].session = s}}

TalkingNow == {s \in Sessions : pc[s] # "idle"}

SaidNow == [s \in Sessions |-> Said(s)]

UnheardNow == [s \in Sessions |-> Unheard(s)]

Barrier == INSTANCE SpeechBarrier
             WITH talking <- TalkingNow, said <- SaidNow, unheard <- UnheardNow

\* Buckets, tasks, cancellations and timeouts implement the barrier protocol: in
\* particular a sentence left over by an aborted turn keeps its number, is heard
\* at most once, and is behind the barrier of the turn that follows.
ImplementsBarrier == Barrier!Spec
=============================================================================
