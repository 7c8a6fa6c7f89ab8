----------------------------- MODULE TTSPipeline -----------------------------
(***************************************************************************)
(* The spoken reply end to end: turns feed the TTS hook and, through       *)
(* nanobot's outbound bus, the DesktopMate channel; the hook's tasks ask   *)
(* the lazily resolved sink (LazyChannelTTSSink) whether to synthesize and *)
(* hand their chunks to whichever stream the channel considers current.    *)
(*                                                                         *)
(* Composes DesktopMateChannel and TTSHook: Chunks are the hook's tasks.   *)
(* What a send has put on an open link is on the wire, and nothing the     *)
(* sender does afterwards -- not even being cancelled -- calls it back.    *)
(* The channel exists from the start (the sink's branch for a channel that *)
(* has not been constructed yet lasts only until then), and the launcher   *)
(* passes no reference_id_resolver, so every sentence has the default      *)
(* voice.                                                                  *)
(***************************************************************************)
EXTENDS DesktopMateChannel, Naturals, Sequences

CONSTANTS Sessions,     \* session keys
          SessionChat,  \* the chat of a desktop_mate:<chat> key; None for others
          Streaming,    \* sessions whose channel has mode STREAMING
          MaxBus        \* bound on the outbound queue

ASSUME PipelineAssumption ==
  /\ SessionChat \in [Sessions -> Chats \cup {None}]
  /\ Streaming \subseteq {s \in Sessions : SessionChat[s] # None}

VARIABLES
  pc, bucket, task,   \* TTSHook's
  turnStream,         \* the stream id of the session's latest turn
  outbound,           \* nanobot's outbound queue of deltas and end markers
  wire,               \* tts_chunk frames on their way to a front end (see FrameOf)
  turnOf,             \* history: the turn (stream id) that dispatched a task
  unsettled           \* history: the session's turns since on_stream_end last
                      \* returned (more than one only if some were aborted)

delivery == <<wire, turnOf, unsettled>>
pipelineVars == <<vars, pc, bucket, task, turnStream, outbound, delivery>>

\* Faulty variant: the mode gate is missing.
IsEnabledUngated(s) == TTSEnabledForCurrentStream

\* The sink's is_enabled(session_key): mode gate, then channel readiness.
IsEnabled(s) == s \in Streaming /\ TTSEnabledForCurrentStream

Hook == INSTANCE TTSHook WITH
  Tasks   <- Chunks,
  Voices  <- {},
  sinkOn  <- [s \in Sessions |-> IsEnabled(s)],
  voiceOf <- [s \in Sessions |-> None]

\* None is no bucket and no task of the hook.
ASSUME HookDataAssumption == None \notin Hook!Bucket \cup Hook!TaskRec

BusMessage == [stream : Streams, text : BOOLEAN, end : BOOLEAN]

PipelineInit ==
  /\ Init
  /\ Hook!HookInit
  /\ turnStream = [s \in Sessions |-> None]
  /\ outbound = <<>>
  /\ wire = {}
  /\ turnOf = [t \in Chunks |-> None]
  /\ unsettled = [s \in Sessions |-> {}]

-----------------------------------------------------------------------------
(* The agent loop: each hook callback publishes first, then runs the hook *)

Publish(s, text, end) ==
  IF turnStream[s] = None THEN UNCHANGED outbound
  ELSE /\ Len(outbound) < MaxBus
       /\ outbound' = Append(outbound, [stream |-> turnStream[s], text |-> text, end |-> end])

\* Which turn the tasks belong to, once s has dispatched one or dropped its bucket.
Attribute(s) ==
  turnOf' = [t \in Chunks |-> IF task'[t] = None THEN None
                              ELSE IF task[t] = None THEN turnStream[s] ELSE turnOf[t]]

\* on_stream_end returns, or goes on to the barrier.
Settle(s) ==
  /\ unsettled' = IF pc'[s] = "idle" THEN [unsettled EXCEPT ![s] = {}] ELSE unsettled
  /\ Attribute(s)

\* A turn streams under an id of its own (an other channel's is not modelled).
TurnBegins(s) ==
  /\ Hook!TurnBegins(s)
  /\ \E st \in Streams \cup {None} :
       /\ IF SessionChat[s] = None THEN st = None
          ELSE /\ st # None
               /\ ChatOf[st] = SessionChat[s] /\ bus[st] = "fresh"
               /\ \A n \in DOMAIN outbound : outbound[n].stream # st
               /\ \A r \in Sessions : turnStream[r] # st /\ st \notin unsettled[r]
       /\ turnStream' = [turnStream EXCEPT ![s] = st]
       /\ unsettled' = [unsettled EXCEPT ![s] = @ \cup {st}]
  /\ UNCHANGED <<vars, outbound, wire, turnOf>>

TurnDelta(s, text) ==
  /\ Publish(s, TRUE, FALSE)
  /\ Hook!OnStream(s, text)
  /\ Attribute(s)
  /\ UNCHANGED <<vars, turnStream, wire, unsettled>>

TurnEnds(s) ==
  /\ Publish(s, FALSE, TRUE)
  /\ Hook!OnStreamEnd(s) \/ Hook!EndWithoutBucket(s)
  /\ Settle(s)
  /\ UNCHANGED <<vars, turnStream, wire>>

TurnAborted(s) ==
  /\ Hook!TurnAborted(s)
  /\ UNCHANGED <<vars, turnStream, outbound, delivery>>

BarrierPasses(s) ==
  /\ Hook!BarrierPasses(s)
  /\ Settle(s)
  /\ UNCHANGED <<vars, turnStream, outbound, wire>>

\* Cancelling a task ends the send it awaits, and that is no failed send; a frame
\* the send has put on the wire still arrives.
BarrierTimesOut(s) ==
  /\ Hook!BarrierTimesOut(s)
  /\ chunk' = [t \in Chunks |-> IF t \in bucket[s].pending THEN None ELSE chunk[t]]
  /\ Settle(s)
  /\ UNCHANGED <<phase, link, handler, registry, out, history, turnStream, outbound, wire>>

-----------------------------------------------------------------------------
(* nanobot's dispatcher and the channel *)

\* The next message of the bus becomes a call of send_delta.
Dispatch ==
  /\ outbound # <<>>
  /\ outbound' = Tail(outbound)
  /\ LET m == Head(outbound)
     IN  DropDelta(m.stream, m.text, m.end) \/ SendDelta(m.stream, m.text, m.end)
  /\ UNCHANGED <<pc, bucket, task, turnStream, delivery>>

ChannelStep ==
  /\ \/ Start \/ Stop \/ StopGraceful \/ StopTimesOut
     \/ \E c \in Conns : Connection(c)
     \/ DeltaResumes \/ OutboundReturns
  /\ UNCHANGED <<pc, bucket, task, turnStream, outbound, delivery>>

-----------------------------------------------------------------------------
(* The synthesis tasks *)

TaskStarts(t) == Hook!TaskStarts(t) /\ UNCHANGED <<vars, turnStream, outbound, delivery>>

FrameOf(t, call) == [conn |-> call.conn, stream |-> call.stream, session |-> task[t].session,
                     turn |-> turnOf[t], seq |-> task[t].seq]

\* The chunk is handed to the sink: it is put on a socket, and so on the wire if
\* the link is open ...
ChunkSent(t) ==
  /\ Hook!SynthReturns(t)
  /\ SendTTSChunk(t)
  /\ wire' = IF chunk'[t].sent THEN wire \cup {FrameOf(t, chunk'[t])} ELSE wire
  /\ UNCHANGED <<turnStream, outbound, turnOf, unsettled>>

\* ... or send_tts_chunk finds nobody to send it to.
ChunkDropped(t) ==
  /\ Hook!SynthReturns(t)
  /\ ~(TTSEnabledForCurrentStream /\ chatConn[ChatOf[current]] # None)
  /\ UNCHANGED <<vars, turnStream, outbound, delivery>>

EmitReturns(t) ==
  /\ Hook!EmitReturns(t)
  /\ IF chunk[t] = None THEN UNCHANGED vars ELSE TTSChunkReturns(t)
  /\ UNCHANGED <<turnStream, outbound, delivery>>

\* A frame reaches the front end, or is lost with its link.
FrameArrives ==
  /\ \E f \in wire : wire' = wire \ {f}
  /\ UNCHANGED <<vars, pc, bucket, task, turnStream, outbound, turnOf, unsettled>>

-----------------------------------------------------------------------------

PipelineNext ==
  \/ ChannelStep
  \/ Dispatch
  \/ FrameArrives
  \/ \E s \in Sessions :
       \/ TurnBegins(s) \/ TurnEnds(s) \/ TurnAborted(s)
       \/ BarrierPasses(s) \/ BarrierTimesOut(s)
       \/ \E text \in BOOLEAN : TurnDelta(s, text)
  \/ \E t \in Chunks : TaskStarts(t) \/ ChunkSent(t) \/ ChunkDropped(t) \/ EmitReturns(t)

PipelineSpec == PipelineInit /\ [][PipelineNext]_pipelineVars

-----------------------------------------------------------------------------
(* Properties *)

\* No sentence is put on a socket once on_stream_end of its turn, or of a later
\* turn of its session, has returned: neither a slow synthesis whose barrier timed
\* out nor what an aborted turn left behind speaks into what comes next.  (What
\* was put there before may still be on the wire.)
NothingHandedOverLate == [][\A f \in wire' \ wire : f.turn \in unsettled[f.session]]_pipelineVars

\* A turn of a channel that is not in STREAMING mode is never synthesized and
\* uses up no sequence number, even while a DesktopMate stream wants audio.
TextChannelsNeverSpoken ==
  /\ \A t \in Chunks : task[t] # None => task[t].session \in Streaming
  /\ \A s \in Sessions \ Streaming : bucket[s] # None => bucket[s].seq = 0

-----------------------------------------------------------------------------
(* What docs of the source say, and the code does not do *)

\* The live scenarios promise parallel chats "no cross-talk".  A chunk follows the
\* channel's current stream, which may be another chat's by the time it is ready.
AudioStaysInItsChat == \A f \in wire : ChatOf[f.stream] = SessionChat[f.session]
=============================================================================
