------------------------- MODULE DesktopMateChannel -------------------------
(***************************************************************************)
(* The DesktopMate WebSocket channel: which connection serves which chat,  *)
(* which streams are registered, which one is current, and the TTS policy  *)
(* attached to chats and sockets (services/channels/desktop_mate.py,       *)
(* desktop_mate_server.py, desktop_mate_tts.py).                           *)
(*                                                                         *)
(* Everything runs on one asyncio loop, so a handler is atomic from one    *)
(* await to the next.  Every `await connection.send` is two steps: the     *)
(* frame is put on the socket, and later the send returns, or raises       *)
(* because the link is no longer open, in which case _send_frame detaches  *)
(* the connection it was given -- perhaps no longer the chat's.            *)
(*                                                                         *)
(* A dict is a total function with None or "unset" where a key is absent.  *)
(***************************************************************************)

CONSTANTS Conns,      \* connection objects; each is opened at most once
          Chats,      \* chat ids
          Streams,    \* nanobot stream ids
          ChatOf,     \* the chat nanobot streams a given stream id to
          Voices,     \* reference ids the front end may choose
          UrlTTS,     \* the ?tts= value each connection is opened with
          Inbound,    \* values of the tts_enabled field of inbound envelopes
          Chunks,     \* concurrent send_tts_chunk calls
          None

Flags == {"on", "off", "unset"}

ASSUME ConstantsAssumption ==
  /\ ChatOf \in [Streams -> Chats]
  /\ UrlTTS \in [Conns -> Flags]
  /\ Inbound \subseteq {"on", "off"}
  /\ None \notin Conns \cup Streams \cup Voices
  /\ Conns \cap {"never", "moved"} = {}

VARIABLES
  phase,      \* lifecycle of the server: start() and stop()
  link,       \* the WebSocket itself, as the channel can observe it
  handler,    \* where each connection's handler coroutine is
  chatConn,   \* _chat_conn
  ttsChat,    \* _tts_enabled_per_chat
  refChat,    \* _reference_id_per_chat
  ttsConn,    \* _tts_enabled_per_conn
  streams,    \* keys of _streams; the chat of an entry is ChatOf of its key
  current,    \* _current_stream_id
  out,        \* the dispatcher's call of send / send_delta awaiting a frame
  chunk,      \* the send_tts_chunk calls awaiting their frame
  bus,        \* history: what nanobot has sent so far for each stream
  home        \* history: the open connection a stream's last start was sent to,
              \* until its chat moves to another one

registry == <<chatConn, ttsChat, refChat, ttsConn, streams, current>>
history  == <<bus, home>>
vars     == <<phase, link, handler, registry, out, chunk, history>>

OutCall   == [conn : Conns, stream : Streams, frame : {"start", "delta", "end"},
              then : {"nothing", "delta", "end"}, sent : BOOLEAN]
ChunkCall == [conn : Conns, stream : Streams, sent : BOOLEAN]

TypeOK ==
  /\ phase \in {"down", "up", "stopping", "stopped", "aborted"}
  /\ link \in [Conns -> {"new", "open", "draining", "closed"}]
  /\ handler \in [Conns -> {"new", "sending", "loop", "handling", "done"}]
  /\ chatConn \in [Chats -> Conns \cup {None}]
  /\ ttsChat \in [Chats -> Flags]
  /\ refChat \in [Chats -> Voices \cup {None}]
  /\ ttsConn \in [Conns -> Flags]
  /\ streams \in SUBSET Streams
  /\ current \in Streams \cup {None}
  /\ out \in OutCall \cup {None}
  /\ chunk \in [Chunks -> ChunkCall \cup {None}]
  /\ bus \in [Streams -> {"fresh", "text", "over"}]
  /\ home \in [Streams -> Conns \cup {"never", "moved"}]

Init ==
  /\ phase = "down"
  /\ link = [c \in Conns |-> "new"]
  /\ handler = [c \in Conns |-> "new"]
  /\ chatConn = [ch \in Chats |-> None]
  /\ ttsChat = [ch \in Chats |-> "unset"]
  /\ refChat = [ch \in Chats |-> None]
  /\ ttsConn = [c \in Conns |-> "unset"]
  /\ streams = {}
  /\ current = None
  /\ out = None
  /\ chunk = [k \in Chunks |-> None]
  /\ bus = [s \in Streams |-> "fresh"]
  /\ home = [s \in Streams |-> "never"]

-----------------------------------------------------------------------------
(* Connection bookkeeping *)

\* A per-chat dict without the keys of the chats connection c serves.
WithoutChatsOf(c, dict, absent) ==
  [ch \in Chats |-> IF chatConn[ch] = c THEN absent ELSE dict[ch]]

\* Faulty variants: nothing is purged; the current stream is not reset; every
\* stream is purged.
PurgeNothing == UNCHANGED <<streams, current>>

PurgeKeepsCurrent ==
  /\ streams' = {s \in streams : chatConn'[ChatOf[s]] # None}
  /\ UNCHANGED current

PurgeEverything == streams' = {} /\ current' = None

\* The entries of every chat nobody serves any more, whoever served it.
PurgeStreams ==
  /\ streams' = {s \in streams : chatConn'[ChatOf[s]] # None}
  /\ current' = IF current \in streams \ streams' THEN None ELSE current

\* Faulty variant: the policy dicts are cleared instead of popped from.
DropChatsClearsPolicies(c) ==
  /\ chatConn' = WithoutChatsOf(c, chatConn, None)
  /\ ttsChat' = [ch \in Chats |-> "unset"]
  /\ refChat' = [ch \in Chats |-> None]

DropChats(c) ==
  /\ chatConn' = WithoutChatsOf(c, chatConn, None)
  /\ ttsChat' = WithoutChatsOf(c, ttsChat, "unset")
  /\ refChat' = WithoutChatsOf(c, refChat, None)

\* Faulty variant: every override goes with the first socket that leaves.
DetachForgetsOverrides(c) ==
  /\ DropChats(c)
  /\ ttsConn' = [d \in Conns |-> "unset"]
  /\ PurgeStreams

DetachConnection(c) ==
  /\ DropChats(c)
  /\ ttsConn' = [ttsConn EXCEPT ![c] = "unset"]
  /\ PurgeStreams

\* `await connection.send` comes back: normally if the frame was put on an
\* open link, with an exception if the link is not open any more.
SendReturns(c, sent) ==
  \/ sent /\ UNCHANGED registry
  \/ link[c] # "open" /\ DetachConnection(c)

-----------------------------------------------------------------------------
(* The effective TTS policy *)

\* Faulty variant: the flag of the last message wins over the socket's override.
TTSChatFlagFirst(ch) ==
  LET conn == chatConn[ch]
  IN  IF ttsChat[ch] # "unset" THEN ttsChat[ch] = "on"
      ELSE conn = None \/ ttsConn[conn] # "off"

TTSEnabledForChat(ch) ==
  LET conn == chatConn[ch]
      override == IF conn # None THEN ttsConn[conn] ELSE "unset"
  IN  IF override # "unset" THEN override = "on" ELSE ttsChat[ch] # "off"

TTSEnabledForCurrentStream ==
  /\ current # None
  /\ current \in streams
  /\ TTSEnabledForChat(ChatOf[current])

-----------------------------------------------------------------------------
(* Server lifecycle and the inbound loop *)

Start ==
  /\ phase = "down"
  /\ phase' = "up"
  /\ UNCHANGED <<link, handler, registry, out, chunk, history>>

\* Token and client id accepted: the URL override is recorded and the ready
\* frame is put on the socket.
HandshakeAccepted(c) ==
  /\ phase = "up"
  /\ handler[c] = "new"
  /\ link' = [link EXCEPT ![c] = "open"]
  /\ handler' = [handler EXCEPT ![c] = "sending"]
  /\ ttsConn' = [ttsConn EXCEPT ![c] = UrlTTS[c]]
  /\ UNCHANGED <<phase, chatConn, ttsChat, refChat, streams, current>>
  /\ UNCHANGED <<out, chunk, history>>

\* Bad token or client id: close(4003) and return before any bookkeeping.
HandshakeRejected(c) ==
  /\ phase = "up"
  /\ handler[c] = "new"
  /\ link' = [link EXCEPT ![c] = "closed"]
  /\ handler' = [handler EXCEPT ![c] = "done"]
  /\ UNCHANGED <<phase, registry, out, chunk, history>>

\* The handler's own frame (ready or image_rejected) has been sent, or not.
\* Either way it goes (back) to reading the socket.
HandlerSendReturns(c) ==
  /\ handler[c] = "sending"
  /\ SendReturns(c, TRUE)
  /\ handler' = [handler EXCEPT ![c] = "loop"]
  /\ UNCHANGED <<phase, link, out, chunk, history>>

CanRead(c) == handler[c] = "loop" /\ link[c] \in {"open", "draining"}

\* An accepted `message` (or `new_chat`, whose fresh id is one of Chats):
\* attach, cache the flags, and call _handle_message.
InboundMessage(c, ch, flag, voice) ==
  /\ CanRead(c)
  /\ chatConn' = [chatConn EXCEPT ![ch] = c]
  /\ ttsChat' = [ttsChat EXCEPT ![ch] = flag]
  /\ refChat' = [refChat EXCEPT ![ch] = voice]
  /\ handler' = [handler EXCEPT ![c] = "handling"]
  /\ home' = [s \in Streams |-> IF ChatOf[s] = ch /\ s \in streams /\ home[s] # c
                               THEN "moved" ELSE home[s]]
  /\ UNCHANGED <<phase, link, ttsConn, streams, current, out, chunk, bus>>

\* _handle_message returned, or raised and was logged.
MessageHandled(c) ==
  /\ handler[c] = "handling"
  /\ handler' = [handler EXCEPT ![c] = "loop"]
  /\ UNCHANGED <<phase, link, registry, out, chunk, history>>

\* An inbound whose images are rejected never reaches _attach.
ImageRejected(c) ==
  /\ CanRead(c)
  /\ handler' = [handler EXCEPT ![c] = "sending"]
  /\ UNCHANGED <<phase, link, registry, out, chunk, history>>

\* Faulty variant: no finally clause.
HandlerExitNoFinally(c) ==
  /\ handler[c] = "loop"
  /\ handler' = [handler EXCEPT ![c] = "done"]
  /\ link' = [link EXCEPT ![c] = "closed"]
  /\ UNCHANGED <<phase, registry, out, chunk, history>>

\* The loop ends because the socket is exhausted, or raises; the handler's
\* finally clause detaches the connection and websockets closes it.
HandlerExit(c) ==
  /\ handler[c] = "loop"
  /\ DetachConnection(c)
  /\ handler' = [handler EXCEPT ![c] = "done"]
  /\ link' = [link EXCEPT ![c] = "closed"]
  /\ UNCHANGED <<phase, out, chunk, history>>

\* The peer closes, the ping times out, or stop() closes the sockets: sends
\* fail from now on, but messages already received can still be read.
LinkLost(c) ==
  /\ link[c] = "open"
  /\ link' = [link EXCEPT ![c] = "draining"]
  /\ UNCHANGED <<phase, handler, registry, out, chunk, history>>

LinkDrained(c) ==
  /\ link[c] = "draining"
  /\ link' = [link EXCEPT ![c] = "closed"]
  /\ UNCHANGED <<phase, handler, registry, out, chunk, history>>

\* stop() sets the event; runner() leaves the `async with serve` block, which
\* closes the sockets and waits for the handlers.
Stop ==
  /\ phase = "up"
  /\ phase' = "stopping"
  /\ UNCHANGED <<link, handler, registry, out, chunk, history>>

\* Faulty variant: stop() forgets the stream registry.
StopKeepsStreams(outcome) ==
  /\ phase = "stopping"
  /\ phase' = outcome
  /\ chatConn' = [ch \in Chats |-> None]
  /\ UNCHANGED <<link, handler, ttsChat, refChat, ttsConn, streams, current>>
  /\ UNCHANGED <<out, chunk, history>>

\* stop() clears the routing state, but neither the per-chat nor the per-socket
\* TTS entries.
StopClears(outcome) ==
  /\ phase = "stopping"
  /\ phase' = outcome
  /\ chatConn' = [ch \in Chats |-> None]
  /\ streams' = {}
  /\ current' = None
  /\ UNCHANGED <<link, handler, ttsChat, refChat, ttsConn, out, chunk, history>>

\* The server task ended: every handler has run its finally clause.
StopGraceful ==
  /\ \A c \in Conns : handler[c] \in {"new", "done"}
  /\ StopClears("stopped")

\* wait_for gave up after 2 s and cancelled the server task; handlers linger.
StopTimesOut ==
  /\ \E c \in Conns : handler[c] \notin {"new", "done"}
  /\ StopClears("aborted")

-----------------------------------------------------------------------------
(* Outbound: one dispatcher task calls send and send_delta in turn *)

Register(s) ==
  /\ streams' = streams \cup {s}
  /\ current' = s
  /\ UNCHANGED <<chatConn, ttsChat, refChat, ttsConn>>

\* A frame is put on connection c; only an open link carries it.
PutFrame(c, s, frame, then) ==
  /\ out' = [conn |-> c, stream |-> s, frame |-> frame, then |-> then,
             sent |-> link[c] = "open"]
  /\ home' = IF frame = "start" /\ link[c] = "open" THEN [home EXCEPT ![s] = c]
             ELSE home

\* What nanobot sends for a stream: text deltas, then one terminal marker.
Feeds(s, text, end) ==
  /\ bus[s] # "over"
  /\ text \/ end
  /\ bus' = [bus EXCEPT ![s] = IF end THEN "over" ELSE "text"]

SkipsEnd(s, text, end) == ~text /\ end /\ s \notin streams

\* send_delta with no connection for the chat, or for the end of a stream that
\* is not registered and carries no text: nothing is sent.
DropDelta(s, text, end) ==
  /\ out = None
  /\ chatConn[ChatOf[s]] = None \/ SkipsEnd(s, text, end)
  /\ Feeds(s, text, end)
  /\ UNCHANGED <<phase, link, handler, registry, out, chunk, home>>

\* Faulty variant: a new stream is registered but not announced.
SendDeltaUnannounced(s, text, end) ==
  LET conn == chatConn[ChatOf[s]]
  IN  /\ out = None
      /\ conn # None
      /\ ~SkipsEnd(s, text, end)
      /\ Feeds(s, text, end)
      /\ IF s \in streams THEN UNCHANGED registry ELSE Register(s)
      /\ PutFrame(conn, s, IF end THEN "end" ELSE "delta", "nothing")
      /\ UNCHANGED <<phase, link, handler, chunk>>

\* send_delta up to its first await.  An unknown stream is registered, becomes
\* current, and its stream_start goes out before the frame for the text.
SendDelta(s, text, end) ==
  LET conn == chatConn[ChatOf[s]]
      frame == IF end THEN "end" ELSE "delta"
  IN  /\ out = None
      /\ conn # None
      /\ ~SkipsEnd(s, text, end)
      /\ Feeds(s, text, end)
      /\ IF s \in streams
         THEN /\ PutFrame(conn, s, frame, "nothing")
              /\ UNCHANGED registry
         ELSE /\ Register(s)
              /\ PutFrame(conn, s, "start", frame)
      /\ UNCHANGED <<phase, link, handler, chunk>>

\* The awaited frame went out or failed; send_delta goes on to the frame for
\* the text on the connection it captured, whoever serves the chat now.
DeltaResumes ==
  /\ out # None
  /\ out.then # "nothing"
  /\ SendReturns(out.conn, out.sent)
  /\ PutFrame(out.conn, out.stream, out.then, "nothing")
  /\ UNCHANGED <<phase, link, handler, chunk, bus>>

OutboundReturns ==
  /\ out # None
  /\ out.then = "nothing"
  /\ SendReturns(out.conn, out.sent)
  /\ out' = None
  /\ UNCHANGED <<phase, link, handler, chunk, history>>

\* send() with _stream_start: registers even a known stream id again.
SendStreamStart(s) ==
  /\ out = None
  /\ chatConn[ChatOf[s]] # None
  /\ bus[s] # "over"
  /\ Register(s)
  /\ PutFrame(chatConn[ChatOf[s]], s, "start", "nothing")
  /\ UNCHANGED <<phase, link, handler, chunk, bus>>

\* send() with _stream_end.  (With neither marker -- a tool hop -- send()
\* returns without touching anything.)
SendStreamEnd(s) ==
  /\ out = None
  /\ chatConn[ChatOf[s]] # None
  /\ Feeds(s, FALSE, TRUE)
  /\ PutFrame(chatConn[ChatOf[s]], s, "end", "nothing")
  /\ UNCHANGED <<phase, link, handler, registry, chunk>>

-----------------------------------------------------------------------------
(* TTS delivery: called from the hook's synthesis tasks *)

\* send_tts_chunk goes to whichever stream is current when it is called.
SendTTSChunk(k) ==
  /\ chunk[k] = None
  /\ TTSEnabledForCurrentStream
  /\ chatConn[ChatOf[current]] # None
  /\ LET conn == chatConn[ChatOf[current]]
     IN  chunk' = [chunk EXCEPT ![k] = [conn |-> conn, stream |-> current,
                                        sent |-> link[conn] = "open"]]
  /\ UNCHANGED <<phase, link, handler, registry, out, history>>

TTSChunkReturns(k) ==
  /\ chunk[k] # None
  /\ SendReturns(chunk[k].conn, chunk[k].sent)
  /\ chunk' = [chunk EXCEPT ![k] = None]
  /\ UNCHANGED <<phase, link, handler, out, history>>

-----------------------------------------------------------------------------

Connection(c) ==
  \/ HandshakeAccepted(c) \/ HandshakeRejected(c)
  \/ HandlerSendReturns(c) \/ MessageHandled(c)
  \/ ImageRejected(c) \/ HandlerExit(c)
  \/ LinkLost(c) \/ LinkDrained(c)
  \/ \E ch \in Chats, flag \in Inbound, voice \in Voices \cup {None} :
       InboundMessage(c, ch, flag, voice)

Outbound ==
  \/ \E s \in Streams, text, end \in BOOLEAN :
       DropDelta(s, text, end) \/ SendDelta(s, text, end)
  \/ \E s \in Streams : SendStreamStart(s) \/ SendStreamEnd(s)
  \/ DeltaResumes
  \/ OutboundReturns

Delivery(k) == SendTTSChunk(k) \/ TTSChunkReturns(k)

Next ==
  \/ Start \/ Stop \/ StopGraceful \/ StopTimesOut
  \/ \E c \in Conns : Connection(c)
  \/ Outbound
  \/ \E k \in Chunks : Delivery(k)

Spec == Init /\ [][Next]_vars

\* The event loop runs every coroutine that can go on, a lost link is drained,
\* and wait_for bounds stop().  Nobody has to connect, send or disconnect.
HandlerProgress(c) ==
  HandlerSendReturns(c) \/ MessageHandled(c) \/ (link[c] = "closed" /\ HandlerExit(c))

Fairness ==
  /\ WF_vars(StopGraceful \/ StopTimesOut)
  /\ WF_vars(DeltaResumes \/ OutboundReturns)
  /\ \A k \in Chunks : WF_vars(TTSChunkReturns(k))
  /\ \A c \in Conns : WF_vars(HandlerProgress(c)) /\ WF_vars(LinkDrained(c))

FairSpec == Spec /\ Fairness

-----------------------------------------------------------------------------
(* Properties *)

Served(c) == handler[c] \in {"sending", "loop", "handling"}

\* A registered stream always has a connection to go to: whatever mix of
\* takeovers, failed sends, departures and stop() led here, no entry of
\* _streams points at a chat that _chat_conn has forgotten.
StreamsAttached == \A s \in streams : chatConn[ChatOf[s]] # None

\* _current_stream_id never outlives its entry in _streams, so a sentence is
\* never routed by a stream that a disconnect has purged.
CurrentRegistered == current # None => current \in streams

\* No chat, and no ?tts= override, survives the handler of its connection: a
\* late failing send or a lingering message cannot leave a route to a socket
\* nobody reads (nor an id() entry for a later object to inherit).
OwnersServed ==
  /\ \A ch \in Chats : chatConn[ch] # None => Served(chatConn[ch])
  /\ \A c \in Conns : ttsConn[c] # "unset" => Served(c)

\* The TTS flag and the voice of a chat change hands only with the chat, and
\* under one owner only by a message that owner sends: the departure of another
\* socket that once served the chat, its late failing send, and stop() leave
\* both alone.
Speaks(c) == handler[c] = "loop" /\ handler'[c] = "handling"

KeepsPolicy ==
  \A ch \in Chats :
    LET c == chatConn[ch]
    IN  c # None /\ chatConn'[ch] = c /\ ~Speaks(c)
        => ttsChat'[ch] = ttsChat[ch] /\ refChat'[ch] = refChat[ch]

PolicyOfItsOwner == [][KeepsPolicy]_vars

\* A socket opened with ?tts=0 is never sent a tts_chunk, whatever its messages
\* ask for and whichever chats it takes over.
MutedSocketSilent ==
  \A k \in Chunks :
    chunk[k] # None /\ chunk[k].sent => UrlTTS[chunk[k].conn] # "off"

\* As long as its link is open a socket opened with ?tts=0 keeps every chat it
\* serves from being synthesized: other sockets' departures and failing sends,
\* and its own messages with tts_enabled set, leave its override alone.
OverrideHoldsWhileOpen ==
  current # None /\ chatConn[ChatOf[current]] # None
    => LET c == chatConn[ChatOf[current]]
       IN  UrlTTS[c] = "off" /\ link[c] = "open" => ~TTSEnabledForCurrentStream

\* No socket is sent a delta of a stream before that stream's stream_start, as
\* long as the chat has not changed sockets under the stream: purging, coming
\* back and registering again included.
FramesFollowStart ==
  out # None /\ out.frame = "delta" /\ out.sent /\ home[out.stream] # "moved"
    => home[out.stream] = out.conn

\* While its link is open and its handler runs, a connection loses a chat only
\* to another connection and a stream not at all, except to stop(): the
\* departure of a previous owner, or its late failing send, takes nothing away.
KeepsHealthyOwner ==
  \A ch \in Chats :
    LET c == chatConn[ch]
    IN  c # None /\ link[c] = "open" /\ handler'[c] # "done" /\ phase' = phase
        => /\ chatConn'[ch] # None
           /\ \A s \in streams : ChatOf[s] = ch => s \in streams'

HealthyOwnerKept == [][KeepsHealthyOwner]_vars

Lost(c) == link[c] \in {"draining", "closed"}

Forgotten(c) ==
  handler[c] = "done" /\ ttsConn[c] = "unset" /\ \A ch \in Chats : chatConn[ch] # c

\* Once its link is lost, a connection is eventually forgotten altogether.  A lost
\* link stays lost and there are finitely many, so that is: in the end nothing
\* remembers any lost one.
LostConnectionForgotten == <>[](\A c \in Conns : Lost(c) => Forgotten(c))

-----------------------------------------------------------------------------
(* The channel implements ChatOwnership *)

Ownership == INSTANCE ChatOwnership WITH
  serving  <- [c \in Conns |-> IF Served(c) THEN "serving"
                               ELSE IF handler[c] = "done" THEN "gone" ELSE "new"],
  owner    <- chatConn,
  open     <- streams,
  speaking <- current

\* The global purge of _detach_connection closes exactly the streams of the
\* connection's own chats, and every other step claims, opens or does nothing.
ImplementsOwnership == Ownership!Spec

=============================================================================
