-------------------------- MODULE TTSPipeline_proofs --------------------------
(***************************************************************************)
(* What TLAPS proves of DesktopMateChannel, whose own next-state relation  *)
(* is Next, for any number of connections, chats, streams and concurrent   *)
(* tts_chunk sends; and of TTSPipeline, which composes it with the hook,   *)
(* for any number of sessions and tasks and any length of the outbound     *)
(* queue.                                                                  *)
(***************************************************************************)
EXTENDS TTSPipeline, TLAPS


(* The typing of the routing state alone. *)
RegistryTypeOK ==
  /\ chatConn \in [Chats -> Conns \cup {None}]
  /\ ttsChat \in [Chats -> Flags]
  /\ refChat \in [Chats -> Voices \cup {None}]
  /\ ttsConn \in [Conns -> Flags]
  /\ streams \in SUBSET Streams
  /\ current \in Streams \cup {None}

(* _detach_connection keeps the routing state well typed. *)
LEMMA DetachTypeOK ==
  ASSUME RegistryTypeOK, NEW c \in Conns, DetachConnection(c)
  PROVE  RegistryTypeOK'
  BY DEF RegistryTypeOK, DetachConnection, DropChats, WithoutChatsOf,
         PurgeStreams, Flags

LEMMA SendReturnsTypeOK ==
  ASSUME RegistryTypeOK, NEW c \in Conns, NEW sent, SendReturns(c, sent)
  PROVE  RegistryTypeOK'
  <1>1. CASE UNCHANGED registry
    BY <1>1 DEF RegistryTypeOK, registry
  <1>2. CASE DetachConnection(c)
    BY <1>2, DetachTypeOK
  <1> QED BY <1>1, <1>2 DEF SendReturns

(* Every step keeps every variable in its type. *)
LEMMA TypeStep == TypeOK /\ [Next]_vars => TypeOK'
<1> USE ConstantsAssumption
<1> SUFFICES ASSUME TypeOK, [Next]_vars PROVE TypeOK'
  OBVIOUS
<1>0. RegistryTypeOK
  BY DEF TypeOK, RegistryTypeOK
<1>1. CASE Start \/ Stop
  BY <1>1 DEF TypeOK, Start, Stop, registry, history
<1>2. CASE StopGraceful \/ StopTimesOut
  BY <1>2 DEF TypeOK, StopGraceful, StopTimesOut, StopClears, history
<1>3. ASSUME NEW c \in Conns, Connection(c) PROVE TypeOK'
  <2>1. CASE HandshakeAccepted(c)
    BY <2>1 DEF TypeOK, HandshakeAccepted, history, Flags
  <2>2. CASE HandshakeRejected(c)
    BY <2>2 DEF TypeOK, HandshakeRejected, history, registry
  <2>3. CASE HandlerSendReturns(c)
    <3>1. RegistryTypeOK'
      BY <1>0, <2>3, SendReturnsTypeOK DEF HandlerSendReturns
    <3> QED BY <3>1, <2>3 DEF TypeOK, HandlerSendReturns, history, RegistryTypeOK
  <2>4. CASE MessageHandled(c)
    BY <2>4 DEF TypeOK, MessageHandled, history, registry
  <2>5. CASE ImageRejected(c)
    BY <2>5 DEF TypeOK, ImageRejected, history, registry
  <2>6. CASE HandlerExit(c)
    <3>1. RegistryTypeOK'
      BY <1>0, <2>6, DetachTypeOK DEF HandlerExit
    <3> QED BY <3>1, <2>6 DEF TypeOK, HandlerExit, history, RegistryTypeOK
  <2>7. CASE LinkLost(c) \/ LinkDrained(c)
    BY <2>7 DEF TypeOK, LinkLost, LinkDrained, history, registry
  <2>8. ASSUME NEW ch \in Chats, NEW flag \in Inbound, NEW voice \in Voices \cup {None},
               InboundMessage(c, ch, flag, voice)
        PROVE TypeOK'
    BY <2>8 DEF TypeOK, InboundMessage, Flags
  <2> QED BY <1>3, <2>1, <2>2, <2>3, <2>4, <2>5, <2>6, <2>7, <2>8 DEF Connection
<1>4. CASE Outbound
  <2>1. ASSUME NEW s \in Streams, NEW text \in BOOLEAN, NEW end \in BOOLEAN,
               DropDelta(s, text, end)
        PROVE TypeOK'
    BY <2>1 DEF TypeOK, DropDelta, Feeds, registry
  <2>2. ASSUME NEW s \in Streams, NEW text \in BOOLEAN, NEW end \in BOOLEAN,
               SendDelta(s, text, end)
        PROVE TypeOK'
    <3> DEFINE conn == chatConn[ChatOf[s]]
               frame == IF end THEN "end" ELSE "delta"
    <3>1. conn \in Conns /\ frame \in {"delta", "end"}
      BY <2>2 DEF SendDelta, TypeOK
    <3>2. bus' \in [Streams -> {"fresh", "text", "over"}]
      BY <2>2 DEF SendDelta, Feeds, TypeOK
    <3>3. UNCHANGED <<phase, link, handler, chunk>>
      BY <2>2 DEF SendDelta
    <3>4. CASE s \in streams
      <4>1. PutFrame(conn, s, frame, "nothing") /\ UNCHANGED registry
        BY <2>2, <3>4 DEF SendDelta
      <4> QED BY <3>1, <3>2, <3>3, <4>1 DEF TypeOK, PutFrame, OutCall, registry
    <3>5. CASE s \notin streams
      <4>1. PutFrame(conn, s, "start", frame) /\ Register(s)
        BY <2>2, <3>5 DEF SendDelta
      <4> QED BY <3>1, <3>2, <3>3, <4>1 DEF TypeOK, PutFrame, OutCall, Register
    <3> QED BY <3>4, <3>5
  <2>3. ASSUME NEW s \in Streams, SendStreamStart(s) PROVE TypeOK'
    BY <2>3 DEF TypeOK, SendStreamStart, Register, PutFrame, OutCall
  <2>4. ASSUME NEW s \in Streams, SendStreamEnd(s) PROVE TypeOK'
    BY <2>4 DEF TypeOK, SendStreamEnd, Feeds, PutFrame, OutCall, registry
  <2>5. CASE DeltaResumes
    <3>1. out \in OutCall
      BY <2>5 DEF DeltaResumes, TypeOK
    <3>2. RegistryTypeOK'
      BY <1>0, <2>5, <3>1, SendReturnsTypeOK DEF DeltaResumes, OutCall
    <3> QED BY <2>5, <3>1, <3>2 DEF TypeOK, DeltaResumes, PutFrame, OutCall, RegistryTypeOK
  <2>6. CASE OutboundReturns
    <3>1. out \in OutCall
      BY <2>6 DEF OutboundReturns, TypeOK
    <3>2. RegistryTypeOK'
      BY <1>0, <2>6, <3>1, SendReturnsTypeOK DEF OutboundReturns, OutCall
    <3> QED BY <2>6, <3>2 DEF TypeOK, OutboundReturns, history, RegistryTypeOK
  <2> QED BY <1>4, <2>1, <2>2, <2>3, <2>4, <2>5, <2>6 DEF Outbound
<1>5. ASSUME NEW k \in Chunks, Delivery(k) PROVE TypeOK'
  <2>1. CASE SendTTSChunk(k)
    BY <2>1 DEF TypeOK, SendTTSChunk, ChunkCall, TTSEnabledForCurrentStream,
                registry, history
  <2>2. CASE TTSChunkReturns(k)
    <3>1. chunk[k] \in ChunkCall
      BY <2>2 DEF TTSChunkReturns, TypeOK
    <3>2. RegistryTypeOK'
      BY <1>0, <2>2, <3>1, SendReturnsTypeOK DEF TTSChunkReturns, ChunkCall
    <3> QED BY <2>2, <3>2 DEF TypeOK, TTSChunkReturns, history, RegistryTypeOK
  <2> QED BY <1>5, <2>1, <2>2 DEF Delivery
<1>6. CASE UNCHANGED vars
  BY <1>6 DEF TypeOK, vars, registry, history
<1> QED BY <1>1, <1>2, <1>3, <1>4, <1>5, <1>6 DEF Next

(* Every variable keeps its type: in particular the current stream is a      *)
(* stream id or None, and an awaiting call names a connection and a stream.  *)
THEOREM TypeCorrect == Spec => []TypeOK
<1>1. Init => TypeOK
  BY ConstantsAssumption DEF Init, TypeOK, Flags
<1> QED BY <1>1, TypeStep, PTL DEF Spec

-----------------------------------------------------------------------------
(* The routing invariant.  StreamsAttached alone is not inductive: the purge *)
(* resets the current stream only if that one was registered, stop() and a   *)
(* late failing send must not leave a chat with a handler that is done, and  *)
(* the silence of a muted socket rests on its override lasting as long as    *)
(* its link is open.                                                         *)

OverrideKept == \A c \in Conns : link[c] = "open" => ttsConn[c] = UrlTTS[c]

IInv ==
  /\ TypeOK
  /\ StreamsAttached
  /\ CurrentRegistered
  /\ OwnersServed
  /\ OverrideKept
  /\ MutedSocketSilent

(* The conjuncts of IInv that speak of the routing state alone. *)
RegistryInv ==
  /\ RegistryTypeOK
  /\ StreamsAttached
  /\ CurrentRegistered

(* Detaching a connection, whichever it is, leaves no stream without a chat, *)
(* unmaps none but its own chats and drops none but its own override.        *)
LEMMA DetachSafe ==
  ASSUME RegistryInv, NEW c \in Conns, DetachConnection(c)
  PROVE  /\ RegistryInv'
         /\ \A ch \in Chats : chatConn'[ch] =
              IF chatConn[ch] = c THEN None ELSE chatConn[ch]
         /\ \A ch \in Chats : ttsChat'[ch] =
              IF chatConn[ch] = c THEN "unset" ELSE ttsChat[ch]
         /\ \A ch \in Chats : refChat'[ch] =
              IF chatConn[ch] = c THEN None ELSE refChat[ch]
         /\ \A d \in Conns : ttsConn'[d] = IF d = c THEN "unset" ELSE ttsConn[d]
  <1> USE ConstantsAssumption
  <1>1. RegistryTypeOK'
    BY DetachTypeOK DEF RegistryInv
  <1>2. StreamsAttached'
    BY DEF RegistryInv, RegistryTypeOK, StreamsAttached, DetachConnection, PurgeStreams
  <1>3. CurrentRegistered'
    BY DEF RegistryInv, RegistryTypeOK, CurrentRegistered, DetachConnection, PurgeStreams
  <1> QED BY <1>1, <1>2, <1>3
    DEF RegistryInv, RegistryTypeOK, DetachConnection, DropChats, WithoutChatsOf

(* An awaited send that comes back, for better or worse, keeps the invariant *)
(* if the handlers and links stay served.                                    *)
LEMMA SendReturnsSafe ==
  ASSUME IInv, TypeOK', NEW c \in Conns, NEW sent, SendReturns(c, sent),
         UNCHANGED <<phase, link>>,
         \A d \in Conns : Served(d) => Served(d)'
  PROVE  /\ StreamsAttached' /\ CurrentRegistered' /\ OwnersServed'
         /\ OverrideKept'
  <1> USE ConstantsAssumption
  <1>0. RegistryInv
    BY DEF IInv, TypeOK, RegistryInv, RegistryTypeOK
  <1>1. CASE UNCHANGED registry
    BY <1>1 DEF IInv, registry, StreamsAttached, CurrentRegistered, OwnersServed,
                OverrideKept, TypeOK
  <1>2. CASE link[c] # "open" /\ DetachConnection(c)
    <2>1. StreamsAttached' /\ CurrentRegistered'
      BY <1>0, <1>2, DetachSafe DEF RegistryInv
    <2>2. OwnersServed'
      BY <1>0, <1>2, DetachSafe DEF IInv, OwnersServed, TypeOK
    <2>3. OverrideKept'
      BY <1>0, <1>2, DetachSafe DEF IInv, OverrideKept
    <2> QED BY <2>1, <2>2, <2>3
  <1> QED BY <1>1, <1>2 DEF SendReturns

(* Steps that touch neither the routing state nor the lifecycle. *)
LEMMA RegistryUntouched ==
  ASSUME IInv, UNCHANGED <<phase, link, registry>>,
         \A d \in Conns : Served(d) => Served(d)'
  PROVE  /\ StreamsAttached' /\ CurrentRegistered' /\ OwnersServed'
         /\ OverrideKept'
  BY DEF IInv, registry, StreamsAttached, CurrentRegistered, OwnersServed,
         OverrideKept, TypeOK

LEMMA InitInvariant == Init => IInv
  <1> SUFFICES ASSUME Init PROVE IInv
    OBVIOUS
  <1> USE ConstantsAssumption DEF Init
  <1>1. TypeOK
    BY DEF TypeOK, Flags
  <1> QED BY <1>1 DEF IInv, StreamsAttached, CurrentRegistered, OwnersServed,
                      OverrideKept, MutedSocketSilent

(* Every step of the channel keeps the invariant. *)
LEMMA InvariantStep == IInv /\ [Next]_vars => IInv'
<1> USE ConstantsAssumption
<1> SUFFICES ASSUME IInv, [Next]_vars PROVE IInv'
  OBVIOUS
<1>0. TypeOK /\ TypeOK' /\ RegistryInv
  BY TypeStep DEF IInv, TypeOK, RegistryInv, RegistryTypeOK
<1>1. CASE Start \/ Stop
  BY <1>0, <1>1 DEF Start, Stop, registry, history, IInv, StreamsAttached, CurrentRegistered,
     OwnersServed, Served, OverrideKept, MutedSocketSilent
<1>2. CASE StopGraceful \/ StopTimesOut
  <2>1. StreamsAttached' /\ CurrentRegistered' /\ OwnersServed' /\ OverrideKept'
        /\ MutedSocketSilent'
    BY <1>0, <1>2 DEF StopGraceful, StopTimesOut, StopClears, IInv, StreamsAttached,
       CurrentRegistered, OwnersServed, Served, OverrideKept, MutedSocketSilent, TypeOK
  <2> QED BY <1>0, <2>1 DEF IInv
<1>3. ASSUME NEW c \in Conns, Connection(c) PROVE IInv'
  <2>1. CASE HandshakeAccepted(c)
    BY <1>0, <2>1 DEF HandshakeAccepted, history, IInv, StreamsAttached, CurrentRegistered,
       OwnersServed, Served, OverrideKept, MutedSocketSilent, TypeOK
  <2>2. CASE HandshakeRejected(c)
    BY <1>0, <2>2 DEF HandshakeRejected, registry, history, IInv, StreamsAttached,
       CurrentRegistered, OwnersServed, Served, OverrideKept,
       MutedSocketSilent, TypeOK
  <2>3. CASE HandlerSendReturns(c)
    <3>1. \A d \in Conns : Served(d) => Served(d)'
      BY <1>0, <2>3 DEF HandlerSendReturns, Served, TypeOK
    <3>2. MutedSocketSilent'
      BY <2>3 DEF HandlerSendReturns, IInv, MutedSocketSilent
    <3> QED BY <1>0, <2>3, <3>1, <3>2, SendReturnsSafe DEF HandlerSendReturns, IInv
  <2>4. CASE MessageHandled(c) \/ ImageRejected(c)
    <3>1. \A d \in Conns : Served(d) => Served(d)'
      BY <1>0, <2>4 DEF MessageHandled, ImageRejected, Served, TypeOK
    <3>2. MutedSocketSilent'
      BY <2>4 DEF MessageHandled, ImageRejected, IInv, MutedSocketSilent
    <3> QED BY <1>0, <2>4, <3>1, <3>2, RegistryUntouched DEF MessageHandled, ImageRejected, IInv
  <2>5. CASE HandlerExit(c)
    <3>1. DetachConnection(c)
      BY <2>5 DEF HandlerExit
    <3>2. StreamsAttached' /\ CurrentRegistered'
      BY <1>0, <3>1, DetachSafe DEF RegistryInv
    <3>3. OwnersServed'
      BY <1>0, <2>5, <3>1, DetachSafe DEF HandlerExit, IInv, OwnersServed, Served, TypeOK
    <3>4. OverrideKept'
      BY <1>0, <2>5, <3>1, DetachSafe DEF HandlerExit, IInv, OverrideKept, TypeOK
    <3>5. MutedSocketSilent'
      BY <2>5 DEF HandlerExit, IInv, MutedSocketSilent
    <3> QED BY <1>0, <3>2, <3>3, <3>4, <3>5 DEF IInv
  <2>6. CASE LinkLost(c) \/ LinkDrained(c)
    BY <1>0, <2>6 DEF LinkLost, LinkDrained, registry, history, IInv, StreamsAttached,
       CurrentRegistered, OwnersServed, Served, OverrideKept,
       MutedSocketSilent, TypeOK
  <2>7. ASSUME NEW ch \in Chats, NEW flag \in Inbound, NEW voice \in Voices \cup {None},
               InboundMessage(c, ch, flag, voice)
        PROVE IInv'
    <3>1. StreamsAttached' /\ CurrentRegistered' /\ OverrideKept' /\ MutedSocketSilent'
      BY <1>0, <2>7 DEF InboundMessage, IInv, StreamsAttached, CurrentRegistered,
         OverrideKept, MutedSocketSilent, TypeOK
    <3>2. OwnersServed'
      BY <1>0, <2>7 DEF InboundMessage, CanRead, IInv, OwnersServed, Served, TypeOK
    <3> QED BY <1>0, <3>1, <3>2 DEF IInv
  <2> QED BY <1>3, <2>1, <2>2, <2>3, <2>4, <2>5, <2>6, <2>7 DEF Connection
<1>4. CASE Outbound
  <2>0. ASSUME UNCHANGED handler PROVE \A d \in Conns : Served(d) => Served(d)'
    BY <2>0 DEF Served
  <2>1. ASSUME NEW s \in Streams, NEW text \in BOOLEAN, NEW end \in BOOLEAN,
               DropDelta(s, text, end)
        PROVE IInv'
    BY <1>0, <2>0, <2>1, RegistryUntouched DEF DropDelta, IInv, MutedSocketSilent
  <2>2. ASSUME NEW s \in Streams, chatConn[ChatOf[s]] # None, Register(s),
               UNCHANGED <<phase, link, handler, chunk>>
        PROVE IInv'
    BY <1>0, <2>2 DEF Register, IInv, StreamsAttached, CurrentRegistered, OwnersServed,
       Served, OverrideKept, MutedSocketSilent
  <2>3. ASSUME NEW s \in Streams, NEW text \in BOOLEAN, NEW end \in BOOLEAN,
               SendDelta(s, text, end)
        PROVE IInv'
    <3>1. UNCHANGED <<phase, link, handler, chunk>> /\ chatConn[ChatOf[s]] # None
      BY <2>3 DEF SendDelta
    <3>2. UNCHANGED registry \/ Register(s)
      BY <2>3 DEF SendDelta
    <3>3. CASE UNCHANGED registry
      BY <1>0, <2>0, <3>1, <3>3, RegistryUntouched DEF IInv, MutedSocketSilent
    <3> QED BY <2>2, <3>1, <3>2, <3>3
  <2>4. ASSUME NEW s \in Streams, SendStreamStart(s) PROVE IInv'
    BY <2>2, <2>4 DEF SendStreamStart
  <2>5. ASSUME NEW s \in Streams, SendStreamEnd(s) PROVE IInv'
    BY <1>0, <2>0, <2>5, RegistryUntouched DEF SendStreamEnd, IInv, MutedSocketSilent
  <2>6. CASE DeltaResumes \/ OutboundReturns
    <3>1. out.conn \in Conns /\ SendReturns(out.conn, out.sent)
      BY <1>0, <2>6 DEF DeltaResumes, OutboundReturns, TypeOK, OutCall
    <3>2. UNCHANGED <<phase, link, handler, chunk>>
      BY <2>6 DEF DeltaResumes, OutboundReturns
    <3> QED BY <1>0, <2>0, <3>1, <3>2, SendReturnsSafe DEF IInv, MutedSocketSilent
  <2> QED BY <1>4, <2>1, <2>3, <2>4, <2>5, <2>6 DEF Outbound
<1>5. ASSUME NEW k \in Chunks, Delivery(k) PROVE IInv'
  <2>1. CASE SendTTSChunk(k)
    <3> DEFINE conn == chatConn[ChatOf[current]]
    <3>0. /\ conn \in Conns
          /\ TTSEnabledForChat(ChatOf[current])
          /\ chunk' = [chunk EXCEPT ![k] = [conn |-> conn, stream |-> current,
                                            sent |-> link[conn] = "open"]]
      BY <1>0, <2>1 DEF SendTTSChunk, TTSEnabledForCurrentStream, TypeOK
    <3>a. link[conn] = "open" => UrlTTS[conn] # "off"
      BY <3>0 DEF TTSEnabledForChat, IInv, OverrideKept
    <3>b. ASSUME NEW j \in Chunks, chunk'[j] # None, chunk'[j].sent
          PROVE  UrlTTS[chunk'[j].conn] # "off"
      <4>0. chunk \in [Chunks -> ChunkCall \cup {None}]
        BY <1>0 DEF TypeOK
      <4>1. CASE j = k
        <5>1. chunk'[j] = [conn |-> conn, stream |-> current, sent |-> link[conn] = "open"]
          BY <3>0, <4>0, <4>1
        <5>2. chunk'[j].conn = conn /\ chunk'[j].sent = (link[conn] = "open")
          BY <5>1
        <5> QED BY <3>a, <3>b, <5>2
      <4>2. CASE j # k
        <5>1. chunk'[j] = chunk[j]
          BY <3>0, <4>0, <4>2
        <5> QED BY <3>b, <5>1 DEF IInv, MutedSocketSilent
      <4> QED BY <4>1, <4>2
    <3>1. MutedSocketSilent'
      BY <3>b DEF MutedSocketSilent
    <3> QED BY <1>0, <2>1, <3>1, RegistryUntouched DEF SendTTSChunk, IInv, Served
  <2>2. CASE TTSChunkReturns(k)
    <3>1. chunk[k].conn \in Conns /\ SendReturns(chunk[k].conn, chunk[k].sent)
      BY <1>0, <2>2 DEF TTSChunkReturns, TypeOK, ChunkCall
    <3>2. MutedSocketSilent'
      BY <1>0, <2>2 DEF TTSChunkReturns, IInv, MutedSocketSilent, TypeOK
    <3> QED BY <1>0, <2>2, <3>1, <3>2, SendReturnsSafe DEF TTSChunkReturns, IInv, Served
  <2> QED BY <1>5, <2>1, <2>2 DEF Delivery
<1>6. CASE UNCHANGED vars
  BY <1>0, <1>6, RegistryUntouched DEF vars, IInv, MutedSocketSilent, Served
<1> QED BY <1>1, <1>2, <1>3, <1>4, <1>5, <1>6 DEF Next

(* A registered stream always has a connection to go to.                     *)
THEOREM StreamsStayAttached == Spec => []StreamsAttached
<1> QED BY InitInvariant, InvariantStep, PTL DEF Spec, IInv

(* The current stream never outlives its entry in _streams.                  *)
THEOREM CurrentStaysRegistered == Spec => []CurrentRegistered
<1> QED BY InitInvariant, InvariantStep, PTL DEF Spec, IInv

(* No chat and no ?tts= override survives its connection's handler.          *)
THEOREM OwnersStayServed == Spec => []OwnersServed
<1> QED BY InitInvariant, InvariantStep, PTL DEF Spec, IInv

(* A socket opened with ?tts=0 is never sent a tts_chunk.                    *)
THEOREM MutedSocketStaysSilent == Spec => []MutedSocketSilent
<1> QED BY InitInvariant, InvariantStep, PTL DEF Spec, IInv

(* While its link is open a muted socket keeps its chats from being spoken.  *)
THEOREM OverrideStaysInForce == Spec => []OverrideHoldsWhileOpen
<1>1. IInv => OverrideHoldsWhileOpen
  <2> SUFFICES ASSUME IInv, current # None, chatConn[ChatOf[current]] # None,
                      UrlTTS[chatConn[ChatOf[current]]] = "off",
                      link[chatConn[ChatOf[current]]] = "open"
               PROVE  ~TTSEnabledForCurrentStream
    BY DEF OverrideHoldsWhileOpen
  <2>1. chatConn[ChatOf[current]] \in Conns
    BY ConstantsAssumption DEF IInv, TypeOK
  <2>2. ttsConn[chatConn[ChatOf[current]]] = "off"
    BY <2>1 DEF IInv, OverrideKept
  <2> QED BY <2>2 DEF TTSEnabledForCurrentStream, TTSEnabledForChat
<1> QED BY <1>1, InitInvariant, InvariantStep, PTL DEF Spec

(* A detach drops the flags and voices of the chats it drops, and no other.  *)
LEMMA SendReturnsKeepsPolicy ==
  ASSUME TypeOK, NEW c \in Conns, NEW sent, SendReturns(c, sent)
  PROVE  KeepsPolicy
<1>1. CASE UNCHANGED registry
  BY <1>1 DEF registry, KeepsPolicy
<1>2. CASE DetachConnection(c)
  BY <1>2, ConstantsAssumption DEF DetachConnection, DropChats, WithoutChatsOf, KeepsPolicy,
     TypeOK
<1> QED BY <1>1, <1>2 DEF SendReturns

(* Under one owner a chat's TTS flag and voice change only by a message that *)
(* owner sends, whoever else departs or fails to send.                       *)
THEOREM PolicyStaysWithOwner == Spec => PolicyOfItsOwner
<1>1. TypeOK /\ [Next]_vars => [KeepsPolicy]_vars
  <2> SUFFICES ASSUME TypeOK, Next PROVE KeepsPolicy
    BY DEF vars, registry, KeepsPolicy
  <2>1. CASE Start \/ Stop \/ StopGraceful \/ StopTimesOut
    BY <2>1 DEF Start, Stop, StopGraceful, StopTimesOut, StopClears, registry, KeepsPolicy
  <2>2. ASSUME NEW c \in Conns, Connection(c) PROVE KeepsPolicy
    <3>1. CASE \/ HandshakeAccepted(c) \/ HandshakeRejected(c) \/ MessageHandled(c)
               \/ ImageRejected(c) \/ LinkLost(c) \/ LinkDrained(c)
      BY <3>1 DEF HandshakeAccepted, HandshakeRejected, MessageHandled, ImageRejected, LinkLost,
         LinkDrained, registry, KeepsPolicy
    <3>2. CASE HandlerSendReturns(c)
      BY <3>2, SendReturnsKeepsPolicy DEF HandlerSendReturns
    <3>3. CASE HandlerExit(c)
      BY <3>3, ConstantsAssumption DEF HandlerExit, DetachConnection, DropChats, WithoutChatsOf,
         KeepsPolicy, TypeOK
    <3>4. ASSUME NEW ch \in Chats, NEW flag \in Inbound, NEW voice \in Voices \cup {None},
                 InboundMessage(c, ch, flag, voice)
          PROVE  KeepsPolicy
      <4>1. Speaks(c) /\ chatConn'[ch] = c
        BY <3>4 DEF InboundMessage, CanRead, Speaks, TypeOK
      <4>2. \A other \in Chats : other # ch =>
              ttsChat'[other] = ttsChat[other] /\ refChat'[other] = refChat[other]
        BY <3>4 DEF InboundMessage, TypeOK
      <4> QED BY <4>1, <4>2 DEF KeepsPolicy
    <3> QED BY <2>2, <3>1, <3>2, <3>3, <3>4 DEF Connection
  <2>3. CASE Outbound
    <3>1. CASE DeltaResumes \/ OutboundReturns
      <4>1. out.conn \in Conns /\ SendReturns(out.conn, out.sent)
        BY <3>1 DEF DeltaResumes, OutboundReturns, TypeOK, OutCall
      <4> QED BY <4>1, SendReturnsKeepsPolicy
    <3>2. CASE ~(DeltaResumes \/ OutboundReturns)
      <4>1. ttsChat' = ttsChat /\ refChat' = refChat
        BY <2>3, <3>2 DEF Outbound, DropDelta, SendDelta, SendStreamStart, SendStreamEnd, Register,
           registry
      <4> QED BY <4>1 DEF KeepsPolicy
    <3> QED BY <3>1, <3>2
  <2>4. ASSUME NEW k \in Chunks, Delivery(k) PROVE KeepsPolicy
    <3>1. CASE SendTTSChunk(k)
      BY <3>1 DEF SendTTSChunk, registry, KeepsPolicy
    <3>2. CASE TTSChunkReturns(k)
      <4>1. chunk[k].conn \in Conns /\ SendReturns(chunk[k].conn, chunk[k].sent)
        BY <3>2 DEF TTSChunkReturns, TypeOK, ChunkCall
      <4> QED BY <4>1, SendReturnsKeepsPolicy
    <3> QED BY <2>4, <3>1, <3>2 DEF Delivery
  <2> QED BY <2>1, <2>2, <2>3, <2>4 DEF Next
<1> QED BY <1>1, TypeCorrect, TypeStep, PTL DEF Spec, PolicyOfItsOwner

(* A detach takes nothing from the owner of another chat.                    *)
LEMMA DetachSparesOthers ==
  ASSUME IInv, NEW c \in Conns, DetachConnection(c), phase' = phase,
         link[c] # "open" \/ handler'[c] = "done"
  PROVE  KeepsHealthyOwner
  BY DEF DetachConnection, DropChats, WithoutChatsOf, PurgeStreams, KeepsHealthyOwner,
         IInv, TypeOK

(* A connection whose link is open and whose handler runs loses a chat only  *)
(* to another connection, and no stream, except to stop().                   *)
THEOREM HealthyOwnerStaysKept == Spec => HealthyOwnerKept
<1>1. IInv /\ [Next]_vars => [KeepsHealthyOwner]_vars
  <2> SUFFICES ASSUME IInv, Next PROVE KeepsHealthyOwner
    OBVIOUS
  <2>0. TypeOK
    BY DEF IInv
  <2>a. ASSUME chatConn' = chatConn, streams \subseteq streams' PROVE KeepsHealthyOwner
    BY <2>a DEF KeepsHealthyOwner
  <2>b. ASSUME NEW c \in Conns, NEW sent, SendReturns(c, sent), phase' = phase
        PROVE KeepsHealthyOwner
    BY <2>a, <2>b, DetachSparesOthers DEF SendReturns, registry
  <2>1. CASE Start
    BY <2>1, <2>a DEF Start, registry
  <2>2. CASE Stop \/ StopGraceful \/ StopTimesOut
    BY <2>2 DEF Stop, StopGraceful, StopTimesOut, StopClears, KeepsHealthyOwner
  <2>3. ASSUME NEW c \in Conns, Connection(c) PROVE KeepsHealthyOwner
    <3>1. CASE HandshakeAccepted(c) \/ HandshakeRejected(c) \/ MessageHandled(c)
               \/ ImageRejected(c) \/ LinkLost(c) \/ LinkDrained(c)
      BY <2>a, <3>1 DEF HandshakeAccepted, HandshakeRejected, MessageHandled,
                        ImageRejected, LinkLost, LinkDrained, registry
    <3>2. CASE HandlerSendReturns(c)
      BY <2>b, <3>2 DEF HandlerSendReturns
    <3>3. CASE HandlerExit(c)
      BY <2>0, <3>3, DetachSparesOthers DEF HandlerExit, TypeOK
    <3>4. ASSUME NEW ch \in Chats, NEW flag \in Inbound, NEW voice \in Voices \cup {None},
                 InboundMessage(c, ch, flag, voice)
          PROVE KeepsHealthyOwner
      BY <2>0, <3>4, ConstantsAssumption DEF InboundMessage, KeepsHealthyOwner, TypeOK
    <3> QED BY <2>3, <3>1, <3>2, <3>3, <3>4 DEF Connection
  <2>4. CASE Outbound
    <3>1. ASSUME NEW s \in Streams, NEW text \in BOOLEAN, NEW end \in BOOLEAN,
                 DropDelta(s, text, end) \/ SendDelta(s, text, end)
          PROVE KeepsHealthyOwner
      BY <2>a, <3>1 DEF DropDelta, SendDelta, Register, registry
    <3>2. ASSUME NEW s \in Streams, SendStreamStart(s) \/ SendStreamEnd(s)
          PROVE KeepsHealthyOwner
      BY <2>a, <3>2 DEF SendStreamStart, SendStreamEnd, Register, registry
    <3>3. CASE DeltaResumes \/ OutboundReturns
      <4>1. out.conn \in Conns /\ SendReturns(out.conn, out.sent) /\ phase' = phase
        BY <2>0, <3>3 DEF DeltaResumes, OutboundReturns, TypeOK, OutCall
      <4> QED BY <2>b, <4>1
    <3> QED BY <2>4, <3>1, <3>2, <3>3 DEF Outbound
  <2>5. ASSUME NEW k \in Chunks, Delivery(k) PROVE KeepsHealthyOwner
    <3>1. CASE SendTTSChunk(k)
      BY <2>a, <3>1 DEF SendTTSChunk, registry
    <3>2. CASE TTSChunkReturns(k)
      <4>1. chunk[k].conn \in Conns /\ SendReturns(chunk[k].conn, chunk[k].sent)
            /\ phase' = phase
        BY <2>0, <3>2 DEF TTSChunkReturns, TypeOK, ChunkCall
      <4> QED BY <2>b, <4>1
    <3> QED BY <2>5, <3>1, <3>2 DEF Delivery
  <2> QED BY <2>1, <2>2, <2>3, <2>4, <2>5 DEF Next
<1> QED BY <1>1, InitInvariant, InvariantStep, PTL DEF Spec, HealthyOwnerKept

-----------------------------------------------------------------------------
(* No delta overtakes its stream_start.  A delta goes to the connection a    *)
(* call captured, so the invariant follows the announcement from there: an   *)
(* owner with an open link has been sent the start of every stream it is     *)
(* registered for, and so has the connection of a call that still has its    *)
(* delta to send -- unless the chat has moved in between.                    *)

Announced(c, s) == link[c] = "open" => home[s] \in {"moved", c}

StreamsAnnounced == \A s \in streams : Announced(chatConn[ChatOf[s]], s)

CallAnnounced ==
  out # None => /\ handler[out.conn] # "new"
                /\ out.then = "delta" => Announced(out.conn, out.stream)

StartInv == StreamsAnnounced /\ CallAnnounced /\ FramesFollowStart

(* A step that neither sends a frame of a stream nor gives a chat to another *)
(* connection; a link never opens again.                                     *)
LEMMA QuietStepKeepsStart ==
  ASSUME IInv, StartInv, UNCHANGED <<out, home>>,
         \A s \in streams' : s \in streams /\ chatConn'[ChatOf[s]] = chatConn[ChatOf[s]],
         \A c \in Conns : handler[c] # "new" =>
           handler'[c] # "new" /\ (link'[c] = "open" => link[c] = "open")
  PROVE  StartInv'
<1> USE ConstantsAssumption
<1>1. \A s \in streams : chatConn[ChatOf[s]] \in Conns /\ handler[chatConn[ChatOf[s]]] # "new"
  BY DEF IInv, TypeOK, StreamsAttached, OwnersServed, Served
<1>2. out # None => out.conn \in Conns /\ out.stream \in Streams
  BY DEF IInv, TypeOK, OutCall
<1>3. StreamsAnnounced'
  BY <1>1 DEF StartInv, StreamsAnnounced, Announced
<1>4. CallAnnounced'
  BY <1>2 DEF StartInv, CallAnnounced, Announced
<1>5. FramesFollowStart'
  BY DEF StartInv, FramesFollowStart
<1> QED BY <1>3, <1>4, <1>5 DEF StartInv

(* Whether an awaited send comes back or detaches its connection, what is    *)
(* left of the streams keeps its owner.                                      *)
LEMMA SendReturnsKeepsOwners ==
  ASSUME IInv, NEW c \in Conns, NEW sent, SendReturns(c, sent)
  PROVE  \A s \in streams' : s \in streams /\ chatConn'[ChatOf[s]] = chatConn[ChatOf[s]]
<1> USE ConstantsAssumption
<1>1. CASE UNCHANGED registry
  BY <1>1 DEF registry
<1>2. CASE DetachConnection(c)
  BY <1>2 DEF DetachConnection, DropChats, WithoutChatsOf, PurgeStreams, IInv, TypeOK
<1> QED BY <1>1, <1>2 DEF SendReturns

(* A frame that is put on the connection of a registered stream's chat.      *)
LEMMA FrameKeepsStart ==
  ASSUME IInv, StartInv, NEW s \in Streams, NEW frame, NEW then,
         chatConn[ChatOf[s]] # None, PutFrame(chatConn[ChatOf[s]], s, frame, then),
         UNCHANGED <<link, handler, chatConn>>,
         \/ streams' = streams /\ (frame = "delta" => s \in streams)
         \/ streams' = streams \cup {s} /\ frame = "start",
         then = "delta" => frame = "start"
  PROVE  StartInv'
<1> USE ConstantsAssumption
<1> DEFINE c == chatConn[ChatOf[s]]
<1>1. c \in Conns /\ handler[c] # "new" /\ home \in [Streams -> Conns \cup {"never", "moved"}]
      /\ streams \subseteq Streams
  BY DEF IInv, TypeOK, OwnersServed, Served
<1>2. \A r \in Streams : home'[r] = IF r = s /\ frame = "start" /\ link[c] = "open" THEN c
                                    ELSE home[r]
  BY <1>1 DEF PutFrame
<1>3. out' # None => /\ out'.conn = c /\ out'.stream = s /\ out'.frame = frame
                     /\ out'.then = then /\ out'.sent = (link[c] = "open")
  BY DEF PutFrame
<1>4. StreamsAnnounced'
  BY <1>1, <1>2 DEF StartInv, StreamsAnnounced, Announced
<1>5. CallAnnounced'
  BY <1>1, <1>2, <1>3 DEF StartInv, CallAnnounced, Announced
<1>6. frame = "delta" /\ link[c] = "open" => home'[s] \in {"moved", c}
  BY <1>2 DEF StartInv, StreamsAnnounced, Announced
<1>7. FramesFollowStart'
  BY <1>3, <1>6 DEF FramesFollowStart
<1> QED BY <1>4, <1>5, <1>7 DEF StartInv

LEMMA StartStep == IInv /\ IInv' /\ StartInv /\ [Next]_vars => StartInv'
<1> USE ConstantsAssumption
<1> SUFFICES ASSUME IInv, IInv', StartInv, [Next]_vars PROVE StartInv'
  OBVIOUS
<1>0. TypeOK /\ StreamsAttached'
  BY DEF IInv
<1>1. CASE Start \/ Stop \/ UNCHANGED vars
  BY <1>1, QuietStepKeepsStart DEF Start, Stop, vars, registry, history
<1>2. CASE StopGraceful \/ StopTimesOut
  BY <1>2, QuietStepKeepsStart DEF StopGraceful, StopTimesOut, StopClears, history
<1>3. ASSUME NEW c \in Conns, Connection(c) PROVE StartInv'
  <2>1. CASE HandshakeAccepted(c) \/ HandshakeRejected(c) \/ MessageHandled(c)
             \/ ImageRejected(c) \/ LinkLost(c) \/ LinkDrained(c)
    <3>1. UNCHANGED <<out, home, streams, chatConn>>
      BY <2>1 DEF HandshakeAccepted, HandshakeRejected, MessageHandled, ImageRejected,
                  LinkLost, LinkDrained, registry, history
    <3>2. \A d \in Conns : handler[d] # "new" =>
            handler'[d] # "new" /\ (link'[d] = "open" => link[d] = "open")
      BY <1>0, <2>1 DEF HandshakeAccepted, HandshakeRejected, MessageHandled, ImageRejected,
                        LinkLost, LinkDrained, TypeOK
    <3> QED BY <3>1, <3>2, QuietStepKeepsStart
  <2>2. CASE HandlerSendReturns(c)
    <3>1. \A s \in streams' : s \in streams /\ chatConn'[ChatOf[s]] = chatConn[ChatOf[s]]
      BY <2>2, SendReturnsKeepsOwners DEF HandlerSendReturns
    <3> QED BY <1>0, <2>2, <3>1, QuietStepKeepsStart DEF HandlerSendReturns, history, TypeOK
  <2>3. CASE HandlerExit(c)
    <3>1. \A s \in streams' : s \in streams /\ chatConn'[ChatOf[s]] = chatConn[ChatOf[s]]
      BY <1>0, <2>3 DEF HandlerExit, DetachConnection, DropChats, WithoutChatsOf, PurgeStreams,
                        TypeOK
    <3> QED BY <1>0, <2>3, <3>1, QuietStepKeepsStart DEF HandlerExit, history, TypeOK
  <2>4. ASSUME NEW ch \in Chats, NEW flag \in Inbound, NEW voice \in Voices \cup {None},
               InboundMessage(c, ch, flag, voice)
        PROVE StartInv'
    <3>1. \A s \in Streams : home'[s] = IF ChatOf[s] = ch /\ s \in streams /\ home[s] # c
                                        THEN "moved" ELSE home[s]
      BY <2>4 DEF InboundMessage
    <3>2. UNCHANGED <<out, link, streams>> /\ chatConn' = [chatConn EXCEPT ![ch] = c]
          /\ handler' = [handler EXCEPT ![c] = "handling"]
      BY <2>4 DEF InboundMessage
    <3>3. StreamsAnnounced'
      BY <1>0, <3>1, <3>2 DEF StartInv, StreamsAnnounced, Announced, TypeOK
    <3>4. CallAnnounced'
      BY <1>0, <3>1, <3>2 DEF StartInv, CallAnnounced, Announced, TypeOK, OutCall
    <3>5. FramesFollowStart'
      BY <1>0, <3>1, <3>2 DEF StartInv, FramesFollowStart, TypeOK, OutCall
    <3> QED BY <3>3, <3>4, <3>5 DEF StartInv
  <2> QED BY <1>3, <2>1, <2>2, <2>3, <2>4 DEF Connection
<1>4. ASSUME NEW s \in Streams, NEW text \in BOOLEAN, NEW end \in BOOLEAN,
             DropDelta(s, text, end) \/ SendDelta(s, text, end)
      PROVE StartInv'
  <2>1. CASE DropDelta(s, text, end)
    BY <2>1, QuietStepKeepsStart DEF DropDelta, registry
  <2>2. CASE SendDelta(s, text, end)
    <3>1. CASE s \in streams
      <4>1. /\ chatConn[ChatOf[s]] # None /\ UNCHANGED <<link, handler, chatConn, streams>>
            /\ PutFrame(chatConn[ChatOf[s]], s, IF end THEN "end" ELSE "delta", "nothing")
        BY <2>2, <3>1 DEF SendDelta, registry
      <4>2. CASE end
        <5>1. PutFrame(chatConn[ChatOf[s]], s, "end", "nothing")
          BY <4>1, <4>2
        <5> QED BY <3>1, <4>1, <5>1, FrameKeepsStart
      <4>3. CASE ~end
        <5>1. PutFrame(chatConn[ChatOf[s]], s, "delta", "nothing")
          BY <4>1, <4>3
        <5> QED BY <3>1, <4>1, <5>1, FrameKeepsStart
      <4> QED BY <4>2, <4>3
    <3>2. CASE s \notin streams
      BY <2>2, <3>2, FrameKeepsStart DEF SendDelta, Register
    <3> QED BY <3>1, <3>2
  <2> QED BY <1>4, <2>1, <2>2
<1>5. ASSUME NEW s \in Streams, SendStreamStart(s) \/ SendStreamEnd(s) PROVE StartInv'
  <2>1. CASE SendStreamStart(s)
    BY <2>1, FrameKeepsStart DEF SendStreamStart, Register
  <2>2. CASE SendStreamEnd(s)
    BY <2>2, FrameKeepsStart DEF SendStreamEnd, registry
  <2> QED BY <1>5, <2>1, <2>2
<1>6. CASE DeltaResumes \/ OutboundReturns
  <2>1. out.conn \in Conns /\ out.stream \in Streams /\ SendReturns(out.conn, out.sent)
    BY <1>0, <1>6 DEF DeltaResumes, OutboundReturns, TypeOK, OutCall
  <2>2. \A s \in streams' : s \in streams /\ chatConn'[ChatOf[s]] = chatConn[ChatOf[s]]
    BY <2>1, SendReturnsKeepsOwners
  <2>3. UNCHANGED <<link, handler, home>>
    <3>1. CASE OutboundReturns
      BY <3>1 DEF OutboundReturns, history
    <3>2. CASE DeltaResumes
      BY <1>0, <3>2 DEF DeltaResumes, PutFrame, TypeOK, OutCall
    <3> QED BY <1>6, <3>1, <3>2
  <2>4. StreamsAnnounced'
    BY <2>2, <2>3 DEF StartInv, StreamsAnnounced, Announced
  <2>5. CallAnnounced' /\ FramesFollowStart'
    <3>1. CASE OutboundReturns
      BY <3>1 DEF OutboundReturns, CallAnnounced, FramesFollowStart
    <3>2. CASE DeltaResumes
      BY <2>1, <2>3, <3>2
        DEF DeltaResumes, PutFrame, StartInv, CallAnnounced, Announced, FramesFollowStart
    <3> QED BY <1>6, <3>1, <3>2
  <2> QED BY <2>4, <2>5 DEF StartInv
<1>7. ASSUME NEW k \in Chunks, Delivery(k) PROVE StartInv'
  <2>1. CASE SendTTSChunk(k)
    BY <2>1, QuietStepKeepsStart DEF SendTTSChunk, registry, history
  <2>2. CASE TTSChunkReturns(k)
    <3>1. chunk[k].conn \in Conns /\ SendReturns(chunk[k].conn, chunk[k].sent)
      BY <1>0, <2>2 DEF TTSChunkReturns, TypeOK, ChunkCall
    <3>2. \A s \in streams' : s \in streams /\ chatConn'[ChatOf[s]] = chatConn[ChatOf[s]]
      BY <3>1, SendReturnsKeepsOwners
    <3> QED BY <2>2, <3>2, QuietStepKeepsStart DEF TTSChunkReturns, history
  <2> QED BY <1>7, <2>1, <2>2 DEF Delivery
<1> QED BY <1>1, <1>2, <1>3, <1>4, <1>5, <1>6, <1>7 DEF Next, Outbound

(* No socket is sent a delta of a stream before that stream's stream_start,  *)
(* as long as the chat has not changed sockets under the stream.             *)
THEOREM DeltasFollowTheStart == Spec => []FramesFollowStart
<1>1. Init => StartInv
  BY DEF Init, StartInv, StreamsAnnounced, CallAnnounced, FramesFollowStart
<1>2. StartInv => FramesFollowStart
  BY DEF StartInv
<1> QED BY <1>1, <1>2, StartStep, InitInvariant, InvariantStep, PTL DEF Spec

-----------------------------------------------------------------------------
(* The channel implements ChatOwnership.                                     *)

(* _detach_connection purges every stream of a chat nobody serves; where all *)
(* streams are attached, those are the streams of the connection's own chats.*)
LEMMA DetachForgets ==
  ASSUME IInv, NEW c \in Conns, DetachConnection(c)
  PROVE  Ownership!Forget(c)
  <1> USE ConstantsAssumption
  <1>1. chatConn' = [ch \in Chats |-> IF chatConn[ch] = c THEN None ELSE chatConn[ch]]
    BY DEF DetachConnection, DropChats, WithoutChatsOf
  <1>2. streams' = {s \in streams : chatConn[ChatOf[s]] # c}
    BY <1>1 DEF DetachConnection, PurgeStreams, IInv, TypeOK, StreamsAttached
  <1>3. current' = IF current \in streams' THEN current ELSE None
    BY <1>2 DEF DetachConnection, PurgeStreams, IInv, TypeOK, CurrentRegistered
  <1> QED BY <1>1, <1>2, <1>3 DEF Ownership!Forget

(* Every behaviour of the channel is one of ChatOwnership, under the mapping *)
(* of Ownership: claims come from served connections, streams open only on   *)
(* an owned chat, and a loss closes exactly what the lost connection owned.  *)
THEOREM ChannelImplementsOwnership == Spec => ImplementsOwnership
<1> USE ConstantsAssumption
<1>1. Init => Ownership!Init
  BY DEF Init, Ownership!Init, Served
<1>2. IInv /\ [Next]_vars => [Ownership!Next]_(Ownership!vars)
  <2> DEFINE serving == [c \in Conns |-> IF Served(c) THEN "serving"
                             ELSE IF handler[c] = "done" THEN "gone" ELSE "new"]
             Goal == [Ownership!Next]_(Ownership!vars)
  <2> SUFFICES ASSUME IInv, [Next]_vars PROVE Goal
    OBVIOUS
  <2>0. TypeOK
    BY DEF IInv
  <2>a. ASSUME UNCHANGED registry, serving' = serving PROVE Goal
    BY <2>a DEF registry, Ownership!vars
  <2>b. ASSUME UNCHANGED handler PROVE serving' = serving
    BY <2>b DEF Served
  <2>c. ASSUME NEW c \in Conns, NEW sent, SendReturns(c, sent), serving' = serving
        PROVE Goal
    <3>1. CASE UNCHANGED registry
      BY <2>a, <2>c, <3>1
    <3>2. CASE DetachConnection(c)
      BY <2>c, <3>2, DetachForgets DEF Ownership!Next, Ownership!Drop
    <3> QED BY <2>c, <3>1, <3>2 DEF SendReturns
  <2>d. ASSUME NEW s \in Streams, Register(s), chatConn[ChatOf[s]] # None,
               UNCHANGED handler
        PROVE Goal
    BY <2>b, <2>d DEF Register, Ownership!Next, Ownership!Open
  <2>1. CASE Start \/ Stop
    BY <2>a, <2>b, <2>1 DEF Start, Stop
  <2>2. CASE StopGraceful \/ StopTimesOut
    BY <2>b, <2>2 DEF StopGraceful, StopTimesOut, StopClears, Ownership!Next,
                      Ownership!Shutdown
  <2>3. ASSUME NEW c \in Conns, Connection(c) PROVE Goal
    <3>1. CASE HandshakeAccepted(c)
      <4>1. serving[c] = "new" /\ serving' = [serving EXCEPT ![c] = "serving"]
        BY <2>0, <3>1 DEF HandshakeAccepted, Served, TypeOK
      <4> QED BY <3>1, <4>1 DEF HandshakeAccepted, Ownership!Next, Ownership!Accept
    <3>2. CASE HandshakeRejected(c)
      <4>1. serving[c] = "new" /\ serving' = [serving EXCEPT ![c] = "gone"]
        BY <2>0, <3>2 DEF HandshakeRejected, Served, TypeOK
      <4> QED BY <3>2, <4>1 DEF HandshakeRejected, registry, Ownership!Next, Ownership!Refuse
    <3>3. CASE HandlerSendReturns(c)
      <4>1. serving' = serving
        BY <2>0, <3>3 DEF HandlerSendReturns, Served, TypeOK
      <4> QED BY <2>c, <3>3, <4>1 DEF HandlerSendReturns
    <3>4. CASE MessageHandled(c) \/ ImageRejected(c)
      <4>1. serving' = serving
        BY <2>0, <3>4 DEF MessageHandled, ImageRejected, CanRead, Served, TypeOK
      <4> QED BY <2>a, <3>4, <4>1 DEF MessageHandled, ImageRejected
    <3>5. CASE HandlerExit(c)
      <4>1. serving[c] = "serving" /\ serving' = [serving EXCEPT ![c] = "gone"]
        BY <2>0, <3>5 DEF HandlerExit, Served, TypeOK
      <4>2. Ownership!Forget(c)
        BY <3>5, DetachForgets DEF HandlerExit
      <4> QED BY <4>1, <4>2 DEF Ownership!Next, Ownership!Leave
    <3>6. CASE LinkLost(c) \/ LinkDrained(c)
      BY <2>a, <2>b, <3>6 DEF LinkLost, LinkDrained
    <3>7. ASSUME NEW ch \in Chats, NEW flag \in Inbound, NEW voice \in Voices \cup {None},
                 InboundMessage(c, ch, flag, voice)
          PROVE Goal
      <4>1. serving[c] = "serving" /\ serving' = serving
        BY <2>0, <3>7 DEF InboundMessage, CanRead, Served, TypeOK
      <4> QED BY <3>7, <4>1 DEF InboundMessage, Ownership!Next, Ownership!Claim
    <3> QED BY <2>3, <3>1, <3>2, <3>3, <3>4, <3>5, <3>6, <3>7 DEF Connection
  <2>4. CASE Outbound
    <3>1. ASSUME NEW s \in Streams, NEW text \in BOOLEAN, NEW end \in BOOLEAN,
                 DropDelta(s, text, end)
          PROVE Goal
      BY <2>a, <2>b, <3>1 DEF DropDelta
    <3>2. ASSUME NEW s \in Streams, NEW text \in BOOLEAN, NEW end \in BOOLEAN,
                 SendDelta(s, text, end)
          PROVE Goal
      BY <2>a, <2>b, <2>d, <3>2 DEF SendDelta
    <3>3. ASSUME NEW s \in Streams, SendStreamStart(s) PROVE Goal
      BY <2>d, <3>3 DEF SendStreamStart
    <3>4. ASSUME NEW s \in Streams, SendStreamEnd(s) PROVE Goal
      BY <2>a, <2>b, <3>4 DEF SendStreamEnd
    <3>5. CASE DeltaResumes \/ OutboundReturns
      <4>1. out.conn \in Conns /\ SendReturns(out.conn, out.sent) /\ UNCHANGED handler
        BY <2>0, <3>5 DEF DeltaResumes, OutboundReturns, TypeOK, OutCall
      <4> QED BY <2>b, <2>c, <4>1
    <3> QED BY <2>4, <3>1, <3>2, <3>3, <3>4, <3>5 DEF Outbound
  <2>5. ASSUME NEW k \in Chunks, Delivery(k) PROVE Goal
    <3>1. CASE SendTTSChunk(k)
      BY <2>a, <2>b, <3>1 DEF SendTTSChunk
    <3>2. CASE TTSChunkReturns(k)
      <4>1. chunk[k].conn \in Conns /\ SendReturns(chunk[k].conn, chunk[k].sent)
            /\ UNCHANGED handler
        BY <2>0, <3>2 DEF TTSChunkReturns, TypeOK, ChunkCall
      <4> QED BY <2>b, <2>c, <4>1
    <3> QED BY <2>5, <3>1, <3>2 DEF Delivery
  <2>6. CASE UNCHANGED vars
    BY <2>a, <2>b, <2>6 DEF vars
  <2> QED BY <2>1, <2>2, <2>3, <2>4, <2>5, <2>6 DEF Next
<1> QED BY <1>1, <1>2, InitInvariant, InvariantStep, PTL
      DEF Spec, ImplementsOwnership, Ownership!Spec

-------------------------------------------------------------------------------
(* Hook and channel composed.                                                *)

(* NothingHandedOverLate says of which turn a frame may be at the moment it  *)
(* is put on a socket.  The invariant says it of every task there is, heard  *)
(* or not: the turn that dispatched it has not been settled.  When a barrier *)
(* settles a session's turns, no task of the session is left, as each one    *)
(* that could go on was tracked, and so has been waited for or cancelled.    *)

HookTypes ==
  /\ bucket \in [Sessions -> Hook!Bucket \cup {None}]
  /\ task \in [Chunks -> Hook!TaskRec \cup {None}]
  /\ turnStream = [s \in Sessions |-> turnStream[s]]
  /\ unsettled = [s \in Sessions |-> unsettled[s]]

(* A slot is kept only while its session has a bucket.                       *)
TasksHaveBuckets == \A t \in Chunks : task[t] # None => bucket[task[t].session] # None

RunningTurnsUnsettled ==
  \A s \in Sessions :
    pc[s] # "idle" /\ SessionChat[s] # None => turnStream[s] \in unsettled[s]

TasksOfUnsettledTurns ==
  \A t \in Chunks : task[t] # None => turnOf[t] \in unsettled[task[t].session]

PInv ==
  /\ HookTypes
  /\ Hook!LiveTasksTracked
  /\ TextChannelsNeverSpoken
  /\ TasksHaveBuckets
  /\ pc = [s \in Sessions |-> pc[s]]
  /\ RunningTurnsUnsettled
  /\ TasksOfUnsettledTurns

(* The part of the invariant that the hook's variables decide. *)
HookInv ==
  /\ HookTypes /\ Hook!LiveTasksTracked
  /\ TextChannelsNeverSpoken /\ TasksHaveBuckets

(* A delta that speaks nothing leaves the numbers and the tasks of its       *)
(* bucket alone.                                                             *)
LEMMA SilentDeltaKeepsInvariant ==
  ASSUME HookInv, NEW s \in Sessions, NEW b \in Hook!Bucket,
         bucket[s] # None => b.seq = bucket[s].seq /\ b.pending = bucket[s].pending,
         bucket[s] = None => b.seq = 0,
         bucket' = [bucket EXCEPT ![s] = b], UNCHANGED <<task, turnStream, unsettled>>
  PROVE  HookInv'
<1>1. HookTypes'
  BY DEF HookInv, HookTypes
<1>2. b # None
  BY HookDataAssumption
<1>3. Hook!LiveTasksTracked'
  BY <1>2 DEF HookInv, HookTypes, Hook!LiveTasksTracked, Hook!Live, Hook!TaskRec
<1>4. TextChannelsNeverSpoken'
  BY DEF HookInv, HookTypes, TextChannelsNeverSpoken
<1>5. TasksHaveBuckets'
  BY <1>2 DEF HookInv, HookTypes, TasksHaveBuckets
<1> QED BY <1>1, <1>3, <1>4, <1>5 DEF HookInv

(* A sentence is dispatched only if the sink wants it, hence in a streaming  *)
(* session.                                                                  *)
LEMMA DispatchKeepsInvariant ==
  ASSUME HookInv, NEW s \in Sessions, NEW t \in Chunks, NEW b \in Hook!Bucket,
         bucket[s] # None => b.pending = bucket[s].pending,
         Hook!Dispatched(s, t, b),
         bucket' = [bucket EXCEPT ![s] = Hook!WithTask(b, t)], UNCHANGED <<turnStream, unsettled>>
  PROVE  /\ HookInv' /\ s \in Streaming /\ task[t] = None /\ task'[t].session = s
         /\ \A u \in Chunks : u # t => task'[u] = task[u]
<1> DEFINE new == [session |-> s, seq |-> b.seq, voice |-> None, at |-> "scheduled"]
<1>1. s \in Streaming /\ task[t] = None /\ task' = [task EXCEPT ![t] = new]
  BY DEF Hook!Dispatched, IsEnabled
<1>2. new \in Hook!TaskRec
  BY DEF Hook!TaskRec, Hook!Bucket
<1>3. /\ Hook!WithTask(b, t) \in Hook!Bucket
      /\ Hook!WithTask(b, t).pending = b.pending \cup {t}
  BY DEF Hook!WithTask, Hook!Bucket
<1>4. new # None /\ Hook!WithTask(b, t) # None
  BY <1>2, <1>3, HookDataAssumption
<1>5. HookTypes'
  BY <1>1, <1>2, <1>3 DEF HookInv, HookTypes
<1>6. Hook!LiveTasksTracked'
  BY <1>1, <1>3, <1>4 DEF HookInv, HookTypes, Hook!LiveTasksTracked, Hook!Live, Hook!TaskRec
<1>7. TextChannelsNeverSpoken'
  BY <1>1 DEF HookInv, HookTypes, TextChannelsNeverSpoken
<1>8. task'[t].session = s /\ \A u \in Chunks : u # t => task'[u] = task[u]
  BY <1>1 DEF HookInv, HookTypes
<1>9. TasksHaveBuckets'
  BY <1>1, <1>4, <1>8 DEF HookInv, HookTypes, TasksHaveBuckets
<1> QED BY <1>1, <1>5, <1>6, <1>7, <1>8, <1>9 DEF HookInv

(* A bucket goes only when every task of its session has ended, and none of  *)
(* them is left.                                                             *)
LEMMA DropKeepsInvariant ==
  ASSUME HookInv, NEW s \in Sessions, NEW tasks,
         Hook!DropBucket(s, tasks),
         \A t \in Chunks :
           \/ tasks[t] = task[t]
           \/ /\ tasks[t] \in Hook!TaskRec /\ task[t] # None
              /\ tasks[t].session = task[t].session /\ tasks[t].at = "cancelled",
         \A t \in Chunks : tasks[t] # None /\ tasks[t].session = s
           => tasks[t].at \in {"done", "cancelled"},
         turnStream' = [r \in Sessions |-> turnStream'[r]],
         unsettled' = [r \in Sessions |-> unsettled'[r]]
  PROVE  /\ HookInv'
         /\ \A t \in Chunks : task'[t] # None =>
              task[t] # None /\ task'[t].session = task[t].session /\ task[t].session # s
<1>1. /\ bucket' = [bucket EXCEPT ![s] = None]
      /\ task' = [t \in Chunks |->
                    IF tasks[t] # None /\ tasks[t].session = s
                       /\ tasks[t].at \in {"done", "cancelled"}
                    THEN None ELSE tasks[t]]
  BY DEF Hook!DropBucket
<1>2. HookTypes'
  BY <1>1 DEF HookInv, HookTypes
<1>3. Hook!LiveTasksTracked'
  BY <1>1 DEF HookInv, HookTypes, Hook!LiveTasksTracked, Hook!Live, Hook!TaskRec
<1>4. TextChannelsNeverSpoken'
  BY <1>1 DEF HookInv, HookTypes, TextChannelsNeverSpoken
<1>5. \A t \in Chunks : task'[t] # None =>
        task[t] # None /\ task'[t].session = task[t].session /\ task[t].session # s
  BY <1>1
<1>6. TasksHaveBuckets'
  BY <1>1, <1>5 DEF HookInv, HookTypes, TasksHaveBuckets
<1> QED BY <1>2, <1>3, <1>4, <1>5, <1>6 DEF HookInv

(* A synthesis task goes on. *)
LEMMA MoveKeepsInvariant ==
  ASSUME HookInv, NEW t \in Chunks, NEW from, NEW to \in {"synth", "emitting", "done"},
         Hook!Moves(t, from, to), from \in {"scheduled", "synth", "emitting"},
         UNCHANGED <<turnStream, unsettled>>
  PROVE  /\ HookInv'
         /\ \A u \in Chunks : task'[u] # None => task[u] # None /\ task'[u].session = task[u].session
<1>1. /\ task[t] # None /\ task[t].at = from /\ task' = [task EXCEPT ![t].at = to]
      /\ bucket' = bucket
  BY DEF Hook!Moves
<1>2. task[t] \in Hook!TaskRec /\ task'[t] = [task[t] EXCEPT !.at = to]
  BY <1>1 DEF HookInv, HookTypes
<1>3. task'[t] \in Hook!TaskRec /\ task'[t].session = task[t].session /\ task'[t].at = to
  BY <1>2 DEF Hook!TaskRec
<1>4. \A u \in Chunks : u # t => task'[u] = task[u]
  BY <1>1 DEF HookInv, HookTypes
<1>5. HookTypes'
  BY <1>1, <1>3, <1>4 DEF HookInv, HookTypes
<1>6. Hook!LiveTasksTracked'
  BY <1>1, <1>3, <1>4 DEF HookInv, Hook!LiveTasksTracked, Hook!Live
<1>7. TextChannelsNeverSpoken'
  BY <1>1, <1>3, <1>4 DEF HookInv, TextChannelsNeverSpoken
<1>8. TasksHaveBuckets'
  BY <1>1, <1>3, <1>4 DEF HookInv, TasksHaveBuckets
<1> QED BY <1>1, <1>3, <1>4, <1>5, <1>6, <1>7, <1>8 DEF HookInv

(* Dispatching attributes the new task to the running turn. *)
LEMMA AttributedToRunningTurn ==
  ASSUME PInv, NEW s \in Sessions, pc[s] # "idle", NEW t \in Chunks, s \in Streaming,
         task[t] = None, task'[t].session = s,
         \A u \in Chunks : u # t => task'[u] = task[u],
         Attribute(s), UNCHANGED unsettled
  PROVE  TasksOfUnsettledTurns'
<1>1. turnStream[s] \in unsettled[s]
  BY PipelineAssumption DEF PInv, RunningTurnsUnsettled
<1>2. \A u \in Chunks : task'[u] # None =>
        turnOf'[u] = IF task[u] = None THEN turnStream[s] ELSE turnOf[u]
  BY DEF Attribute
<1>3. ASSUME NEW u \in Chunks, task'[u] # None PROVE turnOf'[u] \in unsettled'[task'[u].session]
  <2>1. CASE u = t
    BY <1>1, <1>2, <1>3, <2>1
  <2>2. CASE u # t
    BY <1>2, <1>3, <2>2 DEF PInv, TasksOfUnsettledTurns
  <2> QED BY <2>1, <2>2
<1> QED BY <1>3 DEF TasksOfUnsettledTurns

(* No new task: whoever is attributed keeps its turn. *)
LEMMA OldTasksKeepTheirTurn ==
  ASSUME PInv, NEW s \in Sessions, Attribute(s) \/ turnOf' = turnOf,
         \A u \in Chunks : task'[u] # None =>
           /\ task[u] # None /\ task'[u].session = task[u].session
           /\ unsettled[task[u].session] \subseteq unsettled'[task[u].session]
  PROVE  TasksOfUnsettledTurns'
<1>1. \A u \in Chunks : task'[u] # None => turnOf'[u] = turnOf[u]
  BY DEF Attribute
<1> QED BY <1>1 DEF PInv, TasksOfUnsettledTurns

LEMMA PipelineStart == PipelineInit => PInv
BY DEF PipelineInit, Init, Hook!HookInit, PInv, HookTypes, Hook!LiveTasksTracked, Hook!Live,
       TextChannelsNeverSpoken, TasksHaveBuckets, RunningTurnsUnsettled, TasksOfUnsettledTurns

(* on_stream_end is past its barrier, if it had one, and drops the bucket.   *)
LEMMA SettlingKeepsInvariant ==
  ASSUME PInv, NEW s \in Sessions, NEW tasks, Hook!DropBucket(s, tasks),
         \A t \in Chunks :
           \/ tasks[t] = task[t]
           \/ /\ tasks[t] \in Hook!TaskRec /\ task[t] # None
              /\ tasks[t].session = task[t].session /\ tasks[t].at = "cancelled",
         \A t \in Chunks : tasks[t] # None /\ tasks[t].session = s
           => tasks[t].at \in {"done", "cancelled"},
         pc' = [pc EXCEPT ![s] = "idle"], Settle(s), UNCHANGED turnStream
  PROVE  PInv'
<1>1. /\ unsettled' = [unsettled EXCEPT ![s] = {}] /\ Attribute(s)
      /\ pc' = [r \in Sessions |-> pc'[r]] /\ pc'[s] = "idle"
  BY DEF Settle, PInv
<1>2. /\ turnStream' = [r \in Sessions |-> turnStream'[r]]
      /\ unsettled' = [r \in Sessions |-> unsettled'[r]]
      /\ \A r \in Sessions : r # s => unsettled'[r] = unsettled[r]
  BY <1>1 DEF PInv, HookTypes
<1>3. /\ HookInv'
      /\ \A t \in Chunks : task'[t] # None =>
           task[t] # None /\ task'[t].session = task[t].session /\ task[t].session # s
  BY <1>2, DropKeepsInvariant DEF PInv, HookInv
<1>4. \A t \in Chunks : task'[t] # None => task[t].session \in Sessions
  BY <1>3 DEF PInv, HookTypes, Hook!TaskRec
<1>5. TasksOfUnsettledTurns'
  BY <1>1, <1>2, <1>3, <1>4, OldTasksKeepTheirTurn
<1>6. RunningTurnsUnsettled'
  BY <1>1, <1>2 DEF PInv, RunningTurnsUnsettled
<1> QED BY <1>1, <1>3, <1>5, <1>6 DEF PInv, HookInv

LEMMA PipelineStep == PInv /\ [PipelineNext]_pipelineVars => PInv'
<1> SUFFICES ASSUME PInv, [PipelineNext]_pipelineVars PROVE PInv'
  OBVIOUS
<1>0. HookTypes /\ HookInv
  BY DEF PInv, HookInv
<1>1. CASE ChannelStep \/ Dispatch \/ FrameArrives \/ UNCHANGED pipelineVars
  <2>1. UNCHANGED <<pc, bucket, task, turnStream, turnOf, unsettled>>
    BY <1>1 DEF ChannelStep, Dispatch, FrameArrives, pipelineVars, delivery
  <2> QED BY <2>1 DEF PInv, HookTypes, Hook!LiveTasksTracked, Hook!Live, TextChannelsNeverSpoken,
        TasksHaveBuckets, RunningTurnsUnsettled, TasksOfUnsettledTurns
<1>2. ASSUME NEW s \in Sessions, TurnBegins(s) PROVE PInv'
  <2>1. /\ pc' = [pc EXCEPT ![s] = "streaming"] /\ UNCHANGED <<bucket, task, turnOf>>
        /\ \E st \in Streams \cup {None} :
             turnStream' = [turnStream EXCEPT ![s] = st]
             /\ unsettled' = [unsettled EXCEPT ![s] = unsettled[s] \cup {st}]
    BY <1>2 DEF TurnBegins, Hook!TurnBegins
  <2>2. HookTypes' /\ pc' = [r \in Sessions |-> pc'[r]]
    BY <2>1 DEF PInv, HookTypes
  <2>3. \A r \in Sessions : unsettled[r] \subseteq unsettled'[r]
    BY <1>0, <2>1 DEF HookTypes
  <2>4. RunningTurnsUnsettled'
    BY <1>0, <2>1 DEF PInv, HookTypes, RunningTurnsUnsettled
  <2>5. TasksOfUnsettledTurns'
    <3>1. \A u \in Chunks : task[u] # None => task[u].session \in Sessions
      BY <1>0 DEF HookTypes, Hook!TaskRec
    <3> QED BY <2>1, <2>3, <3>1, OldTasksKeepTheirTurn
  <2>6. Hook!LiveTasksTracked' /\ TextChannelsNeverSpoken' /\ TasksHaveBuckets'
    BY <2>1 DEF PInv, Hook!LiveTasksTracked, Hook!Live, TextChannelsNeverSpoken, TasksHaveBuckets
  <2> QED BY <2>2, <2>4, <2>5, <2>6 DEF PInv
<1>3. ASSUME NEW s \in Sessions, TurnAborted(s) PROVE PInv'
  <2>1. /\ pc' = [pc EXCEPT ![s] = "idle"]
        /\ UNCHANGED <<bucket, task, turnStream, turnOf, unsettled>>
    BY <1>3 DEF TurnAborted, Hook!TurnAborted, delivery
  <2>2. HookTypes' /\ pc' = [r \in Sessions |-> pc'[r]] /\ TasksOfUnsettledTurns'
    BY <2>1 DEF PInv, HookTypes, TasksOfUnsettledTurns
  <2>3. RunningTurnsUnsettled'
    BY <2>1 DEF PInv, RunningTurnsUnsettled
  <2>4. Hook!LiveTasksTracked' /\ TextChannelsNeverSpoken' /\ TasksHaveBuckets'
    BY <2>1 DEF PInv, Hook!LiveTasksTracked, Hook!Live, TextChannelsNeverSpoken, TasksHaveBuckets
  <2> QED BY <2>2, <2>3, <2>4 DEF PInv
<1>4. ASSUME NEW s \in Sessions, NEW b \in Hook!Bucket,
             bucket[s] # None => b.seq = bucket[s].seq /\ b.pending = bucket[s].pending,
             bucket[s] = None => b.seq = 0,
             pc[s] # "idle", pc' = [pc EXCEPT ![s] = pc'[s]], Attribute(s),
             UNCHANGED <<turnStream, unsettled>>,
             \/ bucket' = [bucket EXCEPT ![s] = b] /\ task' = task
             \/ \E t \in Chunks : /\ Hook!Dispatched(s, t, b)
                                  /\ bucket' = [bucket EXCEPT ![s] = Hook!WithTask(b, t)]
      PROVE  PInv'
  <2>1. pc' = [r \in Sessions |-> pc'[r]] /\ RunningTurnsUnsettled'
    <3>1. \A r \in Sessions : r # s => pc'[r] = pc[r]
      BY <1>4 DEF PInv
    <3> QED BY <1>4, <3>1 DEF PInv, RunningTurnsUnsettled
  <2>2. CASE bucket' = [bucket EXCEPT ![s] = b] /\ task' = task
    <3>1. HookInv'
      BY <1>0, <1>4, <2>2, SilentDeltaKeepsInvariant
    <3>2. TasksOfUnsettledTurns'
      BY <1>4, <2>2, OldTasksKeepTheirTurn
    <3> QED BY <2>1, <3>1, <3>2 DEF PInv, HookInv
  <2>3. ASSUME NEW t \in Chunks, Hook!Dispatched(s, t, b),
               bucket' = [bucket EXCEPT ![s] = Hook!WithTask(b, t)]
        PROVE  PInv'
    <3>1. /\ HookInv' /\ s \in Streaming /\ task[t] = None /\ task'[t].session = s
          /\ \A u \in Chunks : u # t => task'[u] = task[u]
      BY <1>0, <1>4, <2>3, DispatchKeepsInvariant
    <3>2. TasksOfUnsettledTurns'
      BY <1>4, <3>1, AttributedToRunningTurn
    <3> QED BY <2>1, <3>1, <3>2 DEF PInv, HookInv
  <2> QED BY <1>4, <2>2, <2>3
<1>5. ASSUME NEW s \in Sessions, NEW text \in BOOLEAN, TurnDelta(s, text) PROVE PInv'
  <2> DEFINE b == [Hook!StateFor(s) EXCEPT !.text = text]
  <2>1. /\ b \in Hook!Bucket
        /\ bucket[s] # None => b.seq = bucket[s].seq /\ b.pending = bucket[s].pending
        /\ bucket[s] = None => b.seq = 0
    BY <1>0 DEF HookTypes, Hook!StateFor, Hook!Bucket
  <2>2. Hook!OnStream(s, text) /\ Attribute(s) /\ UNCHANGED <<turnStream, unsettled>>
    BY <1>5 DEF TurnDelta
  <2>3. pc[s] # "idle" /\ pc' = [pc EXCEPT ![s] = pc'[s]]
    BY <2>2 DEF Hook!OnStream, PInv
  <2>4. \/ bucket' = [bucket EXCEPT ![s] = b] /\ task' = task
        \/ \E t \in Chunks : /\ Hook!Dispatched(s, t, b)
                             /\ bucket' = [bucket EXCEPT ![s] = Hook!WithTask(b, t)]
    BY <2>2 DEF Hook!OnStream
  <2> HIDE DEF b
  <2> QED BY <1>4, <2>1, <2>2, <2>3, <2>4
<1>6. ASSUME NEW s \in Sessions, TurnEnds(s) PROVE PInv'
  <2>0. Settle(s) /\ turnStream' = turnStream
    BY <1>6 DEF TurnEnds
  <2>1. CASE Hook!EndWithoutBucket(s)
    <3>1. /\ bucket[s] = None /\ pc' = [pc EXCEPT ![s] = "idle"] /\ UNCHANGED <<bucket, task>>
      BY <2>1 DEF Hook!EndWithoutBucket
    <3>2. pc'[s] = "idle" /\ \A r \in Sessions : r # s => pc'[r] = pc[r]
      BY <3>1 DEF PInv
    <3>3. unsettled' = [unsettled EXCEPT ![s] = {}] /\ Attribute(s)
      BY <2>0, <3>2 DEF Settle
    <3>4. \A r \in Sessions : r # s => unsettled'[r] = unsettled[r]
      BY <1>0, <3>3 DEF HookTypes
    <3>5. HookTypes' /\ pc' = [r \in Sessions |-> pc'[r]]
      BY <2>0, <3>1, <3>3 DEF PInv, HookTypes
    <3>6. \A u \in Chunks : task[u] # None => task[u].session \in Sessions /\ task[u].session # s
      BY <1>0, <3>1 DEF PInv, HookTypes, Hook!TaskRec, TasksHaveBuckets
    <3>7. TasksOfUnsettledTurns'
      BY <3>1, <3>3, <3>4, <3>6, OldTasksKeepTheirTurn
    <3>8. RunningTurnsUnsettled'
      BY <2>0, <3>2, <3>4 DEF PInv, RunningTurnsUnsettled
    <3>9. Hook!LiveTasksTracked' /\ TextChannelsNeverSpoken' /\ TasksHaveBuckets'
      BY <3>1 DEF PInv, Hook!LiveTasksTracked, Hook!Live, TextChannelsNeverSpoken, TasksHaveBuckets
    <3> QED BY <3>5, <3>7, <3>8, <3>9 DEF PInv
  <2>2. CASE Hook!OnStreamEnd(s)
    <3> DEFINE b == [bucket[s] EXCEPT !.text = FALSE]
    <3>1. bucket[s] # None /\ pc[s] # "idle"
      BY <2>2 DEF Hook!OnStreamEnd
    <3>2. b \in Hook!Bucket /\ b.seq = bucket[s].seq /\ b.pending = bucket[s].pending
      BY <1>0, <3>1 DEF HookTypes, Hook!Bucket
    <3>3. CASE b.pending = {} /\ Hook!DropBucket(s, task) /\ pc' = [pc EXCEPT ![s] = "idle"]
      <4>1. \A t \in Chunks : task[t] # None /\ task[t].session = s
              => task[t].at \in {"done", "cancelled"}
        BY <1>0, <3>2, <3>3 DEF PInv, HookTypes, Hook!LiveTasksTracked, Hook!Live, Hook!TaskRec
      <4> QED BY <2>0, <3>3, <4>1, SettlingKeepsInvariant
    <3>4. CASE pc' = [pc EXCEPT ![s] = "barrier"]
      <4>1. pc'[s] = "barrier" /\ pc' = [pc EXCEPT ![s] = pc'[s]]
        BY <3>4 DEF PInv
      <4>2. Attribute(s) /\ unsettled' = unsettled
        BY <2>0, <4>1 DEF Settle
      <4>3. \/ bucket' = [bucket EXCEPT ![s] = b] /\ task' = task
            \/ \E t \in Chunks : /\ Hook!Dispatched(s, t, b)
                                 /\ bucket' = [bucket EXCEPT ![s] = Hook!WithTask(b, t)]
        <5>1. pc'[s] # "idle"
          BY <4>1
        <5>2. pc' # [pc EXCEPT ![s] = "idle"]
          BY <5>1 DEF PInv
        <5> QED BY <2>2, <5>2 DEF Hook!OnStreamEnd
      <4> HIDE DEF b
      <4> QED BY <1>4, <2>0, <3>1, <3>2, <4>1, <4>2, <4>3
    <3> QED BY <2>2, <3>3, <3>4 DEF Hook!OnStreamEnd
  <2> QED BY <1>6, <2>1, <2>2 DEF TurnEnds
<1>7. ASSUME NEW s \in Sessions, BarrierPasses(s) PROVE PInv'
  <2>1. /\ Hook!DropBucket(s, task) /\ \A t \in bucket[s].pending : ~Hook!Live(t)
        /\ pc' = [pc EXCEPT ![s] = "idle"] /\ Settle(s) /\ turnStream' = turnStream
    BY <1>7 DEF BarrierPasses, Hook!BarrierPasses
  <2>2. \A t \in Chunks : task[t] # None /\ task[t].session = s
          => task[t].at \in {"done", "cancelled"}
    BY <1>0, <2>1 DEF PInv, HookTypes, Hook!LiveTasksTracked, Hook!Live, Hook!TaskRec
  <2> QED BY <2>1, <2>2, SettlingKeepsInvariant
<1>8. ASSUME NEW s \in Sessions, BarrierTimesOut(s) PROVE PInv'
  <2> DEFINE tasks == [t \in Chunks |-> IF t \in bucket[s].pending /\ Hook!Live(t)
                                        THEN [task[t] EXCEPT !.at = "cancelled"] ELSE task[t]]
  <2>1. /\ Hook!DropBucket(s, tasks)
        /\ pc' = [pc EXCEPT ![s] = "idle"] /\ Settle(s) /\ turnStream' = turnStream
    BY <1>8 DEF BarrierTimesOut, Hook!BarrierTimesOut
  <2>2. \A t \in Chunks :
          \/ tasks[t] = task[t]
          \/ /\ tasks[t] \in Hook!TaskRec /\ task[t] # None
             /\ tasks[t].session = task[t].session /\ tasks[t].at = "cancelled"
    BY <1>0 DEF HookTypes, Hook!Live, Hook!TaskRec
  <2>3. \A t \in Chunks : tasks[t] # None /\ tasks[t].session = s
          => tasks[t].at \in {"done", "cancelled"}
    BY <1>0 DEF PInv, HookTypes, Hook!LiveTasksTracked, Hook!Live, Hook!TaskRec
  <2> HIDE DEF tasks
  <2> QED BY <2>1, <2>2, <2>3, SettlingKeepsInvariant
<1>9. ASSUME NEW t \in Chunks, NEW from \in {"scheduled", "synth", "emitting"},
             NEW to \in {"synth", "emitting", "done"}, Hook!Moves(t, from, to),
             UNCHANGED <<turnStream, turnOf, unsettled>>
      PROVE  PInv'
  <2>1. /\ HookInv'
        /\ \A u \in Chunks : task'[u] # None => task[u] # None /\ task'[u].session = task[u].session
    BY <1>0, <1>9, MoveKeepsInvariant
  <2>2. pc' = pc /\ TasksOfUnsettledTurns'
    BY <1>9, <2>1 DEF Hook!Moves, PInv, TasksOfUnsettledTurns
  <2> QED BY <1>9, <2>1, <2>2 DEF PInv, HookInv, RunningTurnsUnsettled
<1>10. ASSUME NEW t \in Chunks,
              TaskStarts(t) \/ ChunkSent(t) \/ ChunkDropped(t) \/ EmitReturns(t)
       PROVE  PInv'
  <2>1. UNCHANGED <<turnStream, turnOf, unsettled>>
    BY <1>10 DEF TaskStarts, ChunkSent, ChunkDropped, EmitReturns, delivery
  <2>2. \E from \in {"scheduled", "synth", "emitting"}, to \in {"synth", "emitting", "done"} :
          Hook!Moves(t, from, to)
    BY <1>10 DEF TaskStarts, ChunkSent, ChunkDropped, EmitReturns, Hook!TaskStarts,
       Hook!SynthReturns, Hook!EmitReturns
  <2> QED BY <1>9, <2>1, <2>2
<1> QED BY <1>1, <1>2, <1>3, <1>5, <1>6, <1>7, <1>8, <1>10 DEF PipelineNext

(* No sentence is put on a socket once on_stream_end of its turn, or of a    *)
(* later turn of its session, has returned.                                  *)
THEOREM NothingIsHandedOverLate == PipelineSpec => NothingHandedOverLate
<1> DEFINE Timely == \A f \in wire' \ wire : f.turn \in unsettled[f.session]
<1>1. PInv /\ [PipelineNext]_pipelineVars => [Timely]_pipelineVars
  <2> SUFFICES ASSUME PInv, PipelineNext PROVE Timely
    OBVIOUS
  <2>1. ASSUME NEW t \in Chunks, ChunkSent(t) PROVE Timely
    <3>1. task[t] # None
      BY <2>1 DEF ChunkSent, Hook!SynthReturns, Hook!Moves
    <3>2. turnOf[t] \in unsettled[task[t].session]
      BY <3>1 DEF PInv, TasksOfUnsettledTurns
    <3>3. \A call : FrameOf(t, call).turn = turnOf[t] /\ FrameOf(t, call).session = task[t].session
      BY DEF FrameOf
    <3>4. wire' \in {wire, wire \cup {FrameOf(t, chunk'[t])}}
      BY <2>1 DEF ChunkSent
    <3> QED BY <3>2, <3>3, <3>4
  <2>2. CASE wire' \subseteq wire
    BY <2>2
  <2>3. ChannelStep \/ Dispatch \/ FrameArrives => wire' \subseteq wire
    BY DEF ChannelStep, Dispatch, FrameArrives, delivery
  <2>4. ASSUME NEW s \in Sessions,
               \/ TurnBegins(s) \/ TurnEnds(s) \/ TurnAborted(s)
               \/ BarrierPasses(s) \/ BarrierTimesOut(s)
               \/ \E text \in BOOLEAN : TurnDelta(s, text)
        PROVE  wire' \subseteq wire
    BY <2>4 DEF TurnBegins, TurnEnds, TurnAborted, BarrierPasses, BarrierTimesOut, TurnDelta,
       delivery
  <2>5. ASSUME NEW t \in Chunks, TaskStarts(t) \/ ChunkDropped(t) \/ EmitReturns(t)
        PROVE  wire' \subseteq wire
    BY <2>5 DEF TaskStarts, ChunkDropped, EmitReturns, delivery
  <2> HIDE DEF Timely
  <2> QED BY <2>1, <2>2, <2>3, <2>4, <2>5 DEF PipelineNext
<1> QED BY <1>1, PipelineStart, PipelineStep, PTL DEF PipelineSpec, NothingHandedOverLate

(* A session whose channel is not in STREAMING mode is never synthesized,    *)
(* even while a DesktopMate stream wants audio.                              *)
THEOREM TextChannelsStaySilent == PipelineSpec => []TextChannelsNeverSpoken
<1>1. PInv => TextChannelsNeverSpoken
  BY DEF PInv
<1> QED BY <1>1, PipelineStart, PipelineStep, PTL DEF PipelineSpec
=============================================================================
