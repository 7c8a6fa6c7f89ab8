SPECIFICATION PipelineSpec
CONSTANTS
  c1 = c1  c2 = c2  chA = chA  chB = chB  sA = sA  sB = sB
  deskA = deskA  deskB = deskB  slack = slack  t1 = t1  t2 = t2  None = None
  Conns = {c1, c2}
  Chats = {chA, chB}
  Streams = {sA, sB}
  ChatOf <- ChatOfAB
  Voices = {}
  UrlTTS <- UrlPlain
  Inbound = {"on"}
  Chunks = {t1}
  Sessions = {deskA, deskB}
  SessionChat <- TwoDesks
  Streaming = {deskA, deskB}
  MaxBus = 2
INVARIANTS AudioStaysInItsChat
CHECK_DEADLOCK FALSE
