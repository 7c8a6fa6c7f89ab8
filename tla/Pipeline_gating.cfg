SPECIFICATION PipelineSpec
CONSTANTS
  c1 = c1  c2 = c2  chA = chA  chB = chB  sA = sA  sB = sB
  deskA = deskA  deskB = deskB  slack = slack  t1 = t1  t2 = t2  None = None
  Conns = {c1}
  Chats = {chA}
  Streams = {sA}
  ChatOf <- ChatOfA
  Voices = {}
  UrlTTS <- UrlPlain
  Inbound = {"on"}
  Chunks = {t1, t2}
  Sessions = {deskA, slack}
  SessionChat <- DeskAndSlack
  Streaming = {deskA}
  MaxBus = 1
INVARIANTS TextChannelsNeverSpoken
PROPERTIES NothingHandedOverLate
SYMMETRY SwapTasks
CHECK_DEADLOCK FALSE
