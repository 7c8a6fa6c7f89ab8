SPECIFICATION FairSpec
CONSTANTS
  c1 = c1  c2 = c2
  chA = chA  chB = chB
  sA = sA  sB = sB  v1 = v1  None = None
  Conns = {c1, c2}
  Chats = {chA}
  Streams = {sA}
  ChatOf <- ChatOfA
  Voices = {v1}
  UrlTTS <- UrlMuted
  Inbound = {"on"}
  Chunks = {1}
INVARIANTS MutedSocketSilent OverrideHoldsWhileOpen
PROPERTIES LostConnectionForgotten PolicyOfItsOwner
CHECK_DEADLOCK FALSE
