SPECIFICATION Spec
CONSTANTS
  c1 = c1  c2 = c2
  chA = chA  chB = chB
  sA = sA  sB = sB  v1 = v1  None = None
  Conns = {c1, c2}
  Chats = {chA, chB}
  Streams = {sA, sB}
  ChatOf <- ChatOfAB
  Voices = {}
  UrlTTS <- UrlPlain
  Inbound = {"on"}
  Chunks = {}
INVARIANTS StreamsAttached CurrentRegistered OwnersServed FramesFollowStart
PROPERTIES HealthyOwnerKept ImplementsOwnership
SYMMETRY SwapBoth
CHECK_DEADLOCK FALSE
