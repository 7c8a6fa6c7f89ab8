\* No further frame is read after MaxTurns: the model stops there.
SPECIFICATION Spec
CONSTANTS
  hA = hA  hB = hB  None = None
  Handlers = {hA, hB}
  Frames <- AllFrames
  MaxImages = 2
  MaxTurns = 2
INVARIANTS VerdictOfFirstFault TakenMediaReadable FailedTurnsCleaned
SYMMETRY SwapHandlers
CHECK_DEADLOCK FALSE
