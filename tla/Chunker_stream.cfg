SPECIFICATION Spec
CONSTANTS
  MinChunk = 2
  MaxText = 4
  MaxDelta = 3
INVARIANTS SpokenAsWritten NothingHeldBack ChunksWholeSentences DirectionsUnspoken
