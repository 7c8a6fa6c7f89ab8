SPECIFICATION Spec
CONSTANTS
  MinChunk = 2
  MaxText = 4
  MaxDelta = 2
INVARIANTS ReasoningFiltered
