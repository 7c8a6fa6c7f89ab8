SPECIFICATION Spec
CONSTANTS
  deskA = deskA  deskB = deskB  None = None
  Sessions = {deskA, deskB}
  IdleTimeout = 2  Cooldown = 4  ScanInterval = 1  StartupGrace = 1
  Day = 6  QuietStart = 5  QuietEnd = 1  Skew = 1
  MaxTime = 7
INVARIANTS NobodyStarves
PROPERTIES NudgesJustified AttemptsSpaced
SYMMETRY SwapDesks
CHECK_DEADLOCK FALSE
