CONSTANTS
  IOFlags = {"SERIAL"}
  MaxDepth = 2
  MaxHandlers = 1
  TicksPerSecond = 1
  Exclusive = FALSE
  UsesStop = FALSE
  RomClassic = FALSE
SPECIFICATION Spec
INVARIANT ExecuteReturns
