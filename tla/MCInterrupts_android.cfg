CONSTANTS
  IOFlags = {"SERIAL"}
  MaxDepth = 1
  MaxHandlers = 1
  TicksPerSecond = 1
  Exclusive = FALSE
  UsesStop = TRUE
  RomClassic = TRUE
SPECIFICATION Spec
INVARIANT NoLostEvent
