CONSTANTS
  IOFlags = {}
  MaxDepth = 2
  MaxHandlers = 1
  TicksPerSecond = 1
  Exclusive = TRUE
  UsesStop = TRUE
  RomClassic = FALSE
SPECIFICATION FairSpec
INVARIANT TypeOK
INVARIANT ExecuteReturns
INVARIANT StopUnmasked
PROPERTY EventuallyHandled
