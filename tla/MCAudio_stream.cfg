CONSTANTS
  Calls = {"SetInfo", "Reset", "Exit"}
  MaxOpen = 2
  MaxSources = 2
SPECIFICATION FairSpec
INVARIANT TypeOK
INVARIANT Handshake
PROPERTY DataAreaUsed
PROPERTY EventuallySignalled
CHECK_DEADLOCK FALSE
