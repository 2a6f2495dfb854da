CONSTANTS
  Calls = {"KillIO", "Close", "NoMemory", "NoThread", "Exit"}
SPECIFICATION FairSpec
INVARIANT TypeOK
INVARIANT DoneAfterIO
INVARIANT NoneForgotten
INVARIANT NoThreadLeft
PROPERTY CallsEnd
CHECK_DEADLOCK FALSE
