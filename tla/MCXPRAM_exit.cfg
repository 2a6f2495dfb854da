CONSTANTS
  XPRAM_SIZE = 2
  Values = {0, 1, 2}
  Defaults <- Zeros
  MaxFails = 1
  MaxKills = 1
SPECIFICATION FairSpec
INVARIANT TypeOK
INVARIANT FileWhole
PROPERTY ChangesSaved
CHECK_DEADLOCK FALSE
