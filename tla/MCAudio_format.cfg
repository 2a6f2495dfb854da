CONSTANTS
  Calls = {"SetInfo"}
  MaxOpen = 2
  MaxSources = 2
SPECIFICATION FairSpec
PROPERTY EventuallyCalled
CHECK_DEADLOCK FALSE
