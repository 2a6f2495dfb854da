CONSTANTS
  t1 = t1
  t2 = t2
  t3 = t3
  Tasks = {t1, t2, t3}
  Callable = {t1, t2}
  Traps = {"InsXTime"}
  Delays = {0}
  NUM_DESCS = 2
  MaxTime = 4
  MaxNesting = 1
  Milli = 2
  INT_MAX = 1
  Start = 3
  Step = 1
SPECIFICATION FairSpec
INVARIANT AllInstalled
PROPERTY EventuallyRings
