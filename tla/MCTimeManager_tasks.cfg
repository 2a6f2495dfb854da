CONSTANTS
  t1 = t1
  t2 = t2
  t3 = t3
  Tasks = {t1, t2}
  Callable = {t1, t2}
  Traps = {"InsTime", "InsXTime"}
  Delays <- MicroMilli
  NUM_DESCS = 2
  MaxTime = 4
  MaxNesting = 2
  Milli = 2
  INT_MAX = 1
  Start = 2
  Step = 2
SPECIFICATION Spec
INVARIANT TypeOK
INVARIANT OneDescriptor
PROPERTY KeepsPromise
PROPERTY LeftToWait
