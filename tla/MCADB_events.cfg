CONSTANTS
  a = a
  b = b
  Keys = {a, b}
  KEY_BUFFER_SIZE = 3
  MaxWaiting = 2
  Modes = {TRUE, FALSE}
  MaxMove = 1
  Reports = 1
  Booting = TRUE
SPECIFICATION FairSpec
INVARIANT TypeOK
INVARIANT KeysInOrder
PROPERTY MotionConserved
PROPERTY EventsReported
