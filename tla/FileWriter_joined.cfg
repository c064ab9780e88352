SPECIFICATION FairSpec
CONSTANTS
  p1 = p1  p2 = p2  w = w
  Producers = {p1, p2}
  Consumers = {w}
  Writer = w
  Items <- MCItems
  MaxEvents = 2
  MaxSizes = {1}
  FlushMilis = {0, 1000}
  MaxWait = 1
  JoinBeforeClose = TRUE
  MaxSpurious = 0
  NoThread = NoThread
  NoItem = NoItem
INVARIANTS CloseDrains
PROPERTIES LogSpec EventuallyWritten CloseReturns PushReturns
CHECK_DEADLOCK FALSE
