SPECIFICATION FairSpec
CONSTANTS
  p1 = p1  p2 = p2  w = w
  Producers = {p1}
  Consumers = {w}
  Writer = w
  Items <- MCItems1
  MaxEvents = 2
  MaxSizes = {1}
  FlushMilis = {0}
  MaxWait = 0
  JoinBeforeClose = TRUE
  MaxSpurious = 0
  NoThread = NoThread
  NoItem = NoItem
PROPERTIES FlushReturns
CHECK_DEADLOCK FALSE
