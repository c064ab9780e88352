SPECIFICATION Spec
CONSTANTS
  p1 = p1  p2 = p2  w = w
  Producers = {p1, p2}
  Consumers = {w}
  Writer = w
  Items <- MCItems
  MaxEvents = 2
  MaxSizes = {1, 2}
  FlushMilis = {1500}
  MaxWait = 2
  JoinBeforeClose = FALSE
  MaxSpurious = 1
  NoThread = NoThread
  NoItem = NoItem
SYMMETRY Symmetry
INVARIANTS TypeOK Accounting ReadablePrefix ProducerOrder PopNeverWaits NoWriteBeforeOpen
CHECK_DEADLOCK FALSE
