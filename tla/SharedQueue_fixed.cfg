SPECIFICATION QFairSpec
CONSTANTS
  p1 = p1  p2 = p2  c1 = c1  c2 = c2  x = x  y = y
  Producers = {p1, p2}
  Consumers = {c1, c2}
  Items = {x}
  MaxSizes = {2}
  MaxSpurious = 1
  NoThread = NoThread
  NoItem = NoItem
INVARIANTS NotFullIsNotified
PROPERTIES KeepsMoving
