SPECIFICATION QSpec
CONSTANTS
  p1 = p1  p2 = p2  c1 = c1  c2 = c2  x = x  y = y
  Producers = {p1, p2}
  Consumers = {c1, c2}
  Items = {x, y}
  MaxSizes = {1, 2}
  MaxSpurious = 2
  NoThread = NoThread
  NoItem = NoItem
SYMMETRY Symmetry
INVARIANTS QTypeOK NeverOverfull NoLostWakeupEmpty NoLostWakeupFull
PROPERTIES FifoSpec
