SPECIFICATION TSpec
CONSTANTS
  Second = 3
  Intervals = {0, 2, 3, 7}
  MaxQueue = 2
  MaxBack = 2
  MaxMissed = 3
INVARIANT
  Paced
PROPERTY
  RoomAgain
