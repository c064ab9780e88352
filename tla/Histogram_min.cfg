SPECIFICATION Spec
CHECK_DEADLOCK FALSE
CONSTANTS
  Values <- MCFloats
  BinSets <- MCBinSets
  Grain = 4
  FloatMax = 12
  DoubleMax = 17
  MaxValues = 4
INVARIANT MinIsMinimum
