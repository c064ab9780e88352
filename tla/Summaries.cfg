SPECIFICATION Spec
CHECK_DEADLOCK FALSE
CONSTANTS
  Threads = {"t1", "t2"}
  SerialCalls <- MixedPaths
  Calls <- OwnPaths
  Fails = {"tensor", "meta", "config"}
  MaxCrashes = 1
  Sizes = {0, 1, 2}
  SaveFails = TRUE
  MaxCalls = 3
  MaxDestroyed = 1
  Values <- MCValues
  BinSets <- MCBinSets
  Grain = 4
  FloatMax = 12
  DoubleMax = 17
  MaxValues = 4
  Thresholds = {1, 2, 3, 5}
  Unit = 5
  Weights <- MCWeights
  MaxSamples = 3
  Loggers <- MCLoggers
  KindsOfLoggers <- MCKinds
  Width = 6
  MaxEpochs = 2
  MaxTrainings = 2
INVARIANTS
  ReturnedListed
  EntryNamesOwnFiles
  ImagesOwnAndGone
  SummaryOfValues
  CurveOfSamples
  StepsLogged
  CompleteWhenClosed
PROPERTY
  EntriesAppended
