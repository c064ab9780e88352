CONSTANTS
  Orders <- MCOrders
  FileOf <- MCFileOf
  Dirs <- MCDirs
  Configs <- MCConfigs
  Known <- MCKnown
  Legacy <- MCLegacy
  CSuppressed <- MCCSuppressed
  KernelSuppressed <- MCKernelSuppressed
  DefaultFilters <- MCDefaultFilters
SPECIFICATION Spec
CHECK_DEADLOCK FALSE
CONSTANTS
  Flags <- MCFlags
  CfgChoices <- MCFiltering
INVARIANTS PrintedAlone CountsAgree
PROPERTY Ends
