SPECIFICATION Spec
CHECK_DEADLOCK FALSE
CONSTANTS
  Target <- MCTarget
  Required <- MCRequired
  OrderHeaders <- MCUnordered
  OrderDirectives = {"if"}
  OrderLines = 5
  OrderDepth = 1
  BranchHeaders <- MCRepeated
  BranchLines = 7
  FunctionLines <- MCFunctionLines
  FileLines = 5
  NormalTrigger = 1
  TestTrigger = 2
  MaxConfidence = 1
  Names = {"a", "b"}
  PathDepth = 3
  MaxOption = 2
  HeaderLines <- MCHeaderLines
  HeaderLength = 4
  BranchBlocks <- BlockLines
  BranchMenu = {"if", "else", "endif", "class", "close"}
  BranchLength = 6
INVARIANTS
  OrderJudged
  HeadersKnown
  BlocksMatch
  PreprocessorTransparent
  CodeElided
  EndsFound
  SizesReported
  SameInEveryCheckout
  GuardVerdict
