-------------------------------- MODULE LintText -------------------------------
(***************************************************************************)
(* What the linter makes of the headers, the functions, the path, the      *)
(* guard and the conditionals of a file.  These checks share nothing but   *)
(* the lines, so a behaviour is that of one of them, as in Summaries:      *)
(* `what` tells which, and the variables of the others stay 0.             *)
(***************************************************************************)
EXTENDS Integers

CONSTANTS
  Target, Required,                                 \* LintIncludes, ...
  OrderHeaders, OrderDirectives, OrderLines, OrderDepth,   \* ... its order
  BranchHeaders, BranchLines,                       \* ... what it remembers
  FunctionLines, FileLines, NormalTrigger, TestTrigger, MaxConfidence,
  Names, PathDepth, MaxOption,                      \* LintPaths
  HeaderLines, HeaderLength,                        \* LintGuard
  BranchBlocks, BranchMenu, BranchLength            \* LintNesting, its conditionals

VARIABLES
  what,
  line, prevInclude, includeList, section, lastHeader, errors, branch, seen, since,
  finished,                                                    \* LintIncludes
  file, verbosity, lineno, function, inFunction, count, reports,  \* LintFunctions
  path, exists, marks, option, doing, rootDir, current, guard, \* LintPaths
  lines,                                                       \* LintGuard
  text, stack, ppStack, prevTop, complaints, closed, stray, ended   \* LintNesting

includeVars == <<line, prevInclude, includeList, section, lastHeader, errors, branch, seen,
                 since, finished>>
functionVars == <<file, verbosity, lineno, function, inFunction, count, reports>>
pathVars == <<path, exists, marks, option, doing, rootDir, current, guard>>
nestingVars == <<stack, ppStack, prevTop, complaints, closed, stray, ended>>
blockVars == <<text, nestingVars>>
textVars == <<what, includeVars, functionVars, pathVars, lines, blockVars>>

NoIncludes ==
  /\ line = 0 /\ prevInclude = 0 /\ includeList = 0 /\ section = 0 /\ lastHeader = 0
  /\ errors = 0 /\ branch = 0 /\ seen = 0 /\ since = 0 /\ finished = 0
NoFunctions ==
  /\ file = 0 /\ verbosity = 0 /\ lineno = 0 /\ function = 0 /\ inFunction = 0 /\ count = 0
  /\ reports = 0
NoPath ==
  /\ path = 0 /\ exists = 0 /\ marks = 0 /\ option = 0 /\ doing = 0 /\ rootDir = 0
  /\ current = 0 /\ guard = 0
NoLines == lines = 0
NoText == text = 0
NoBlocks ==
  /\ stack = 0 /\ ppStack = 0 /\ prevTop = 0 /\ complaints = 0 /\ closed = 0 /\ stray = 0
  /\ ended = 0

-------------------------------------------------------------------------------
\* The order of headers, and headers within conditionals that are not nested.
Order == INSTANCE LintIncludes WITH
  Headers <- OrderHeaders, Directives <- OrderDirectives, MaxLines <- OrderLines,
  MaxDepth <- OrderDepth

Branches == INSTANCE LintIncludes WITH
  Headers <- BranchHeaders, Directives <- {"if", "else", "elif", "endif"},
  MaxLines <- BranchLines, MaxDepth <- 1

Lengths == INSTANCE LintFunctions WITH
  Kinds <- FunctionLines, MaxLines <- FileLines, verbose <- verbosity, n <- lineno

Checkouts == INSTANCE LintPaths WITH Depth <- PathDepth

Guards == INSTANCE LintGuard WITH Kinds <- HeaderLines, MaxLines <- HeaderLength

Conditionals == INSTANCE LintNesting WITH
  Kinds <- BranchBlocks, Menu <- BranchMenu, MaxLines <- BranchLength,
  errors <- complaints, finished <- ended

ASSUME LintTextAssumption ==
  /\ Order!IncludesAssumption /\ Branches!IncludesAssumption /\ Branches!RequiredAssumption
  /\ Lengths!FunctionsAssumption /\ Lengths!PowersGrow
  /\ Checkouts!PathsAssumption /\ Guards!GuardAssumption
  /\ Conditionals!NestingAssumption /\ Conditionals!DirectivesAlone

-------------------------------------------------------------------------------
TextInit ==
  \/ /\ NoText /\ NoBlocks
     /\ \/ what = "order" /\ Order!Init /\ NoFunctions /\ NoPath /\ NoLines
        \/ what = "branches" /\ Branches!Init /\ NoFunctions /\ NoPath /\ NoLines
        \/ what = "lengths" /\ Lengths!Init /\ NoIncludes /\ NoPath /\ NoLines
        \/ what = "checkouts" /\ Checkouts!Init /\ NoIncludes /\ NoFunctions /\ NoLines
        \/ what = "guards" /\ Guards!Init /\ NoIncludes /\ NoFunctions /\ NoPath
  \/ what = "conditionals" /\ Conditionals!Init /\ NoIncludes /\ NoFunctions /\ NoPath /\ NoLines

OrderStep ==
  what = "order" /\ Order!Next /\ UNCHANGED <<what, functionVars, pathVars, lines, blockVars>>
BranchesStep ==
  /\ what = "branches" /\ Branches!Next
  /\ UNCHANGED <<what, functionVars, pathVars, lines, blockVars>>
LengthsStep ==
  what = "lengths" /\ Lengths!Next /\ UNCHANGED <<what, includeVars, pathVars, lines, blockVars>>
CheckoutsStep ==
  /\ what = "checkouts" /\ Checkouts!Next
  /\ UNCHANGED <<what, includeVars, functionVars, lines, blockVars>>
GuardsStep ==
  what = "guards" /\ Guards!Next /\ UNCHANGED <<what, includeVars, functionVars, pathVars, blockVars>>
ConditionalsStep ==
  /\ what = "conditionals" /\ Conditionals!Next
  /\ UNCHANGED <<what, includeVars, functionVars, pathVars, lines>>

TextNext ==
  OrderStep \/ BranchesStep \/ LengthsStep \/ CheckoutsStep \/ GuardsStep \/ ConditionalsStep

TextSpec == TextInit /\ [][TextNext]_textVars

-------------------------------------------------------------------------------
\* CheckNextIncludeOrder and IsInAlphabeticalOrder: a header is out of order if
\* no assignment of sections puts it in order, or if a greater one precedes it.
OrderJudged == what = "order" => Order!LateIffUnordered /\ Order!AlphaWithinSection

\* FindHeader and CheckForIncludeWhatYouUse: what they say of repeated and of
\* missing headers is true whichever branches of the preprocessor are taken.
HeadersKnown == what = "branches" => Branches!DuplicateIsReal /\ Branches!MissingIsReal

\* _FunctionState: long functions are reported, at levels that print them.
SizesReported == what = "lengths" => Lengths!OversizeReported /\ Lengths!SureEnoughToPrint

\* FileInfo.RepositoryName: the guard is that of the path in the checkout.
SameInEveryCheckout == what = "checkouts" => Checkouts!SameInEveryCheckout

\* CheckForHeaderGuard: the body does not matter, and the advice helps.
GuardVerdict == what = "guards" => Guards!BodyIrrelevant /\ Guards!SuggestionsHelp

\* UpdatePreprocessor: the stack is that of the first branches.
PreprocessorTransparent == what = "conditionals" => Conditionals!PreprocessorTransparent
===============================================================================
