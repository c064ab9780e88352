------------------------------- MODULE Summaries ------------------------------
(***************************************************************************)
(* The kinds of summaries side by side.  They share nothing but the        *)
(* FileWriter, so a behaviour is that of one of them: `what` tells which,  *)
(* and v1, v2, ... are its variables, 0 where it has fewer.                *)
(*                                                                         *)
(* A component whose theorems SummariesProofs uses is instantiated with    *)
(* them.                                                                   *)
(***************************************************************************)
EXTENDS Integers

CONSTANTS
  Threads,                           \* threads that log in parallel
  SerialCalls, Calls, Fails, MaxCrashes,             \* ProjectorConfig
  Sizes, SaveFails, MaxCalls, MaxDestroyed,          \* ImageStore
  Values, BinSets, Grain, FloatMax, DoubleMax, MaxValues,   \* Histogram
  Thresholds, Unit, Weights, MaxSamples,             \* PRCurve
  Loggers, KindsOfLoggers, Width, MaxEpochs, MaxTrainings   \* MlboardLogger

VARIABLES what, v1, v2, v3, v4, v5, v6, v7, v8, v9, v10, v11

vars == <<what, v1, v2, v3, v4, v5, v6, v7, v8, v9, v10, v11>>

Idle7 == v7 = 0 /\ v8 = 0 /\ v9 = 0 /\ v10 = 0 /\ v11 = 0
Idle8 == v8 = 0 /\ v9 = 0 /\ v10 = 0 /\ v11 = 0
Idle9 == v9 = 0 /\ v10 = 0 /\ v11 = 0

\* Embeddings logged one after the other; the config can be written.
Serial == INSTANCE ProjectorConfigProofs WITH
  Threads <- {"thread"}, Calls <- SerialCalls, Fails <- Fails \ {"config"}, MaxCrashes <- 0,
  pc <- v1, call <- v2, read <- v3, files <- v4, config <- v5, started <- v6,
  returned <- v7, crashes <- v8

\* Embeddings logged in parallel, with paths of their own.
Parallel == INSTANCE ProjectorConfigProofs WITH
  pc <- v1, call <- v2, read <- v3, files <- v4, config <- v5, started <- v6,
  returned <- v7, crashes <- v8

\* Images logged by one thread, and by any number.
OneStore == INSTANCE ImageStoreProofs WITH
  Threads <- {"thread"},
  pc <- v1, call <- v2, size <- v3, col <- v4, encoded <- v5, saved <- v6, dir <- v7,
  png <- v8, events <- v9, calls <- v10, destroyed <- v11

Store == INSTANCE ImageStoreProofs WITH
  pc <- v1, call <- v2, size <- v3, col <- v4, encoded <- v5, saved <- v6, dir <- v7,
  png <- v8, events <- v9, calls <- v10, destroyed <- v11

Counted == INSTANCE Histogram WITH
  bins <- v1, values <- v2, counts <- v3, min <- v4, max <- v5, overrun <- v6

Curve == INSTANCE PRCurve WITH
  threshold <- v1, last <- v2, weights <- v3, samples <- v4, truePositives <- v5,
  falsePositives <- v6, overrun <- v7

\* A few loggers of scalars that train more than once, and loggers of all kinds.
Scalars == INSTANCE MlboardLoggerProofs WITH
  pc <- v1, epoch <- v2, training <- v3, logged <- v4, durable <- v5, failed <- v6,
  closed <- v7

Kinds == INSTANCE MlboardLoggerProofs WITH
  Loggers <- KindsOfLoggers, MaxTrainings <- 1,
  pc <- v1, epoch <- v2, training <- v3, logged <- v4, durable <- v5, failed <- v6,
  closed <- v7

ASSUME SummariesAssumption ==
  /\ Serial!ProjectorAssumption /\ Parallel!ProjectorAssumption /\ Parallel!PathsApart
  /\ Store!ImageAssumption
  /\ Counted!HistogramAssumption /\ Curve!CurveAssumption
  /\ Scalars!LoggerAssumption /\ Kinds!LoggerAssumption

-------------------------------------------------------------------------------
Init ==
  \/ what = "serial" /\ Serial!Init /\ Idle9
  \/ what = "parallel" /\ Parallel!Init /\ Idle9
  \/ what = "one thread" /\ OneStore!Init
  \/ what = "threads" /\ Store!Init
  \/ what = "histogram" /\ Counted!Init /\ Idle7
  \/ what = "curve" /\ Curve!Init /\ Idle8
  \/ what = "scalars" /\ Scalars!Init /\ Idle8
  \/ what = "kinds" /\ Kinds!Init /\ Idle8

SerialStep == what = "serial" /\ Serial!Next /\ UNCHANGED <<what, v9, v10, v11>>
ParallelStep == what = "parallel" /\ Parallel!Next /\ UNCHANGED <<what, v9, v10, v11>>
OneStoreStep == what = "one thread" /\ OneStore!Next /\ UNCHANGED what
StoreStep == what = "threads" /\ Store!Next /\ UNCHANGED what
CountedStep == what = "histogram" /\ Counted!Next /\ UNCHANGED <<what, v7, v8, v9, v10, v11>>
CurveStep == what = "curve" /\ Curve!Next /\ UNCHANGED <<what, v8, v9, v10, v11>>
ScalarsStep == what = "scalars" /\ Scalars!Next /\ UNCHANGED <<what, v8, v9, v10, v11>>
KindsStep == what = "kinds" /\ Kinds!Next /\ UNCHANGED <<what, v8, v9, v10, v11>>

Next == SerialStep \/ ParallelStep \/ OneStoreStep \/ StoreStep
        \/ CountedStep \/ CurveStep \/ ScalarsStep \/ KindsStep

Spec == Init /\ [][Next]_vars

-------------------------------------------------------------------------------
\* Embeddings logged one after the other, failing or not: a call that returned
\* has its entry in projector_config.pbtxt, one that threw has none.
ReturnedListed == what = "serial" => Serial!ReturnedListed

\* And each leaves the entries of the earlier ones in their places.
EntriesAppended ==
  [][what = "serial" => Serial!EntriesKept]_<<what, v1, v3, v5>>

\* Embeddings with paths of their own, logged in parallel or ended by a crash:
\* an entry of the config names that embedding's own, complete files.
EntryNamesOwnFiles == what = "parallel" => Parallel!EntryNamesOwnFiles

\* Images logged by one thread are its own; of images logged by any number of
\* threads, which mix them up, no file is left behind.
ImagesOwnAndGone ==
  /\ what = "one thread" => OneStore!OwnImages
  /\ what = "threads" => Store!NothingLeft

\* Histogram's buckets and extremes, against their definition.
SummaryOfValues == what = "histogram" => Counted!SummaryOfValues

\* PRCurve's confusion matrix, against its definition.
CurveOfSamples == what = "curve" => Curve!CurveOfSamples

\* MlboardLogger: the steps that are due, with their scalars in pairs.
StepsLogged ==
  /\ what = "scalars" => Scalars!StepsLogged
  /\ what = "kinds" => Kinds!EveryNthEpochLogged

\* MlboardLogger: no step is left with half of its scalars in a closed file.
CompleteWhenClosed == what = "scalars" => Scalars!CompleteWhenClosed
===============================================================================
