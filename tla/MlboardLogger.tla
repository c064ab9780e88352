----------------------------- MODULE MlboardLogger -----------------------------
(***************************************************************************)
(* include/mlboard_logger.hpp: loggers that write a summary at the end of  *)
(* every epochCount-th epoch of a training, all to one FileWriter.  Each   *)
(* training runs in a thread of its own; the FileWriter is what EventLog   *)
(* promises, and is closed when the trainings are over.                    *)
(*                                                                         *)
(* An event tells which logger and which training it is of, its tag and    *)
(* its step.  Epochs count from 1 in each training, as ensmallen calls     *)
(* EndEpoch.                                                               *)
(***************************************************************************)
EXTENDS Integers, FiniteSets, Sequences

CONSTANTS Loggers,     \* logger -> its summaryType, epochCount, localFunc
          Width,       \* bits of a size_t
          MaxEpochs,   \* bound: epochs of a training
          MaxTrainings \* bound: trainings that use a logger

Scalar == ""    \* the summaryType of the first two constructors
Tags == {"loss", "accuracy", "summary"}

LoggerAssumption ==
  /\ \A l \in DOMAIN Loggers :
       /\ Loggers[l].type \in {Scalar, "histogram", "embedding", "image", "other"}
       /\ Loggers[l].epochCount \in Int
       /\ Loggers[l].func \in {"none", "double", "matrix"}
       /\ Loggers[l].epochCount < 2^Width /\ MaxEpochs < Loggers[l].epochCount + 2^Width
  /\ Width \in Nat /\ MaxEpochs \in Nat /\ MaxTrainings \in Nat

VARIABLES pc, epoch, training,               \* of each logger
          logged, durable, failed, closed    \* the FileWriter

trainVars == <<pc, epoch, training>>
vars == <<trainVars, logged, durable, failed, closed>>

Events == [logger : DOMAIN Loggers, training : 1..MaxTrainings, tag : Tags,
           step : 1..MaxEpochs]

Log == INSTANCE EventLog

Init ==
  /\ pc = [l \in DOMAIN Loggers |-> "idle"]
  /\ epoch = [l \in DOMAIN Loggers |-> 0]
  /\ training = [l \in DOMAIN Loggers |-> 0]
  /\ Log!Init

-------------------------------------------------------------------------------
At(l, label) == pc[l] = label
Goto(l, label) == pc' = [pc EXCEPT ![l] = label] /\ UNCHANGED <<epoch, training>>

\* epochCount is an int, the epoch a size_t: a negative interval becomes a huge
\* one.  The remainder by zero stops the process or is the epoch itself.
Unsigned(n) == n % 2^Width
Interval(l) == Unsigned(Loggers[l].epochCount)

Logged(l) == Interval(l) # 0 /\ epoch[l] % Interval(l) = 0

\* Slip: the step is the epoch.
StepIsEpoch(l) == epoch[l]

Step(l) == epoch[l] \div Interval(l)

Event(l, tag, step) == [logger |-> l, training |-> training[l], tag |-> tag, step |-> step]

\* A training begins, goes on to its next epoch, or ends.
Train(l) ==
  /\ At(l, "idle") /\ ~closed /\ training[l] < MaxTrainings
  /\ pc' = [pc EXCEPT ![l] = "train"]
  /\ epoch' = [epoch EXCEPT ![l] = 0] /\ training' = [training EXCEPT ![l] = @ + 1]
  /\ UNCHANGED <<logged, durable, failed, closed>>

NextEpoch(l) ==
  /\ At(l, "train")
  /\ \/ /\ epoch[l] < MaxEpochs
        /\ epoch' = [epoch EXCEPT ![l] = @ + 1] /\ pc' = [pc EXCEPT ![l] = "end"]
        /\ UNCHANGED training
     \/ Goto(l, "idle")
  /\ UNCHANGED <<logged, durable, failed, closed>>

Throw(l) == Goto(l, "idle") /\ UNCHANGED <<logged, durable, failed, closed>>

\* The remainder by zero stops the process.
Trap(l) ==
  /\ pc' = [m \in DOMAIN Loggers |-> "gone"] /\ UNCHANGED <<epoch, training>>
  /\ Log!Fail

\* The localFunc of a logger built for a matrix, but with an empty type, is
\* empty: calling it throws, in every epoch.
NoLocalFunc(l) == Loggers[l].type = Scalar /\ Loggers[l].func = "matrix"

EndEpoch(l) ==
  /\ At(l, "end")
  /\ \/ NoLocalFunc(l) /\ Throw(l)
     \/ ~NoLocalFunc(l) /\ Interval(l) = 0 /\ Trap(l)
     \/ /\ ~NoLocalFunc(l) /\ ~Logged(l)
        /\ Goto(l, "train") /\ UNCHANGED <<logged, durable, failed, closed>>
     \/ /\ Loggers[l].type = Scalar /\ ~NoLocalFunc(l) /\ Logged(l)
        /\ Log!Log(Event(l, "loss", Step(l))) /\ Goto(l, "second")
     \/ /\ Loggers[l].type \in {"histogram", "image"} /\ Logged(l)
        /\ Log!Log(Event(l, "summary", Step(l))) /\ Goto(l, "train")
     \/ /\ Loggers[l].type = "embedding" /\ Logged(l)
        /\ Log!Log(Event(l, "summary", 1)) /\ Goto(l, "train")
     \/ /\ Loggers[l].type \in {"other", "embedding"} /\ Logged(l)
        /\ Throw(l)      \* the type, a file or the metadata

SecondScalar(l) ==
  /\ At(l, "second")
  /\ Log!Log(Event(l, "accuracy", Step(l))) /\ Goto(l, "train")

\* The writer's thread, which may fail in any state, and the program's Close.
Persist == Log!Persist /\ UNCHANGED trainVars
Fail == ~failed /\ Log!Fail /\ UNCHANGED trainVars

\* Slip: the program closes the FileWriter while a training goes on.
CloseAtOnce == ~closed /\ Log!Close /\ UNCHANGED trainVars

Close ==
  /\ ~closed /\ \A l \in DOMAIN Loggers : At(l, "idle")
  /\ Log!Close /\ UNCHANGED trainVars

Next ==
  \/ \E l \in DOMAIN Loggers : Train(l) \/ NextEpoch(l) \/ EndEpoch(l) \/ SecondScalar(l)
  \/ Persist \/ Fail \/ Close

Spec == Init /\ [][Next]_vars

-------------------------------------------------------------------------------
SameTraining(e, f) == e.logger = f.logger /\ e.training = f.training

\* In s, event j is the next one of event i's training.
Follows(s, i, j) ==
  /\ i < j /\ SameTraining(s[i], s[j])
  /\ \A k \in (i + 1)..(j - 1) : ~SameTraining(s[k], s[j])

IsScalar(e) == Loggers[e.logger].type = Scalar

\* EndEpoch's two Scalar calls, of trainings that log at the same time: what
\* the event file holds of one of them is pairs of a loss and the accuracy of
\* the same step, though others' events come in between, and whenever the file
\* is cut short at most the last accuracy is missing.
LossThenAccuracy ==
  \A j \in DOMAIN durable :
    IsScalar(durable[j]) =>
      \/ /\ durable[j].tag = "loss"
         /\ \A i \in 1..(j - 1) : Follows(durable, i, j) => durable[i].tag = "accuracy"
      \/ /\ durable[j].tag = "accuracy"
         /\ \E i \in 1..(j - 1) : /\ Follows(durable, i, j) /\ durable[i].tag = "loss"
                                  /\ durable[i].step = durable[j].step

\* The events that count as steps of a logger's training.
Steps(l) ==
  {i \in DOMAIN logged : /\ logged[i].logger = l /\ logged[i].training = training[l]
                         /\ logged[i].tag # "accuracy"}

\* EndEpoch's interval: while a logger's training is between two epochs, what
\* it has logged are the steps 1, 2, ... up to the number of intervals that are
\* over, none missing and none twice; with an interval below 1 it has logged
\* nothing.  (An embedding is always logged as step 1.)
EveryNthEpochLogged ==
  \A l \in DOMAIN Loggers :
    At(l, "train") =>
      LET n == Loggers[l].epochCount IN
      /\ Cardinality(Steps(l)) = IF n < 1 THEN 0 ELSE epoch[l] \div n
      /\ \A i \in Steps(l) :
           logged[i].step = IF Loggers[l].type = "embedding" THEN 1
                            ELSE Cardinality({j \in Steps(l) : j <= i})

\* What the loggers write, whatever their kinds and however their trainings
\* interleave: the steps that are due, each with its loss and its accuracy.
StepsLogged == EveryNthEpochLogged /\ LossThenAccuracy

\* Close after the trainings: in a file that is complete, each loss is followed
\* by its accuracy, also if the training was left by an exception.
CompleteWhenClosed ==
  closed /\ ~failed =>
    \A i \in DOMAIN durable :
      IsScalar(durable[i]) /\ durable[i].tag = "loss" =>
        \E j \in DOMAIN durable : Follows(durable, i, j) /\ durable[j].tag = "accuracy"
===============================================================================
