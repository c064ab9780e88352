--------------------------- MODULE MlboardLoggerProofs ---------------------------
(***************************************************************************)
(* The loggers, for every set of them and every interval, and for any      *)
(* number of trainings: what a training logs are pairs of a loss and an    *)
(* accuracy, and each step that is due once.                               *)
(***************************************************************************)
EXTENDS MlboardLogger, FiniteSetTheorems, SequenceTheorems, TLAPS

Labels == {"idle", "train", "end", "second", "gone"}
Recorded == [logger : DOMAIN Loggers, training : Nat, tag : Tags, step : Int]

-------------------------------------------------------------------------------
\* The trainings, and the file, which holds what was logged as far as it goes.
Trainings ==
  /\ pc \in [DOMAIN Loggers -> Labels]
  /\ epoch \in [DOMAIN Loggers -> Nat] /\ training \in [DOMAIN Loggers -> Nat]
  /\ logged \in Seq(Recorded) /\ durable \in Seq(Recorded)
  /\ Len(durable) <= Len(logged) /\ \A i \in DOMAIN durable : durable[i] = logged[i]
  /\ closed => /\ \A l \in DOMAIN Loggers : At(l, "idle")
               /\ failed \/ durable = logged

\* LossThenAccuracy of everything that was logged.
Paired ==
  \A j \in DOMAIN logged :
    IsScalar(logged[j]) =>
      \/ /\ logged[j].tag = "loss"
         /\ \A i \in 1..(j - 1) : Follows(logged, i, j) => logged[i].tag = "accuracy"
      \/ /\ logged[j].tag = "accuracy"
         /\ \E i \in 1..(j - 1) : /\ Follows(logged, i, j) /\ logged[i].tag = "loss"
                                  /\ logged[i].step = logged[j].step

\* The loss a logger has just logged, whose accuracy comes next.
Open(l, i) ==
  /\ logged[i].logger = l /\ logged[i].training = training[l]
  /\ logged[i].tag = "loss" /\ logged[i].step = Step(l)
  /\ \A k \in DOMAIN logged : i < k => ~SameTraining(logged[k], logged[i])

Answered(i) == \E j \in DOMAIN logged : Follows(logged, i, j) /\ logged[j].tag = "accuracy"

\* Only such a loss has no accuracy yet, or never gets one.
Settled(i) ==
  \/ Answered(i)
  \/ At(logged[i].logger, "gone")
  \/ At(logged[i].logger, "second") /\ Open(logged[i].logger, i)

LossesAnswered ==
  /\ \A i \in DOMAIN logged : IsScalar(logged[i]) /\ logged[i].tag = "loss" => Settled(i)
  /\ \A l \in DOMAIN Loggers :
       At(l, "second") => Loggers[l].type = Scalar /\ \E i \in DOMAIN logged : Open(l, i)

PairInv == Trainings /\ Paired /\ LossesAnswered

-------------------------------------------------------------------------------
\* An interval that is not zero is positive as a size_t; its size is epochCount
\* unless that is negative, and then no epoch reaches it.
LEMMA IntervalOf ==
  ASSUME LoggerAssumption, NEW l \in DOMAIN Loggers
  PROVE  /\ Interval(l) \in Nat
         /\ Loggers[l].epochCount >= 0 => Interval(l) = Loggers[l].epochCount
         /\ Loggers[l].epochCount < 0 => MaxEpochs < Interval(l)
<1> DEFINE n == Loggers[l].epochCount
           size == 2^Width
<1>1. n \in Int /\ size \in Int /\ MaxEpochs \in Nat /\ n < size /\ MaxEpochs < n + size
  BY DEF LoggerAssumption
<1>2. Interval(l) = n % size
  BY DEF Interval, Unsigned
<1> HIDE DEF n, size
<1>3. size > 0
  BY <1>1
<1>4. n >= 0 => n % size = n
  BY <1>1, <1>3
<1>5. n < 0 => n % size = n + size
  BY <1>1, <1>3
<1>6. Interval(l) \in Nat
  BY <1>1, <1>2, <1>4, <1>5
<1> QED BY <1>1, <1>2, <1>4, <1>5, <1>6 DEF n

LEMMA StepOf ==
  ASSUME LoggerAssumption, Trainings, NEW l \in DOMAIN Loggers, Interval(l) # 0
  PROVE  Step(l) \in Int
<1>1. Interval(l) \in Nat \ {0} /\ epoch[l] \in Nat
  BY IntervalOf DEF Trainings
<1> QED BY <1>1 DEF Step

\* What a logged event leaves as it was.
LEMMA LogAppends ==
  ASSUME Trainings, NEW e \in Recorded, Log!Log(e)
  PROVE  /\ logged' \in Seq(Recorded) /\ ~closed
         /\ UNCHANGED <<durable, failed, closed>>
         /\ Len(logged) \in Nat /\ DOMAIN logged = 1..Len(logged)
         /\ Len(logged') = Len(logged) + 1 /\ DOMAIN logged' = 1..(Len(logged) + 1)
         /\ \A i \in DOMAIN logged : logged'[i] = logged[i]
         /\ logged'[Len(logged) + 1] = e
         /\ \A i, j \in DOMAIN logged : Follows(logged', i, j) <=> Follows(logged, i, j)
<1>1. logged' = Append(logged, e) /\ ~closed /\ UNCHANGED <<durable, failed, closed>>
  BY DEF Log!Log
<1>2. logged \in Seq(Recorded)
  BY DEF Trainings
<1>3. /\ logged' \in Seq(Recorded)
      /\ Len(logged) \in Nat /\ DOMAIN logged = 1..Len(logged)
      /\ Len(logged') = Len(logged) + 1 /\ DOMAIN logged' = 1..(Len(logged) + 1)
      /\ \A i \in DOMAIN logged : logged'[i] = logged[i]
      /\ logged'[Len(logged) + 1] = e
  BY <1>1, <1>2, AppendProperties, LenProperties
<1>4. ASSUME NEW i \in DOMAIN logged, NEW j \in DOMAIN logged
      PROVE  Follows(logged', i, j) <=> Follows(logged, i, j)
  <2>1. \A k \in (i + 1)..(j - 1) : logged'[k] = logged[k]
    BY <1>3
  <2>2. logged'[i] = logged[i] /\ logged'[j] = logged[j]
    BY <1>3
  <2> QED BY <2>1, <2>2 DEF Follows
<1> QED BY <1>1, <1>3, <1>4
-------------------------------------------------------------------------------
\* The kinds of steps.  A logger goes on without logging; logs a loss, an
\* accuracy or a summary; or the process stops.
Onward(l) ==
  /\ pc[l] \in {"idle", "train", "end"} /\ ~closed
  /\ \E label \in {"idle", "train", "end"} : pc' = [pc EXCEPT ![l] = label]
  /\ \/ UNCHANGED <<epoch, training>>
     \/ /\ At(l, "idle")
        /\ epoch' = [epoch EXCEPT ![l] = 0] /\ training' = [training EXCEPT ![l] = @ + 1]
     \/ At(l, "train") /\ epoch' = [epoch EXCEPT ![l] = @ + 1] /\ UNCHANGED training
  /\ UNCHANGED <<logged, durable, failed, closed>>

Loss(l) ==
  /\ At(l, "end") /\ Loggers[l].type = Scalar /\ Interval(l) # 0
  /\ Log!Log(Event(l, "loss", Step(l))) /\ Goto(l, "second")

Accuracy(l) == At(l, "second") /\ Log!Log(Event(l, "accuracy", Step(l))) /\ Goto(l, "train")

Summary(l) ==
  /\ At(l, "end") /\ Loggers[l].type # Scalar /\ Interval(l) # 0
  /\ \E step \in {1, Step(l)} : Log!Log(Event(l, "summary", step))
  /\ Goto(l, "train")

LEMMA StepKinds ==
  ASSUME Trainings, NEW l \in DOMAIN Loggers,
         Train(l) \/ NextEpoch(l) \/ EndEpoch(l) \/ SecondScalar(l)
  PROVE  Onward(l) \/ Loss(l) \/ Accuracy(l) \/ Summary(l) \/ (At(l, "end") /\ Trap(l))
<1>1. CASE Train(l)
  BY <1>1 DEF Train, Onward, At
<1>2. CASE NextEpoch(l)
  <2>1. ~closed
    BY <1>2 DEF NextEpoch, Trainings, At
  <2> QED BY <1>2, <2>1 DEF NextEpoch, Onward, Goto, At
<1>3. CASE EndEpoch(l)
  <2>1. ~closed /\ pc[l] = "end"
    BY <1>3 DEF EndEpoch, Trainings, At
  <2>2. CASE Throw(l) \/ (Goto(l, "train") /\ UNCHANGED <<logged, durable, failed, closed>>)
    BY <2>1, <2>2 DEF Throw, Goto, Onward, At
  <2>3. CASE Trap(l)
    BY <2>1, <2>3 DEF At
  <2>4. CASE /\ Loggers[l].type = Scalar /\ Logged(l)
             /\ Log!Log(Event(l, "loss", Step(l))) /\ Goto(l, "second")
    BY <2>1, <2>4 DEF Loss, Logged, At
  <2>5. CASE /\ Loggers[l].type # Scalar /\ Logged(l) /\ Goto(l, "train")
             /\ \E step \in {1, Step(l)} : Log!Log(Event(l, "summary", step))
    BY <2>1, <2>5 DEF Summary, Logged, At
  <2>6. "" \notin {"histogram", "image", "embedding", "other"}
    OBVIOUS
  <2> QED BY <1>3, <2>2, <2>3, <2>4, <2>5, <2>6 DEF EndEpoch, Scalar
<1>4. CASE SecondScalar(l)
  BY <1>4 DEF SecondScalar, Accuracy
<1> QED BY <1>1, <1>2, <1>3, <1>4

LEMMA EventRecorded ==
  ASSUME LoggerAssumption, Trainings, NEW l \in DOMAIN Loggers,
         NEW tag \in Tags, NEW step \in Int
  PROVE  Event(l, tag, step) \in Recorded
BY DEF Event, Recorded, Trainings

\* SecondScalar logs the step of the loss, whose interval is not zero.
LEMMA AccuracyStep ==
  ASSUME PairInv, NEW l \in DOMAIN Loggers, At(l, "second")
  PROVE  Step(l) \in Int
<1>1. PICK i \in DOMAIN logged : Open(l, i)
  BY DEF PairInv, LossesAnswered
<1>2. logged[i] \in Recorded /\ logged[i].step = Step(l)
  BY <1>1, ElementOfSeq, LenProperties DEF PairInv, Trainings, Open
<1> QED BY <1>2 DEF Recorded

LEMMA Init_Pairs == Init => PairInv
<1>1. <<>> \in Seq(Recorded) /\ Len(<<>>) = 0 /\ DOMAIN <<>> = {}
  BY EmptySeq
<1> QED BY <1>1 DEF Init, Log!Init, PairInv, Trainings, Paired, LossesAnswered, At, Labels

LEMMA Next_Trainings ==
  ASSUME LoggerAssumption PROVE PairInv /\ [Next]_vars => Trainings'
<1> SUFFICES ASSUME PairInv, [Next]_vars PROVE Trainings'
    OBVIOUS
<1>0. Trainings
  BY DEF PairInv
<1> USE DEF At, Labels
<1>1. ASSUME NEW l \in DOMAIN Loggers, Onward(l) PROVE Trainings'
  <2>1. pc' \in [DOMAIN Loggers -> Labels]
    BY <1>0, <1>1 DEF Onward, Trainings
  <2>2. epoch' \in [DOMAIN Loggers -> Nat] /\ training' \in [DOMAIN Loggers -> Nat]
    BY <1>0, <1>1 DEF Onward, Trainings
  <2>3. ~closed /\ UNCHANGED <<logged, durable, failed, closed>>
    BY <1>1 DEF Onward
  <2> QED BY <1>0, <2>1, <2>2, <2>3 DEF Trainings
<1>2. ASSUME NEW l \in DOMAIN Loggers, NEW e \in Recorded, NEW label \in {"train", "second"},
             Log!Log(e), Goto(l, label)
      PROVE  Trainings'
  <2>1. \A i \in DOMAIN durable : i \in DOMAIN logged
    BY <1>0, LenProperties DEF Trainings
  <2>2. /\ logged' \in Seq(Recorded) /\ ~closed /\ UNCHANGED <<durable, failed, closed>>
        /\ Len(logged') = Len(logged) + 1 /\ Len(logged) \in Nat /\ Len(durable) \in Nat
        /\ \A i \in DOMAIN logged : logged'[i] = logged[i]
    BY <1>0, <1>2, LogAppends, LenProperties DEF Trainings
  <2> QED BY <1>0, <1>2, <2>1, <2>2 DEF Trainings, Goto
<1>3. ASSUME NEW l \in DOMAIN Loggers, Loss(l) PROVE Trainings'
  BY <1>0, <1>2, <1>3, StepOf, EventRecorded DEF Loss, Tags
<1>4. ASSUME NEW l \in DOMAIN Loggers, Accuracy(l) PROVE Trainings'
  BY <1>0, <1>2, <1>4, AccuracyStep, EventRecorded DEF Accuracy, Tags
<1>5. ASSUME NEW l \in DOMAIN Loggers, Summary(l) PROVE Trainings'
  <2>1. PICK step \in {1, Step(l)} : Log!Log(Event(l, "summary", step))
    BY <1>5 DEF Summary
  <2>2. step \in Int
    BY <1>0, <1>5, StepOf DEF Summary
  <2> QED BY <1>0, <1>2, <1>5, <2>1, <2>2, EventRecorded DEF Summary, Tags
<1>6. ASSUME NEW l \in DOMAIN Loggers, At(l, "end"), Trap(l) PROVE Trainings'
  BY <1>0, <1>6 DEF Trap, Log!Fail, Trainings
<1>7. CASE Persist
  <2>1. /\ Len(durable) \in Nat /\ Len(logged) \in Nat /\ Len(durable) < Len(logged)
        /\ DOMAIN durable = 1..Len(durable) /\ durable \in Seq(Recorded)
        /\ durable' = Append(durable, logged[Len(durable) + 1])
        /\ ~closed /\ UNCHANGED <<logged, failed, closed, trainVars>>
    BY <1>0, <1>7, LenProperties DEF Persist, Log!Persist, Trainings
  <2>2. logged[Len(durable) + 1] \in Recorded
    BY <1>0, <2>1, ElementOfSeq DEF Trainings
  <2>3. /\ durable' \in Seq(Recorded) /\ Len(durable') = Len(durable) + 1
        /\ DOMAIN durable' = 1..(Len(durable) + 1)
        /\ \A i \in 1..Len(durable) : durable'[i] = durable[i]
        /\ durable'[Len(durable) + 1] = logged[Len(durable) + 1]
    BY <2>1, <2>2, AppendProperties, LenProperties
  <2> QED BY <1>0, <2>1, <2>3 DEF Trainings, trainVars
<1>8. CASE Fail \/ Close
  BY <1>0, <1>8 DEF Fail, Log!Fail, Close, Log!Close, Trainings, trainVars
<1>9. CASE UNCHANGED vars
  BY <1>0, <1>9 DEF vars, trainVars, Trainings
<1> QED BY <1>0, <1>1, <1>3, <1>4, <1>5, <1>6, <1>7, <1>8, <1>9, StepKinds DEF Next
-------------------------------------------------------------------------------
\* One more event: the earlier ones stay paired, answered and open, unless it
\* is of the same training.
LEMMA PairedAppend ==
  ASSUME Trainings, Paired, NEW e \in Recorded, Log!Log(e),
         IsScalar(e) =>
           \/ /\ e.tag = "loss"
              /\ \A i \in DOMAIN logged : Follows(logged', i, Len(logged) + 1) =>
                                            logged[i].tag = "accuracy"
           \/ /\ e.tag = "accuracy"
              /\ \E i \in DOMAIN logged : /\ Follows(logged', i, Len(logged) + 1)
                                          /\ logged[i].tag = "loss" /\ logged[i].step = e.step
  PROVE  Paired'
<1> SUFFICES ASSUME NEW j \in DOMAIN logged', IsScalar(logged'[j])
             PROVE  \/ /\ logged'[j].tag = "loss"
                       /\ \A i \in 1..(j - 1) : Follows(logged', i, j) =>
                                                  logged'[i].tag = "accuracy"
                    \/ /\ logged'[j].tag = "accuracy"
                       /\ \E i \in 1..(j - 1) : /\ Follows(logged', i, j)
                                                /\ logged'[i].tag = "loss"
                                                /\ logged'[i].step = logged'[j].step
    BY DEF Paired, IsScalar
<1> DEFINE n == Len(logged) + 1
<1>1. /\ Len(logged) \in Nat /\ DOMAIN logged = 1..Len(logged) /\ DOMAIN logged' = 1..n
      /\ \A i \in DOMAIN logged : logged'[i] = logged[i]
      /\ logged'[n] = e
      /\ \A i, k \in DOMAIN logged : Follows(logged', i, k) <=> Follows(logged, i, k)
  BY LogAppends
<1>2. CASE j \in DOMAIN logged
  <2>1. 1..(j - 1) \subseteq DOMAIN logged
    BY <1>1, <1>2
  <2>2. IsScalar(logged[j])
    BY <1>1, <1>2 DEF IsScalar
  <2> QED BY <1>1, <1>2, <2>1, <2>2 DEF Paired
<1>3. CASE j = n
  <2>1. 1..(j - 1) = DOMAIN logged
    BY <1>1, <1>3
  <2>2. IsScalar(e)
    BY <1>1, <1>3 DEF IsScalar
  <2> QED BY <1>1, <1>3, <2>1, <2>2
<1> QED BY <1>1, <1>2, <1>3

LEMMA AnsweredAppend ==
  ASSUME Trainings, NEW e \in Recorded, Log!Log(e), NEW i \in DOMAIN logged
  PROVE  /\ Answered(i) => Answered(i)'
         /\ \A l \in DOMAIN Loggers :
              /\ Open(l, i) /\ e.logger # l /\ training'[l] = training[l] /\ Step(l)' = Step(l) =>
                   Open(l, i)'
              /\ Open(l, i) /\ e.logger = l /\ e.training = training[l] =>
                   Follows(logged', i, Len(logged) + 1)
<1> DEFINE n == Len(logged) + 1
<1>1. /\ Len(logged) \in Nat /\ DOMAIN logged = 1..Len(logged) /\ DOMAIN logged' = 1..n
      /\ \A k \in DOMAIN logged : logged'[k] = logged[k]
      /\ logged'[n] = e
      /\ \A j, k \in DOMAIN logged : Follows(logged', j, k) <=> Follows(logged, j, k)
  BY LogAppends
<1>2. Answered(i) => Answered(i)'
  BY <1>1 DEF Answered
<1>3. ASSUME NEW l \in DOMAIN Loggers, Open(l, i), e.logger # l,
             training'[l] = training[l], Step(l)' = Step(l)
      PROVE  Open(l, i)'
  BY <1>1, <1>3 DEF Open, SameTraining
<1>4. ASSUME NEW l \in DOMAIN Loggers, Open(l, i), e.logger = l, e.training = training[l]
      PROVE  Follows(logged', i, n)
  <2>1. i < n /\ SameTraining(logged'[i], logged'[n])
    BY <1>1, <1>4 DEF Open, SameTraining
  <2>2. ASSUME NEW k \in (i + 1)..(n - 1) PROVE ~SameTraining(logged'[k], logged'[n])
    <3>1. k \in DOMAIN logged /\ i < k
      BY <1>1, <2>2
    <3> QED BY <1>1, <1>4, <3>1 DEF Open, SameTraining
  <2> QED BY <1>1, <2>1, <2>2 DEF Follows
<1> QED BY <1>2, <1>3, <1>4

\* A training that is not between its two events has an accuracy last.
LEMMA AccuracyLast ==
  ASSUME PairInv, NEW e \in Recorded, Log!Log(e), IsScalar(e), At(e.logger, "end"),
         NEW i \in DOMAIN logged, Follows(logged', i, Len(logged) + 1)
  PROVE  logged[i].tag = "accuracy"
<1> DEFINE n == Len(logged) + 1
<1>1. /\ Len(logged) \in Nat /\ DOMAIN logged = 1..Len(logged) /\ DOMAIN logged' = 1..n
      /\ \A k \in DOMAIN logged : logged'[k] = logged[k]
      /\ logged'[n] = e
  BY LogAppends DEF PairInv
<1>2. SameTraining(logged[i], e)
  BY <1>1 DEF Follows
<1>3. IsScalar(logged[i]) /\ At(logged[i].logger, "end")
  BY <1>2 DEF SameTraining, IsScalar
<1>4. ~Answered(i)
  <2>1. ASSUME NEW j \in DOMAIN logged, Follows(logged, i, j) PROVE FALSE
    <3>1. j \in (i + 1)..(n - 1) /\ SameTraining(logged[i], logged[j])
      BY <1>1, <2>1 DEF Follows
    <3> QED BY <1>1, <1>2, <3>1 DEF Follows, SameTraining
  <2> QED BY <2>1 DEF Answered
<1>5. logged[i].tag # "loss"
  BY <1>3, <1>4 DEF PairInv, LossesAnswered, Settled, At
<1> QED BY <1>3, <1>5 DEF PairInv, Paired

LEMMA Next_Paired ==
  ASSUME LoggerAssumption PROVE PairInv /\ [Next]_vars => Paired'
<1> SUFFICES ASSUME PairInv, [Next]_vars PROVE Paired'
    OBVIOUS
<1>0. Trainings /\ Paired
  BY DEF PairInv
<1>1. ASSUME UNCHANGED logged PROVE Paired'
  BY <1>0, <1>1 DEF Paired, Follows, IsScalar
<1>2. ASSUME NEW l \in DOMAIN Loggers, Loss(l) PROVE Paired'
  <2> DEFINE e == Event(l, "loss", Step(l))
  <2>1. e \in Recorded /\ Log!Log(e) /\ e.tag = "loss" /\ e.logger = l
    BY <1>0, <1>2, StepOf, EventRecorded DEF Loss, Event, Tags
  <2>2. At(l, "end")
    BY <1>2 DEF Loss
  <2> HIDE DEF e
  <2> QED BY <1>0, <2>1, <2>2, AccuracyLast, PairedAppend
<1>3. ASSUME NEW l \in DOMAIN Loggers, Accuracy(l) PROVE Paired'
  <2> DEFINE e == Event(l, "accuracy", Step(l))
  <2>1. /\ e \in Recorded /\ Log!Log(e) /\ e.tag = "accuracy" /\ e.logger = l
        /\ e.training = training[l] /\ e.step = Step(l)
    BY <1>0, <1>3, AccuracyStep, EventRecorded DEF Accuracy, Event, Tags
  <2>2. PICK i \in DOMAIN logged : Open(l, i)
    BY <1>3 DEF Accuracy, PairInv, LossesAnswered
  <2> HIDE DEF e
  <2>3. Follows(logged', i, Len(logged) + 1)
    BY <1>0, <2>1, <2>2, AnsweredAppend
  <2> QED BY <1>0, <2>1, <2>2, <2>3, PairedAppend DEF Open
<1>4. ASSUME NEW l \in DOMAIN Loggers, Summary(l) PROVE Paired'
  <2>1. PICK step \in {1, Step(l)} : Log!Log(Event(l, "summary", step))
    BY <1>4 DEF Summary
  <2> DEFINE e == Event(l, "summary", step)
  <2>2. step \in Int
    BY <1>0, <1>4, StepOf DEF Summary
  <2>3. e \in Recorded /\ Log!Log(e) /\ ~IsScalar(e)
    BY <1>0, <1>4, <2>1, <2>2, EventRecorded DEF Summary, Event, Tags, IsScalar
  <2> HIDE DEF e
  <2> QED BY <1>0, <2>3, PairedAppend
<1>5. ASSUME NEW l \in DOMAIN Loggers, Onward(l) \/ (At(l, "end") /\ Trap(l)) PROVE UNCHANGED logged
  BY <1>5 DEF Onward, Trap, Log!Fail
<1>6. CASE Persist \/ Fail \/ Close \/ UNCHANGED vars
  BY <1>1, <1>6 DEF Persist, Log!Persist, Fail, Log!Fail, Close, Log!Close, vars
<1> QED BY <1>0, <1>1, <1>2, <1>3, <1>4, <1>5, <1>6, StepKinds DEF Next
\* An event of logger l leaves the losses of the others answered or open.
LEMMA OthersAnswered ==
  ASSUME PairInv, NEW l \in DOMAIN Loggers, NEW e \in Recorded, e.logger = l, Log!Log(e),
         NEW label \in Labels, Goto(l, label),
         ASSUME NEW i \in DOMAIN logged, IsScalar(logged[i]), logged[i].tag = "loss",
                logged[i].logger = l
         PROVE  Answered(i)',
         NEW n \in Nat, n = Len(logged) + 1,
         e.tag = "loss" => Open(l, n)' /\ label = "second",
         label = "second" => e.tag = "loss" /\ IsScalar(e)
  PROVE  LossesAnswered'
<1>0. Trainings /\ LossesAnswered /\ pc' = [pc EXCEPT ![l] = label]
      /\ pc \in [DOMAIN Loggers -> Labels] /\ epoch' = epoch /\ training' = training
  BY DEF PairInv, Trainings, Goto
<1>1. /\ Len(logged) \in Nat /\ DOMAIN logged = 1..Len(logged) /\ DOMAIN logged' = 1..n
      /\ \A k \in DOMAIN logged : logged'[k] = logged[k] /\ logged[k] \in Recorded
      /\ logged'[n] = e
  BY <1>0, LogAppends, ElementOfSeq DEF Trainings
<1>2. \A m \in DOMAIN Loggers : Step(m)' = Step(m)
  BY <1>0 DEF Step, Interval, Unsigned
<1>3. ASSUME NEW i \in DOMAIN logged', IsScalar(logged'[i]), logged'[i].tag = "loss"
      PROVE  Settled(i)'
  <2>1. CASE i = n
    BY <1>0, <1>1, <1>3, <2>1 DEF At, Settled
  <2>2. CASE i \in DOMAIN logged /\ logged[i].logger = l
    BY <1>1, <1>3, <2>2 DEF IsScalar, Settled
  <2>3. CASE i \in DOMAIN logged /\ logged[i].logger # l
    <3>1. PICK m \in DOMAIN Loggers \ {l} : logged[i].logger = m
      BY <1>1, <2>3 DEF Recorded
    <3>2. pc'[m] = pc[m] /\ logged'[i].logger = m
      BY <1>0, <1>1, <2>3, <3>1
    <3>3. Answered(i) \/ pc[m] = "gone" \/ (pc[m] = "second" /\ Open(m, i))
      BY <1>0, <1>1, <1>3, <2>3, <3>1 DEF LossesAnswered, Settled, IsScalar, At
    <3>4. Answered(i) => Answered(i)'
      BY <1>0, <2>3, AnsweredAppend
    <3>5. Open(m, i) => Open(m, i)'
      BY <1>0, <1>2, <2>3, <3>1, AnsweredAppend
    <3> QED BY <3>2, <3>3, <3>4, <3>5 DEF Settled, At
  <2> QED BY <1>1, <2>1, <2>2, <2>3
<1>4. ASSUME NEW m \in DOMAIN Loggers, At(m, "second")'
      PROVE  Loggers[m].type = Scalar /\ \E i \in DOMAIN logged' : Open(m, i)'
  <2>1. CASE m = l
    <3>1. label = "second"
      BY <1>0, <1>4, <2>1 DEF At
    <3> QED BY <1>1, <2>1, <3>1 DEF IsScalar
  <2>2. CASE m # l
    <3>1. At(m, "second")
      BY <1>0, <1>4, <2>2 DEF At
    <3>2. Loggers[m].type = Scalar /\ \E i \in DOMAIN logged : Open(m, i)
      BY <1>0, <3>1 DEF LossesAnswered
    <3>3. PICK i \in DOMAIN logged : Open(m, i)
      BY <3>2
    <3>4. Open(m, i)'
      BY <1>0, <1>2, <2>2, <3>3, AnsweredAppend
    <3> QED BY <1>1, <3>2, <3>4
  <2> QED BY <2>1, <2>2
<1> QED
  <2>1. \A i \in DOMAIN logged' : IsScalar(logged'[i]) /\ logged'[i].tag = "loss" => Settled(i)'
    BY <1>3
  <2> QED BY <1>4, <2>1 DEF LossesAnswered, IsScalar

LEMMA Next_LossesAnswered ==
  ASSUME LoggerAssumption PROVE PairInv /\ [Next]_vars => LossesAnswered'
<1> SUFFICES ASSUME PairInv, [Next]_vars PROVE LossesAnswered'
    OBVIOUS
<1>0. /\ Trainings /\ LossesAnswered /\ pc \in [DOMAIN Loggers -> Labels]
      /\ \A i \in DOMAIN logged : logged[i] \in Recorded
  BY ElementOfSeq, LenProperties DEF PairInv, Trainings
<1>1. ASSUME NEW l \in DOMAIN Loggers, Loss(l) PROVE LossesAnswered'
  <2> DEFINE e == Event(l, "loss", Step(l))
  <2>1. /\ e \in Recorded /\ Log!Log(e) /\ e.tag = "loss" /\ e.logger = l
        /\ e.training = training[l] /\ e.step = Step(l) /\ IsScalar(e)
    BY <1>0, <1>1, StepOf, EventRecorded DEF Loss, Event, Tags, IsScalar
  <2> HIDE DEF e
  <2>2. ASSUME NEW i \in DOMAIN logged, IsScalar(logged[i]), logged[i].tag = "loss",
               logged[i].logger = l
        PROVE  Answered(i)'
    BY <1>0, <1>1, <2>1, <2>2, AnsweredAppend DEF Loss, LossesAnswered, Settled, At
  <2>3. PICK n \in Nat : n = Len(logged) + 1
    BY <1>0, LenProperties DEF Trainings
  <2>4. Open(l, n)'
    <3>1. /\ DOMAIN logged' = 1..n /\ logged'[n] = e
          /\ training' = training /\ Step(l)' = Step(l)
      BY <1>0, <1>1, <2>1, <2>3, LogAppends DEF Loss, Goto, Step, Interval, Unsigned
    <3> QED BY <2>1, <2>3, <3>1 DEF Open
  <2>5. Goto(l, "second")
    BY <1>1 DEF Loss
  <2> QED BY <2>1, <2>2, <2>3, <2>4, <2>5, OthersAnswered DEF Labels
<1>2. ASSUME NEW l \in DOMAIN Loggers, Accuracy(l) PROVE LossesAnswered'
  <2> DEFINE e == Event(l, "accuracy", Step(l))
  <2>1. /\ e \in Recorded /\ Log!Log(e) /\ e.tag = "accuracy" /\ e.logger = l
        /\ e.training = training[l]
    BY <1>0, <1>2, AccuracyStep, EventRecorded DEF Accuracy, Event, Tags
  <2> HIDE DEF e
  <2>2. PICK n \in Nat : n = Len(logged) + 1
    BY <1>0, LenProperties DEF Trainings
  <2>3. ASSUME NEW i \in DOMAIN logged, IsScalar(logged[i]), logged[i].tag = "loss",
               logged[i].logger = l
        PROVE  Answered(i)'
    <3>1. Answered(i) \/ Open(l, i)
      BY <1>0, <1>2, <2>3 DEF Accuracy, LossesAnswered, Settled, At
    <3>2. Open(l, i) => Follows(logged', i, n)
      BY <1>0, <2>1, <2>2, AnsweredAppend
    <3>3. n \in DOMAIN logged' /\ logged'[n].tag = "accuracy"
      BY <1>0, <2>1, <2>2, LogAppends
    <3>4. Answered(i) => Answered(i)'
      BY <1>0, <2>1, AnsweredAppend
    <3> QED BY <3>1, <3>2, <3>3, <3>4 DEF Answered
  <2>4. Goto(l, "train")
    BY <1>2 DEF Accuracy
  <2> QED BY <2>1, <2>2, <2>3, <2>4, OthersAnswered DEF Labels
<1>3. ASSUME NEW l \in DOMAIN Loggers, Summary(l) PROVE LossesAnswered'
  <2>1. PICK step \in {1, Step(l)} : Log!Log(Event(l, "summary", step))
    BY <1>3 DEF Summary
  <2> DEFINE e == Event(l, "summary", step)
  <2>2. step \in Int
    BY <1>0, <1>3, StepOf DEF Summary
  <2>3. e \in Recorded /\ Log!Log(e) /\ e.tag = "summary" /\ e.logger = l
    BY <1>0, <1>3, <2>1, <2>2, EventRecorded DEF Summary, Event, Tags
  <2> HIDE DEF e
  <2>4. PICK n \in Nat : n = Len(logged) + 1
    BY <1>0, LenProperties DEF Trainings
  <2>5. Goto(l, "train") /\ \A i \in DOMAIN logged : logged[i].logger = l => ~IsScalar(logged[i])
    BY <1>3 DEF Summary, IsScalar
  <2> QED BY <2>3, <2>4, <2>5, OthersAnswered DEF Labels
<1>4. ASSUME UNCHANGED logged, NEW i \in DOMAIN logged, Answered(i) PROVE Answered(i)'
  BY <1>4 DEF Answered, Follows
<1>5. ASSUME NEW l \in DOMAIN Loggers, Onward(l) PROVE LossesAnswered'
  <2>1. /\ logged' = logged /\ pc[l] \notin {"gone", "second"} /\ pc'[l] # "second"
        /\ \A m \in DOMAIN Loggers \ {l} :
             pc'[m] = pc[m] /\ epoch'[m] = epoch[m] /\ training'[m] = training[m]
    BY <1>0, <1>5 DEF Onward, Trainings
  <2>2. ASSUME NEW m \in DOMAIN Loggers \ {l}, NEW i \in DOMAIN logged, Open(m, i)
        PROVE  Open(m, i)'
    BY <2>1, <2>2 DEF Open, Step, Interval, Unsigned
  <2>3. ASSUME NEW i \in DOMAIN logged, IsScalar(logged[i]), logged[i].tag = "loss"
        PROVE  Settled(i)'
    <3>1. PICK m \in DOMAIN Loggers : logged[i].logger = m
      BY <1>0, <2>3 DEF Recorded
    <3>2. Answered(i) \/ (m # l /\ pc[m] = "gone") \/ (m # l /\ pc[m] = "second" /\ Open(m, i))
      BY <1>0, <2>1, <2>3, <3>1 DEF LossesAnswered, Settled, At
    <3> QED BY <1>4, <2>1, <2>2, <2>3, <3>1, <3>2 DEF Settled, At
  <2>4. ASSUME NEW m \in DOMAIN Loggers, At(m, "second")'
        PROVE  Loggers[m].type = Scalar /\ \E i \in DOMAIN logged : Open(m, i)'
    BY <1>0, <2>1, <2>2, <2>4 DEF LossesAnswered, At
  <2>5. \A i \in DOMAIN logged' : IsScalar(logged'[i]) /\ logged'[i].tag = "loss" => Settled(i)'
    BY <2>1, <2>3
  <2> QED BY <2>1, <2>4, <2>5 DEF LossesAnswered, IsScalar
<1>6. ASSUME NEW l \in DOMAIN Loggers, Trap(l) PROVE LossesAnswered'
  <2>1. logged' = logged /\ \A m \in DOMAIN Loggers : pc'[m] = "gone"
    BY <1>6 DEF Trap, Log!Fail
  <2>2. \A i \in DOMAIN logged : logged[i].logger \in DOMAIN Loggers
    BY <1>0 DEF Recorded
  <2> QED BY <2>1, <2>2 DEF LossesAnswered, Settled, At
<1>7. ASSUME UNCHANGED <<logged, pc, epoch, training>> PROVE LossesAnswered'
  BY <1>0, <1>7 DEF LossesAnswered, Settled, Answered, Open, At, Follows, IsScalar, Step, Interval, Unsigned
<1>8. CASE Persist \/ Fail \/ Close \/ UNCHANGED vars
  BY <1>7, <1>8
     DEF Persist, Log!Persist, Fail, Log!Fail, Close, Log!Close, vars, trainVars
<1> QED BY <1>0, <1>1, <1>2, <1>3, <1>5, <1>6, <1>8, StepKinds DEF Next

LEMMA PairInvariant == ASSUME LoggerAssumption PROVE Spec => []PairInv
<1>1. PairInv /\ [Next]_vars => PairInv'
  BY Next_Trainings, Next_Paired, Next_LossesAnswered DEF PairInv
<1> QED BY <1>1, Init_Pairs, PTL DEF Spec

\* What the file has of a loss, an accuracy and their order is what was logged.
LEMMA FollowsInFile ==
  ASSUME Trainings
  PROVE  /\ DOMAIN durable \subseteq DOMAIN logged
         /\ \A j \in DOMAIN durable : 1..j \subseteq DOMAIN durable
         /\ \A i, j \in DOMAIN durable : Follows(durable, i, j) <=> Follows(logged, i, j)
<1>1. /\ Len(durable) \in Nat /\ Len(logged) \in Nat
      /\ DOMAIN durable = 1..Len(durable) /\ DOMAIN logged = 1..Len(logged)
      /\ Len(durable) <= Len(logged) /\ \A i \in DOMAIN durable : durable[i] = logged[i]
  BY LenProperties DEF Trainings
<1> QED BY <1>1 DEF Follows

\* Trainings on any number of threads, whatever their intervals are, and a file
\* cut short anywhere: a training's losses and accuracies come in pairs.
THEOREM LoggedInPairs == ASSUME LoggerAssumption PROVE Spec => []LossThenAccuracy
<1>1. PairInv => LossThenAccuracy
  <2> SUFFICES ASSUME PairInv, NEW j \in DOMAIN durable, IsScalar(durable[j])
               PROVE  \/ /\ durable[j].tag = "loss"
                         /\ \A i \in 1..(j - 1) : Follows(durable, i, j) =>
                                                    durable[i].tag = "accuracy"
                      \/ /\ durable[j].tag = "accuracy"
                         /\ \E i \in 1..(j - 1) : /\ Follows(durable, i, j)
                                                  /\ durable[i].tag = "loss"
                                                  /\ durable[i].step = durable[j].step
      BY DEF LossThenAccuracy
  <2>1. /\ \A i \in DOMAIN durable : durable[i] = logged[i]
        /\ j \in DOMAIN logged /\ j \in Nat
        /\ 1..j \subseteq DOMAIN durable /\ 1..(j - 1) \subseteq 1..j
        /\ \A i, k \in DOMAIN durable : Follows(durable, i, k) <=> Follows(logged, i, k)
    <3>1. j \in Nat
      BY LenProperties DEF PairInv, Trainings
    <3> QED BY <3>1, FollowsInFile DEF PairInv, Trainings
  <2>2. \A i \in 1..(j - 1) : /\ durable[i] = logged[i]
                              /\ Follows(durable, i, j) <=> Follows(logged, i, j)
    BY <2>1
  <2>3. IsScalar(logged[j]) /\ durable[j] = logged[j]
    BY <2>1
  <2> QED BY <2>1, <2>2, <2>3 DEF PairInv, Paired
<1> QED BY <1>1, PairInvariant, PTL

\* Closed when all trainings are over, and complete: no loss is without its
\* accuracy.
THEOREM NoLossAlone == ASSUME LoggerAssumption PROVE Spec => []CompleteWhenClosed
<1>1. PairInv => CompleteWhenClosed
  <2> SUFFICES ASSUME PairInv, closed, ~failed, NEW i \in DOMAIN durable,
                      IsScalar(durable[i]), durable[i].tag = "loss"
               PROVE  \E j \in DOMAIN durable : Follows(durable, i, j) /\ durable[j].tag = "accuracy"
      BY DEF CompleteWhenClosed
  <2>1. durable = logged /\ \A l \in DOMAIN Loggers : At(l, "idle")
    BY DEF PairInv, Trainings
  <2>2. logged[i] \in Recorded
    BY <2>1, ElementOfSeq, LenProperties DEF PairInv, Trainings
  <2>3. logged[i].logger \in DOMAIN Loggers
    BY <2>2 DEF Recorded
  <2> QED BY <2>1, <2>3 DEF PairInv, LossesAnswered, Settled, Answered, At
<1> QED BY <1>1, PairInvariant, PTL
-------------------------------------------------------------------------------
\* How many steps are due when the first e epochs of a training are over.
Due(l, e) == IF Loggers[l].epochCount < 1 THEN 0 ELSE e \div Loggers[l].epochCount

\* What a logger's training has logged, at each point of an epoch.
StepsSoFar(l) ==
  /\ pc[l] \in {"train", "second"} => Cardinality(Steps(l)) = Due(l, epoch[l])
  /\ At(l, "end") => /\ epoch[l] \in 1..MaxEpochs
                     /\ Cardinality(Steps(l)) = Due(l, epoch[l] - 1)
  /\ \A i \in Steps(l) :
       logged[i].step = IF Loggers[l].type = "embedding" THEN 1
                        ELSE Cardinality({j \in Steps(l) : j <= i})

\* A training that is still to begin has logged nothing.
Counted ==
  /\ \A l \in DOMAIN Loggers : StepsSoFar(l)
  /\ \A i \in DOMAIN logged : logged[i].training <= training[logged[i].logger]

CountInv == PairInv /\ Counted

LEMMA NextQuotient ==
  ASSUME NEW e \in Nat, NEW n \in Nat \ {0}
  PROVE  (e + 1) \div n = IF (e + 1) % n = 0 THEN (e \div n) + 1 ELSE e \div n
<1> DEFINE q == e \div n       r == e % n
           u == (e + 1) \div n v == (e + 1) % n
<1>1. q \in Int /\ r \in 0..(n - 1) /\ e = n * q + r
  OBVIOUS
<1>2. u \in Int /\ v \in 0..(n - 1) /\ e + 1 = n * u + v
  OBVIOUS
<1>3. n * (u - q) = 1 + r - v
  BY <1>1, <1>2
<1> HIDE DEF q, r, u, v
<1> QED OBVIOUS

\* The epoch whose end is logged is the one that makes one more step due.
LEMMA DueWhenLogged ==
  ASSUME LoggerAssumption, NEW l \in DOMAIN Loggers, epoch[l] \in 1..MaxEpochs
  PROVE  /\ Due(l, epoch[l] - 1) \in Nat
         /\ Due(l, epoch[l]) = Due(l, epoch[l] - 1) + (IF Logged(l) THEN 1 ELSE 0)
         /\ Logged(l) => Step(l) = Due(l, epoch[l])
<1> DEFINE n == Loggers[l].epochCount
           e == epoch[l] - 1
<1>1. n \in Int /\ MaxEpochs \in Nat /\ e \in Nat /\ epoch[l] = e + 1 /\ e + 1 <= MaxEpochs
  BY DEF LoggerAssumption
<1>2. /\ Interval(l) \in Nat
      /\ n >= 0 => Interval(l) = n
      /\ n < 0 => MaxEpochs < Interval(l)
  BY IntervalOf
<1>3. CASE n < 1
  <2>1. ~Logged(l)
    <3> SUFFICES ASSUME Interval(l) # 0 PROVE (e + 1) % Interval(l) # 0
        BY <1>1 DEF Logged
    <3>1. e + 1 < Interval(l) /\ Interval(l) \in Nat
      BY <1>1, <1>2, <1>3
    <3> HIDE DEF e
    <3> QED BY <1>1, <3>1
  <2> QED BY <1>3, <2>1 DEF Due
<1>4. CASE n >= 1
  <2>1. n \in Nat \ {0} /\ Interval(l) = n
    BY <1>1, <1>2, <1>4
  <2>2. Logged(l) <=> (e + 1) % n = 0
    BY <1>1, <2>1 DEF Logged
  <2>3. Due(l, epoch[l]) = (e + 1) \div n /\ Due(l, e) = e \div n /\ Step(l) = (e + 1) \div n
    BY <1>1, <1>4, <2>1 DEF Due, Step
  <2> HIDE DEF n, e
  <2>4. e \div n \in Nat
    BY <1>1, <2>1
  <2>5. Logged(l) => (e + 1) \div n = (e \div n) + 1
    BY <1>1, <2>1, <2>2, NextQuotient
  <2>6. ~Logged(l) => (e + 1) \div n = e \div n
    BY <1>1, <2>1, <2>2, NextQuotient
  <2>7. /\ Due(l, e) \in Nat
        /\ Due(l, epoch[l]) = Due(l, e) + (IF Logged(l) THEN 1 ELSE 0)
        /\ Logged(l) => Step(l) = Due(l, epoch[l])
    BY <2>3, <2>4, <2>5, <2>6
  <2> QED BY <2>7 DEF e
<1> QED BY <1>1, <1>3, <1>4

LEMMA StepsFinite ==
  ASSUME Trainings, NEW l
  PROVE  /\ IsFiniteSet(Steps(l)) /\ Steps(l) \subseteq 1..Len(logged) /\ Len(logged) \in Nat
<1>1. Len(logged) \in Nat /\ DOMAIN logged = 1..Len(logged)
  BY LenProperties DEF Trainings
<1>2. IsFiniteSet(1..Len(logged))
  BY <1>1, FS_Interval
<1>3. Steps(l) \subseteq 1..Len(logged)
  BY <1>1 DEF Steps
<1> QED BY <1>1, <1>2, <1>3, FS_Subset

\* An event that is a step of its training is its last one.
LEMMA StepsAppend ==
  ASSUME Trainings, NEW e \in Recorded, Log!Log(e), training' = training,
         NEW l \in DOMAIN Loggers
  PROVE  IF e.logger = l /\ e.training = training[l] /\ e.tag # "accuracy"
         THEN Steps(l)' = Steps(l) \cup {Len(logged) + 1}
         ELSE Steps(l)' = Steps(l)
<1>1. /\ Len(logged) \in Nat /\ DOMAIN logged = 1..Len(logged)
      /\ DOMAIN logged' = 1..(Len(logged) + 1)
      /\ \A i \in DOMAIN logged : logged'[i] = logged[i]
      /\ logged'[Len(logged) + 1] = e
  BY LogAppends
<1>2. DOMAIN logged' = DOMAIN logged \cup {Len(logged) + 1}
  BY <1>1
<1> QED BY <1>1, <1>2 DEF Steps

\* A training in which nothing is logged keeps its steps.
LEMMA SameSteps ==
  ASSUME UNCHANGED logged, NEW l \in DOMAIN Loggers, training'[l] = training[l]
  PROVE  Steps(l)' = Steps(l)
BY DEF Steps
LEMMA SameStepsSoFar ==
  ASSUME Trainings, NEW l \in DOMAIN Loggers, StepsSoFar(l), Steps(l)' = Steps(l),
         \A i \in DOMAIN logged : logged'[i] = logged[i],
         pc'[l] = pc[l] /\ epoch'[l] = epoch[l]
  PROVE  StepsSoFar(l)'
<1>1. \A i \in Steps(l) : logged'[i] = logged[i]
  BY DEF Steps
<1> QED BY <1>1 DEF StepsSoFar, Due, At

\* The end of an epoch whose step is logged.
StepLogged(l) ==
  /\ At(l, "end") /\ Logged(l)
  /\ \E label \in {"train", "second"} : Goto(l, label)
  /\ \E tag \in {"loss", "summary"} :
       Log!Log(Event(l, tag, IF Loggers[l].type = "embedding" THEN 1 ELSE Step(l)))

\* Or not, because it is not due; or the training is left.
NoStep(l) ==
  /\ At(l, "end")
  /\ \/ Goto(l, "idle")
     \/ ~Logged(l) /\ Goto(l, "train")
     \/ Trap(l)
  /\ UNCHANGED logged

LEMMA EndKinds ==
  ASSUME NEW l \in DOMAIN Loggers, EndEpoch(l) PROVE StepLogged(l) \/ NoStep(l)
<1>1. "embedding" \notin {"histogram", "image", Scalar}
  BY DEF Scalar
<1>2. At(l, "end")
  BY DEF EndEpoch
<1>3. CASE Throw(l) \/ Trap(l) \/ (~Logged(l) /\ Goto(l, "train") /\ UNCHANGED logged)
  BY <1>2, <1>3 DEF NoStep, Throw, Trap, Log!Fail
<1>4. CASE /\ Loggers[l].type = Scalar /\ Logged(l)
           /\ Log!Log(Event(l, "loss", Step(l))) /\ Goto(l, "second")
  BY <1>1, <1>2, <1>4 DEF StepLogged
<1>5. CASE /\ Loggers[l].type \in {"histogram", "image"} /\ Logged(l)
           /\ Log!Log(Event(l, "summary", Step(l))) /\ Goto(l, "train")
  BY <1>1, <1>2, <1>5 DEF StepLogged
<1>6. CASE /\ Loggers[l].type = "embedding" /\ Logged(l)
           /\ Log!Log(Event(l, "summary", 1)) /\ Goto(l, "train")
  BY <1>2, <1>6 DEF StepLogged
<1> QED BY <1>3, <1>4, <1>5, <1>6 DEF EndEpoch

LEMMA StepCounted ==
  ASSUME LoggerAssumption, CountInv, NEW l \in DOMAIN Loggers, StepLogged(l)
  PROVE  Counted'
<1>0. /\ Trainings /\ StepsSoFar(l) /\ pc[l] = "end" /\ Logged(l)
      /\ epoch' = epoch /\ training' = training /\ epoch[l] \in 1..MaxEpochs
      /\ pc \in [DOMAIN Loggers -> Labels] /\ Interval(l) # 0
  BY DEF CountInv, PairInv, Counted, StepsSoFar, Trainings, StepLogged, At, Goto, Logged
<1>1. PICK tag \in {"loss", "summary"} :
        Log!Log(Event(l, tag, IF Loggers[l].type = "embedding" THEN 1 ELSE Step(l)))
  BY DEF StepLogged
<1> DEFINE step == IF Loggers[l].type = "embedding" THEN 1 ELSE Step(l)
           e == Event(l, tag, step)
           n == Len(logged) + 1
<1>2. Step(l) \in Int
  BY <1>0, StepOf
<1>3. /\ e \in Recorded /\ Log!Log(e) /\ e.logger = l /\ e.training = training[l]
      /\ e.tag # "accuracy" /\ e.step = step
  BY <1>0, <1>1, <1>2, EventRecorded DEF Event, Tags
<1> HIDE DEF e
<1>4. /\ Len(logged) \in Nat /\ DOMAIN logged = 1..Len(logged) /\ DOMAIN logged' = 1..n
      /\ \A i \in DOMAIN logged : logged'[i] = logged[i]
      /\ logged'[n] = e
  BY <1>0, <1>3, LogAppends
<1>5. Steps(l)' = Steps(l) \cup {n} /\ Steps(l) \subseteq 1..Len(logged) /\ IsFiniteSet(Steps(l))
  BY <1>0, <1>3, StepsAppend, StepsFinite
<1>6. Cardinality(Steps(l)') = Cardinality(Steps(l)) + 1 /\ Cardinality(Steps(l)) \in Nat
  <2>1. n \notin Steps(l)
    BY <1>4, <1>5
  <2>2. Cardinality(Steps(l) \cup {n}) = Cardinality(Steps(l)) + 1
    <3> HIDE DEF n
    <3> QED BY <1>5, <2>1, FS_AddElement
  <2>3. Cardinality(Steps(l)) \in Nat
    BY <1>5, FS_CardinalityType
  <2> QED BY <1>5, <2>2, <2>3
<1>7. /\ Cardinality(Steps(l)') = Due(l, epoch[l])
      /\ Step(l) = Due(l, epoch[l])
  BY <1>0, <1>6, DueWhenLogged DEF StepsSoFar, At
<1>8. ASSUME NEW i \in Steps(l)'
      PROVE  logged'[i].step = IF Loggers[l].type = "embedding" THEN 1
                               ELSE Cardinality({j \in Steps(l)' : j <= i})
  <2>1. CASE i \in Steps(l)
    <3>1. {j \in Steps(l)' : j <= i} = {j \in Steps(l) : j <= i} /\ i \in DOMAIN logged
      BY <1>4, <1>5, <2>1
    <3> QED BY <1>0, <1>4, <2>1, <3>1 DEF StepsSoFar
  <2>2. CASE i = n
    <3>1. {j \in Steps(l)' : j <= n} = Steps(l)'
      BY <1>4, <1>5
    <3> QED BY <1>3, <1>4, <1>7, <2>2, <3>1
  <2> QED BY <1>5, <2>1, <2>2
<1>9. StepsSoFar(l)'
  <2>1. pc'[l] \in {"train", "second"}
    BY <1>0 DEF StepLogged, Goto
  <2> QED BY <1>0, <1>7, <1>8, <2>1 DEF StepsSoFar, At, Due
<1>10. ASSUME NEW m \in DOMAIN Loggers \ {l} PROVE StepsSoFar(m)'
  <2>1. Steps(m)' = Steps(m)
    BY <1>0, <1>3, StepsAppend
  <2>2. pc'[m] = pc[m]
    BY <1>0 DEF StepLogged, Goto
  <2> QED BY <1>0, <1>4, <2>1, <2>2, SameStepsSoFar DEF CountInv, Counted
<1>11. ASSUME NEW i \in DOMAIN logged' PROVE logged'[i].training <= training'[logged'[i].logger]
  <2>1. training[l] <= training[l]
    BY <1>0 DEF Trainings
  <2> QED BY <1>0, <1>3, <1>4, <2>1 DEF CountInv, Counted
<1> QED BY <1>9, <1>10, <1>11 DEF Counted
LEMMA Next_Counted ==
  ASSUME LoggerAssumption PROVE CountInv /\ [Next]_vars => Counted'
<1> SUFFICES ASSUME CountInv, [Next]_vars PROVE Counted'
    OBVIOUS
<1>0. /\ Trainings /\ pc \in [DOMAIN Loggers -> Labels] /\ epoch \in [DOMAIN Loggers -> Nat]
      /\ training \in [DOMAIN Loggers -> Nat]
      /\ \A l \in DOMAIN Loggers : StepsSoFar(l)
      /\ \A i \in DOMAIN logged : /\ logged[i].training <= training[logged[i].logger]
                                  /\ logged[i].logger \in DOMAIN Loggers
                                  /\ logged[i].training \in Nat
  <2>1. \A i \in DOMAIN logged : logged[i] \in Recorded
    BY ElementOfSeq, LenProperties DEF CountInv, PairInv, Trainings
  <2> QED BY <2>1 DEF CountInv, PairInv, Trainings, Counted, Recorded
\* The other loggers' trainings, and a training that is not the first.
<1>1. ASSUME UNCHANGED logged, NEW l \in DOMAIN Loggers,
             \A m \in DOMAIN Loggers \ {l} :
               pc'[m] = pc[m] /\ epoch'[m] = epoch[m] /\ training'[m] = training[m],
             training'[l] \in Nat, training'[l] >= training[l], StepsSoFar(l)'
      PROVE  Counted'
  <2>1. ASSUME NEW m \in DOMAIN Loggers \ {l} PROVE StepsSoFar(m)'
    <3>1. Steps(m)' = Steps(m)
      BY <1>1, SameSteps
    <3> QED BY <1>0, <1>1, <3>1, SameStepsSoFar
  <2>2. \A i \in DOMAIN logged : logged[i].training <= training'[logged[i].logger]
    BY <1>0, <1>1
  <2> QED BY <1>1, <2>1, <2>2 DEF Counted
<1>2. ASSUME NEW l \in DOMAIN Loggers, Train(l) PROVE Counted'
  <2>1. /\ UNCHANGED logged /\ pc'[l] = "train" /\ epoch'[l] = 0
        /\ training'[l] = training[l] + 1
        /\ \A m \in DOMAIN Loggers \ {l} :
             pc'[m] = pc[m] /\ epoch'[m] = epoch[m] /\ training'[m] = training[m]
    BY <1>0, <1>2 DEF Train
  <2>2. Steps(l)' = {}
    BY <1>0, <2>1 DEF Steps
  <2>3. Cardinality({}) = 0
    BY FS_EmptySet
  <2>4. Due(l, 0) = 0
    <3>1. Loggers[l].epochCount \in Int
      BY DEF LoggerAssumption
    <3> QED BY <3>1 DEF Due
  <2>5. Due(l, epoch[l])' = 0
    BY <2>1, <2>4 DEF Due
  <2>6. StepsSoFar(l)'
    BY <2>1, <2>2, <2>3, <2>5 DEF StepsSoFar, At
  <2>7. training'[l] \in Nat /\ training'[l] >= training[l]
    BY <1>0, <2>1
  <2> QED BY <1>1, <2>1, <2>6, <2>7
<1>3. ASSUME NEW l \in DOMAIN Loggers, NextEpoch(l) PROVE Counted'
  <2>1. /\ UNCHANGED <<logged, training>>
        /\ \A m \in DOMAIN Loggers \ {l} : pc'[m] = pc[m] /\ epoch'[m] = epoch[m]
        /\ \/ pc'[l] = "end" /\ epoch'[l] = epoch[l] + 1 /\ epoch[l] < MaxEpochs
           \/ pc'[l] = "idle"
    BY <1>0, <1>3 DEF NextEpoch, Goto
  <2>2. Steps(l)' = Steps(l)
    BY <2>1, SameSteps
  <2>3. pc[l] = "train" /\ StepsSoFar(l) /\ epoch[l] \in Nat /\ MaxEpochs \in Nat
    BY <1>0, <1>3 DEF NextEpoch, At, LoggerAssumption
  <2>4. CASE pc'[l] = "end" /\ epoch'[l] = epoch[l] + 1 /\ epoch[l] < MaxEpochs
    <3>1. epoch'[l] \in 1..MaxEpochs /\ epoch'[l] - 1 = epoch[l]
      BY <2>3, <2>4
    <3>2. Due(l, epoch[l] - 1)' = Due(l, epoch[l])
      BY <3>1 DEF Due
    <3>3. StepsSoFar(l)'
      BY <2>1, <2>2, <2>3, <2>4, <3>1, <3>2 DEF StepsSoFar, At
    <3> QED BY <1>0, <1>1, <2>1, <3>3
  <2>5. CASE pc'[l] = "idle"
    <3>1. StepsSoFar(l)'
      BY <2>1, <2>2, <2>3, <2>5 DEF StepsSoFar, At
    <3> QED BY <1>0, <1>1, <2>1, <3>1
  <2> QED BY <2>1, <2>4, <2>5
<1>4. ASSUME NEW l \in DOMAIN Loggers, NoStep(l) PROVE Counted'
  <2>1. UNCHANGED <<logged, epoch, training>> /\ pc[l] = "end" /\ StepsSoFar(l)
    BY <1>0, <1>4 DEF NoStep, Goto, Trap, At
  <2>2. \A m \in DOMAIN Loggers : Steps(m)' = Steps(m)
    BY <2>1, SameSteps
  <2>3. CASE ~Logged(l) /\ Goto(l, "train")
    <3>1. Due(l, epoch[l]) = Due(l, epoch[l] - 1)
      BY <2>1, <2>3, DueWhenLogged DEF StepsSoFar, At
    <3>2. /\ pc'[l] = "train"
          /\ \A m \in DOMAIN Loggers \ {l} : pc'[m] = pc[m]
      BY <1>0, <2>3 DEF Goto
    <3>3. StepsSoFar(l)'
      BY <2>1, <2>2, <3>1, <3>2 DEF StepsSoFar, At, Due
    <3> QED BY <1>0, <1>1, <2>1, <3>2, <3>3
  <2>4. CASE Goto(l, "idle")
    <3>1. /\ pc'[l] = "idle"
          /\ \A m \in DOMAIN Loggers \ {l} : pc'[m] = pc[m]
      BY <1>0, <2>4 DEF Goto
    <3>2. StepsSoFar(l)'
      BY <2>1, <2>2, <3>1 DEF StepsSoFar, At
    <3> QED BY <1>0, <1>1, <2>1, <3>1, <3>2
  <2>5. CASE Trap(l)
    <3>1. \A m \in DOMAIN Loggers : pc'[m] = "gone"
      BY <2>5 DEF Trap
    <3>2. ASSUME NEW m \in DOMAIN Loggers PROVE StepsSoFar(m)'
      BY <1>0, <2>1, <2>2, <3>1 DEF StepsSoFar, At
    <3> QED BY <1>0, <2>1, <3>2 DEF Counted
  <2> QED BY <1>4, <2>3, <2>4, <2>5 DEF NoStep
<1>5. ASSUME NEW l \in DOMAIN Loggers, EndEpoch(l) PROVE Counted'
  BY <1>4, <1>5, EndKinds, StepCounted
<1>6. ASSUME NEW l \in DOMAIN Loggers, SecondScalar(l) PROVE Counted'
  <2> DEFINE e == Event(l, "accuracy", Step(l))
  <2>1. /\ e \in Recorded /\ Log!Log(e) /\ e.tag = "accuracy" /\ e.logger = l
        /\ e.training = training[l]
    BY <1>0, <1>6, AccuracyStep, EventRecorded
       DEF CountInv, PairInv, SecondScalar, Event, Tags
  <2> HIDE DEF e
  <2>2. /\ pc[l] = "second" /\ pc'[l] = "train" /\ UNCHANGED <<epoch, training>>
        /\ \A m \in DOMAIN Loggers \ {l} : pc'[m] = pc[m]
    BY <1>0, <1>6 DEF SecondScalar, Goto, At
  <2>3. \A m \in DOMAIN Loggers : Steps(m)' = Steps(m)
    BY <1>0, <2>1, <2>2, StepsAppend
  <2>4. /\ \A i \in DOMAIN logged : logged'[i] = logged[i]
        /\ DOMAIN logged' = DOMAIN logged \cup {Len(logged) + 1}
        /\ logged'[Len(logged) + 1] = e
    <3>1. /\ \A i \in DOMAIN logged : logged'[i] = logged[i]
          /\ Len(logged) \in Nat /\ DOMAIN logged = 1..Len(logged)
          /\ DOMAIN logged' = 1..(Len(logged) + 1)
          /\ logged'[Len(logged) + 1] = e
      BY <1>0, <2>1, LogAppends
    <3> QED BY <3>1
  <2>5. ASSUME NEW m \in DOMAIN Loggers PROVE StepsSoFar(m)'
    <3>1. CASE m = l
      <4>1. \A i \in Steps(l) : logged'[i] = logged[i]
        BY <2>4 DEF Steps
      <4>2. StepsSoFar(l) /\ Steps(l)' = Steps(l) /\ Due(l, epoch[l])' = Due(l, epoch[l])
        BY <1>0, <2>2, <2>3 DEF Due
      <4>3. StepsSoFar(l)'
        BY <2>2, <4>1, <4>2 DEF StepsSoFar, At
      <4> QED BY <3>1, <4>3
    <3>2. CASE m # l
      BY <1>0, <2>2, <2>3, <2>4, <3>2, SameStepsSoFar
    <3> QED BY <3>1, <3>2
  <2>6. \A i \in DOMAIN logged' : logged'[i].training <= training'[logged'[i].logger]
    BY <1>0, <2>1, <2>2, <2>4
  <2> QED BY <2>5, <2>6 DEF Counted
<1>7. ASSUME UNCHANGED <<logged, pc, epoch, training>> PROVE Counted'
  <2>1. ASSUME NEW m \in DOMAIN Loggers PROVE StepsSoFar(m)'
    BY <1>0, <1>7, SameSteps, SameStepsSoFar
  <2> QED BY <1>0, <1>7, <2>1 DEF Counted
<1>8. CASE Persist \/ Fail \/ Close \/ UNCHANGED vars
  BY <1>7, <1>8
     DEF Persist, Log!Persist, Fail, Log!Fail, Close, Log!Close, vars, trainVars
<1> QED BY <1>2, <1>3, <1>5, <1>6, <1>8 DEF Next

\* Loggers of every kind and interval, zero and negative ones included, and any
\* number of trainings at the same time: between two epochs a training has
\* logged the steps that are due, in their order, each once.
THEOREM StepsWhenDue == ASSUME LoggerAssumption PROVE Spec => []EveryNthEpochLogged
<1>1. Init => CountInv
  <2>1. ASSUME Init PROVE Counted
    <3>1. DOMAIN <<>> = {}
      BY EmptySeq
    <3>2. DOMAIN logged = {} /\ \A l \in DOMAIN Loggers : pc[l] = "idle"
      BY <2>1, <3>1 DEF Init, Log!Init
    <3> QED BY <3>2 DEF Counted, StepsSoFar, Steps, At
  <2> QED BY <2>1, Init_Pairs DEF CountInv
<1>2. CountInv /\ [Next]_vars => CountInv'
  BY Next_Trainings, Next_Paired, Next_LossesAnswered, Next_Counted DEF CountInv, PairInv
<1>3. CountInv => EveryNthEpochLogged
  BY DEF CountInv, Counted, StepsSoFar, EveryNthEpochLogged, Due, At
<1> QED BY <1>1, <1>2, <1>3, PTL DEF Spec
===============================================================================
