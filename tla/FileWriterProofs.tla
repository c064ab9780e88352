---------------------------- MODULE FileWriterProofs ----------------------------
(***************************************************************************)
(* What TLAPS proves about SharedQueue, for every set of threads and items *)
(* and every set of bounds, then about FileWriter, which is built on it,   *)
(* for every set of producers, number of events, bound of the queue and    *)
(* flush interval, and about the pacing of its rounds, for every interval, *)
(* unit of time and queue.                                                 *)
(***************************************************************************)
EXTENDS FileWriter, FlushTimer, SequenceTheorems, TLAPS

InCriticalSection(t) == qpc[t] \in {"push_test", "push_store", "pop_test"}

\* The mutex is held exactly by the thread between lock and unlock.
LockProtocol == \A t \in Threads : InCriticalSection(t) <=> mutex_ = t

\* A thread asleep on a condition variable is inside that call's wait().
SleepersParked ==
  /\ \A t \in queueempty : qpc[t] = "pop_lock"
  /\ \A t \in queueFull : qpc[t] = "push_lock"

\* What a Push carries is an item.
Carrying ==
  \A p \in Producers : qpc[p] # "out" => item[p] \in Items

QInv == QTypeOK /\ LockProtocol /\ SleepersParked /\ Carrying

-------------------------------------------------------------------------------
LEMMA CapacityFact ==
  /\ Capacity \in MaxSizes /\ Capacity \in Nat
  /\ \A m \in MaxSizes : m <= Capacity /\ m \in Nat
BY QueueAssumption

\* Which steps the two kinds of thread take.
LEMMA KindOfThread ==
  ASSUME QTypeOK, NEW t \in Threads
  PROVE  /\ qpc[t] \in {"push_lock", "push_test", "push_store", "push_notify"} => t \in Producers
         /\ qpc[t] \in {"pop_lock", "pop_test", "pop_notify"} => t \in Consumers
         /\ qpc[t] \in Places
BY QueueAssumption DEF QTypeOK, Threads, Places

LEMMA QInit_Inv == QInit => QInv
BY QueueAssumption DEF QInit, QInv, QTypeOK, LockProtocol, SleepersParked,
   Carrying, InCriticalSection, Threads, Places

LEMMA QNext_TypeOK == QTypeOK /\ SleepersParked /\ Carrying /\ [QNext]_qvars => QTypeOK'
<1> SUFFICES ASSUME QTypeOK, SleepersParked, Carrying, [QNext]_qvars PROVE QTypeOK'
    OBVIOUS
<1> USE DEF QTypeOK, Move, Acquire
<1>1. ASSUME NEW t \in Threads, QCall(t) PROVE QTypeOK'
  BY <1>1, QueueAssumption DEF QCall, PushCall, PopCall, Threads, Places
<1>2. ASSUME NEW t \in Threads, PushStep(t) PROVE QTypeOK'
  <2>0. qpc[t] \in {"push_lock", "push_test", "push_store", "push_notify"}
    BY <1>2 DEF PushStep, PushLock, PushWait, PushEnter, PushStore, PushNotify
  <2>1. t \in Producers /\ t \notin Consumers /\ item[t] \in Items
    BY <2>0, KindOfThread, QueueAssumption DEF Carrying
  <2>2. CASE PushLock(t)
    BY <2>1, <2>2, QueueAssumption DEF PushLock, Threads, Places
  <2>3. CASE PushWait(t)
    BY <2>1, <2>3, QueueAssumption DEF PushWait, Threads, Places
  <2>4. CASE PushEnter(t)
    BY <2>1, <2>4, QueueAssumption DEF PushEnter, Threads, Places
  <2>5. CASE PushStore(t)
    BY <2>1, <2>5, QueueAssumption DEF PushStore, Threads, Places
  <2>6. CASE PushNotify(t)
    BY <2>1, <2>6, QueueAssumption DEF PushNotify, Threads, Places
  <2> QED BY <1>2, <2>2, <2>3, <2>4, <2>5, <2>6 DEF PushStep
<1>3. ASSUME NEW t \in Threads, PopStep(t) PROVE QTypeOK'
  <2>0. qpc[t] \in {"pop_lock", "pop_test", "pop_notify"}
    BY <1>3 DEF PopStep, PopLock, PopWait, PopTake, PopNotify
  <2>1. t \in Consumers /\ t \notin Producers
    BY <2>0, KindOfThread, QueueAssumption
  <2>2. CASE PopLock(t)
    BY <2>1, <2>2, QueueAssumption DEF PopLock, Threads, Places
  <2>3. CASE PopWait(t)
    BY <2>1, <2>3, QueueAssumption DEF PopWait, Threads, Places
  <2>4. CASE PopTake(t)
    <3>1. Head(queue_) \in Items /\ Tail(queue_) \in Seq(Items)
      BY <2>4, HeadTailProperties DEF PopTake
    <3> QED BY <2>1, <2>4, <3>1, QueueAssumption DEF PopTake, Threads, Places
  <2>5. CASE PopNotify(t)
    BY <2>1, <2>5, QueueAssumption DEF PopNotify, Threads, Places
  <2> QED BY <1>3, <2>2, <2>3, <2>4, <2>5 DEF PopStep
<1>4. ASSUME NEW t \in Threads, SpuriousWakeup(t) PROVE QTypeOK'
  BY <1>4, QueueAssumption DEF SpuriousWakeup
<1>5. ASSUME NEW n \in MaxSizes, SetMaxSize(n) PROVE QTypeOK'
  BY <1>5 DEF SetMaxSize
<1>6. CASE UNCHANGED qvars
  BY <1>6 DEF qvars
<1> QED BY <1>1, <1>2, <1>3, <1>4, <1>5, <1>6 DEF QNext, QStep

LEMMA QNext_Inv == QInv /\ [QNext]_qvars => QInv'
<1> SUFFICES ASSUME QInv, [QNext]_qvars PROVE QInv'
    OBVIOUS
<1>0. QTypeOK'
  BY QNext_TypeOK DEF QInv
<1> USE DEF QInv, Move, Acquire
<1>1. ASSUME NEW t \in Threads, QCall(t)
      PROVE LockProtocol' /\ SleepersParked' /\ Carrying'
  BY <1>1, QueueAssumption DEF QCall, PushCall, PopCall, LockProtocol,
     SleepersParked, Carrying, InCriticalSection, QTypeOK, Threads
<1>2. ASSUME NEW t \in Threads, PushStep(t)
      PROVE LockProtocol' /\ SleepersParked' /\ Carrying'
  BY <1>2, QueueAssumption, KindOfThread DEF PushStep, PushLock, PushWait, PushEnter,
     PushStore, PushNotify, LockProtocol, SleepersParked, Carrying,
     InCriticalSection, QTypeOK, Threads
<1>3. ASSUME NEW t \in Threads, PopStep(t)
      PROVE LockProtocol' /\ SleepersParked' /\ Carrying'
  BY <1>3, QueueAssumption, KindOfThread DEF PopStep, PopLock, PopWait, PopTake, PopNotify,
     LockProtocol, SleepersParked, Carrying, InCriticalSection, QTypeOK, Threads
<1>4. ASSUME NEW t \in Threads, SpuriousWakeup(t)
      PROVE LockProtocol' /\ SleepersParked' /\ Carrying'
  BY <1>4 DEF SpuriousWakeup, LockProtocol, SleepersParked, Carrying, InCriticalSection
<1>5. ASSUME NEW n \in MaxSizes, SetMaxSize(n)
      PROVE LockProtocol' /\ SleepersParked' /\ Carrying'
  BY <1>5 DEF SetMaxSize, LockProtocol, SleepersParked, Carrying, InCriticalSection
<1>6. CASE UNCHANGED qvars
  BY <1>0, <1>6 DEF qvars, LockProtocol, SleepersParked, Carrying, InCriticalSection
<1> QED BY <1>0, <1>1, <1>2, <1>3, <1>4, <1>5, <1>6 DEF QNext, QStep

\* The strengthening of QTypeOK that the mutex and the wait sets give.
LEMMA QueueInvariant == QSpec => []QInv
BY QInit_Inv, QNext_Inv, PTL DEF QSpec

\* Every behaviour of the queue is type correct: threads that push and threads
\* that pop keep to their own calls and their own condition variable.
THEOREM QueueTypeOK == QSpec => []QTypeOK
BY QueueInvariant, PTL DEF QInv

-------------------------------------------------------------------------------
LEMMA AppendLength ==
  ASSUME NEW s \in Seq(Items), NEW x \in Items
  PROVE  Len(Append(s, x)) = Len(s) + 1 /\ Append(s, x) # <<>>
<1>1. Append(s, x) \in Seq(Items) /\ Len(Append(s, x)) = Len(s) + 1 /\ Len(s) \in Nat
  BY AppendProperties, LenProperties
<1> QED BY <1>1, EmptySeq

LEMMA TailLength ==
  ASSUME NEW s \in Seq(Items), s # <<>>
  PROVE  Len(Tail(s)) = Len(s) - 1
BY HeadTailProperties

LEMMA EmptyLength ==
  ASSUME NEW s \in Seq(Items)
  PROVE  Len(s) \in Nat /\ (s = <<>> <=> Len(s) = 0)
BY EmptySeq

LEMMA Overfull_Step == QInv /\ NeverOverfull /\ [QNext]_qvars => NeverOverfull'
<1> SUFFICES ASSUME QInv, NeverOverfull, [QNext]_qvars PROVE NeverOverfull'
    OBVIOUS
<1>0. queue_ \in Seq(Items) /\ Len(queue_) \in Nat /\ maxSize \in Nat /\ maxSize <= Capacity
      /\ Capacity \in Nat
  BY CapacityFact, EmptyLength DEF QInv, QTypeOK
<1> USE DEF Move, Acquire, NeverOverfull
<1>1. ASSUME NEW t \in Threads, PushStep(t) PROVE NeverOverfull'
  <2>1. CASE PushStore(t)
    <3>1. item[t] \in Items
      BY <2>1, KindOfThread DEF PushStore, QInv, Carrying
    <3>2. Len(queue_') = Len(queue_) + 1 /\ Len(queue_) < Capacity
      BY <1>0, <2>1, <3>1, AppendLength DEF PushStore
    <3>3. \A u \in Threads : qpc'[u] # "push_store"
      BY <2>1 DEF PushStore, QInv, QTypeOK, LockProtocol, InCriticalSection
    <3> QED BY <1>0, <3>2, <3>3
  <2>2. CASE PushLock(t) \/ PushWait(t) \/ PushEnter(t) \/ PushNotify(t)
    BY <1>0, <2>2 DEF PushLock, PushWait, PushEnter, PushNotify, QInv, QTypeOK
  <2> QED BY <1>1, <2>1, <2>2 DEF PushStep
<1>2. ASSUME NEW t \in Threads, PopStep(t) PROVE NeverOverfull'
  <2>1. CASE PopTake(t)
    BY <1>0, <2>1, TailLength DEF PopTake, QInv, QTypeOK
  <2>2. CASE PopLock(t) \/ PopWait(t) \/ PopNotify(t)
    BY <2>2 DEF PopLock, PopWait, PopNotify, QInv, QTypeOK
  <2> QED BY <1>2, <2>1, <2>2 DEF PopStep
<1>3. ASSUME NEW t \in Threads, QCall(t) \/ SpuriousWakeup(t) PROVE NeverOverfull'
  BY <1>3 DEF QCall, PushCall, PopCall, SpuriousWakeup, QInv, QTypeOK
<1>4. ASSUME NEW n \in MaxSizes, SetMaxSize(n) PROVE NeverOverfull'
  BY <1>4 DEF SetMaxSize
<1>5. CASE UNCHANGED qvars
  BY <1>5 DEF qvars
<1> QED BY <1>1, <1>2, <1>3, <1>4, <1>5 DEF QNext, QStep

\* sharedqueue_impl.hpp:31-35: however many threads push and whenever the bound
\* is changed, the queue never outgrows the largest bound it was given.
THEOREM QueueNeverOverfull == QSpec => []NeverOverfull
<1>1. QInit => NeverOverfull
  BY CapacityFact DEF QInit, NeverOverfull
<1> QED BY <1>1, QueueInvariant, Overfull_Step, PTL DEF QSpec

-------------------------------------------------------------------------------
LEMMA WakeupEmpty_Step == QInv /\ NoLostWakeupEmpty /\ [QNext]_qvars => NoLostWakeupEmpty'
<1> SUFFICES ASSUME QInv, NoLostWakeupEmpty, [QNext]_qvars PROVE NoLostWakeupEmpty'
    OBVIOUS
<1> USE DEF QInv, Move, Acquire, NoLostWakeupEmpty, QTypeOK, Threads
<1>1. ASSUME NEW t \in Threads, PushStep(t) PROVE NoLostWakeupEmpty'
  BY <1>1, KindOfThread DEF PushStep, PushLock, PushWait, PushEnter, PushStore, PushNotify
<1>2. ASSUME NEW t \in Threads, PopStep(t) PROVE NoLostWakeupEmpty'
  BY <1>2, KindOfThread DEF PopStep, PopLock, PopWait, PopTake, PopNotify
<1>3. ASSUME NEW t \in Threads, QCall(t) \/ SpuriousWakeup(t) PROVE NoLostWakeupEmpty'
  BY <1>3 DEF QCall, PushCall, PopCall, SpuriousWakeup
<1>4. ASSUME NEW n \in MaxSizes, SetMaxSize(n) PROVE NoLostWakeupEmpty'
  BY <1>4 DEF SetMaxSize
<1>5. CASE UNCHANGED qvars
  BY <1>5 DEF qvars
<1> QED BY <1>1, <1>2, <1>3, <1>4, <1>5 DEF QNext, QStep

\* sharedqueue_impl.hpp:17,36-37: although Push notifies after it has released
\* the mutex, no Pop sleeps through an item without a notification being due.
THEOREM QueueNoLostWakeupEmpty == QSpec => []NoLostWakeupEmpty
<1>1. QInit => NoLostWakeupEmpty
  BY DEF QInit, NoLostWakeupEmpty
<1> QED BY <1>1, QueueInvariant, WakeupEmpty_Step, PTL DEF QSpec

LEMMA WakeupFull_Step ==
  ASSUME 0 \notin MaxSizes
  PROVE  QInv /\ NoLostWakeupFull /\ [QNext]_qvars => NoLostWakeupFull'
<1> SUFFICES ASSUME QInv, NoLostWakeupFull, [QNext]_qvars PROVE NoLostWakeupFull'
    OBVIOUS
<1>0. queue_ \in Seq(Items) /\ maxSize \in Nat /\ maxSize # 0
  BY CapacityFact DEF QInv, QTypeOK
<1> USE DEF QInv, Move, Acquire, NoLostWakeupFull, QTypeOK, Threads
<1>1. ASSUME NEW t \in Threads, PushStep(t) PROVE NoLostWakeupFull'
  <2>1. CASE PushWait(t)
    BY <1>0, <2>1, EmptyLength DEF PushWait
  <2>2. CASE PushStore(t)
    <3>1. item[t] \in Items
      BY <2>2, KindOfThread DEF PushStore, Carrying
    <3> QED BY <1>0, <2>2, <3>1, AppendLength DEF PushStore
  <2>3. CASE PushLock(t) \/ PushEnter(t) \/ PushNotify(t)
    BY <2>3, KindOfThread DEF PushLock, PushEnter, PushNotify
  <2> QED BY <1>1, <2>1, <2>2, <2>3 DEF PushStep
<1>2. ASSUME NEW t \in Threads, PopStep(t) PROVE NoLostWakeupFull'
  BY <1>2, KindOfThread DEF PopStep, PopLock, PopWait, PopTake, PopNotify
<1>3. ASSUME NEW t \in Threads, QCall(t) \/ SpuriousWakeup(t) PROVE NoLostWakeupFull'
  BY <1>3 DEF QCall, PushCall, PopCall, SpuriousWakeup
<1>4. ASSUME NEW n \in MaxSizes, SetMaxSize(n) PROVE NoLostWakeupFull'
  BY <1>4 DEF SetMaxSize
<1>5. CASE UNCHANGED qvars
  BY <1>5 DEF qvars
<1> QED BY <1>1, <1>2, <1>3, <1>4, <1>5 DEF QNext, QStep

\* sharedqueue_impl.hpp:22-23,33: as long as no bound is 0, no Push sleeps on
\* an empty queue without a notification being due, whatever is done to maxSize.
THEOREM QueueNoLostWakeupFull ==
  ASSUME 0 \notin MaxSizes PROVE QSpec => []NoLostWakeupFull
<1>1. QInit => NoLostWakeupFull
  BY DEF QInit, NoLostWakeupFull
<1>2. QInv /\ NoLostWakeupFull /\ [QNext]_qvars => NoLostWakeupFull'
  BY WakeupFull_Step
<1> QED BY <1>1, <1>2, QueueInvariant, PTL DEF QSpec

LEMMA NotFull_Step ==
  ASSUME NEW n, MaxSizes = {n}
  PROVE  QInv /\ NotFullIsNotified /\ [QNext]_qvars => NotFullIsNotified'
<1> SUFFICES ASSUME QInv, NotFullIsNotified, [QNext]_qvars PROVE NotFullIsNotified'
    OBVIOUS
<1>0. queue_ \in Seq(Items) /\ Len(queue_) \in Nat /\ maxSize \in Nat /\ maxSize = n
  BY CapacityFact, EmptyLength DEF QInv, QTypeOK
<1> USE DEF QInv, Move, Acquire, NotFullIsNotified, QTypeOK, Threads
<1>1. ASSUME NEW t \in Threads, PushStep(t) PROVE NotFullIsNotified'
  <2>1. CASE PushStore(t)
    <3>1. item[t] \in Items
      BY <2>1, KindOfThread DEF PushStore, Carrying
    <3>2. Len(queue_') = Len(queue_) + 1
      BY <1>0, <2>1, <3>1, AppendLength DEF PushStore
    <3> QED BY <1>0, <2>1, <3>2, KindOfThread DEF PushStore
  <2>2. CASE PushLock(t) \/ PushWait(t) \/ PushEnter(t) \/ PushNotify(t)
    BY <1>0, <2>2, KindOfThread DEF PushLock, PushWait, PushEnter, PushNotify
  <2> QED BY <1>1, <2>1, <2>2 DEF PushStep
<1>2. ASSUME NEW t \in Threads, PopStep(t) PROVE NotFullIsNotified'
  BY <1>2, KindOfThread DEF PopStep, PopLock, PopWait, PopTake, PopNotify
<1>3. ASSUME NEW t \in Threads, QCall(t) \/ SpuriousWakeup(t) PROVE NotFullIsNotified'
  BY <1>3 DEF QCall, PushCall, PopCall, SpuriousWakeup
<1>4. ASSUME NEW m \in MaxSizes, SetMaxSize(m) PROVE NotFullIsNotified'
  BY <1>0, <1>4 DEF SetMaxSize
<1>5. CASE UNCHANGED qvars
  BY <1>5 DEF qvars
<1> QED BY <1>1, <1>2, <1>3, <1>4, <1>5 DEF QNext, QStep

\* sharedqueue.hpp:52-53: with a bound that is never changed, whoever sleeps on
\* a queue that is not full is about to be notified.
THEOREM QueueNotFullIsNotified ==
  ASSUME NEW n, MaxSizes = {n} PROVE QSpec => []NotFullIsNotified
<1>1. QInit => NotFullIsNotified
  BY DEF QInit, NotFullIsNotified
<1>2. QInv /\ NotFullIsNotified /\ [QNext]_qvars => NotFullIsNotified'
  BY NotFull_Step
<1> QED BY <1>1, <1>2, QueueInvariant, PTL DEF QSpec

-------------------------------------------------------------------------------
CallMap == [t \in Threads |-> CallOf(t)]

\* Moving one thread along moves its abstract call, and nobody else's.
LEMMA CallMap_Move ==
  ASSUME QTypeOK, NEW t \in Threads, NEW to \in Places, qpc' = [qpc EXCEPT ![t] = to]
  PROVE  CallMap' = [CallMap EXCEPT ![t] =
           CASE to = "out" -> "idle"
             [] to \in {"push_lock", "push_test", "push_store"} -> "pushing"
             [] to = "push_notify" -> "pushed"
             [] to \in {"pop_lock", "pop_test"} -> "popping"
             [] to = "pop_notify" -> "popped"]
BY DEF CallMap, CallOf, QTypeOK, Places

LEMMA Fifo_Init == QInit => Fifo!Init
BY DEF QInit, Fifo!Init, CallOf

LEMMA Fifo_Step == QInv /\ NeverOverfull /\ [QNext]_qvars => [Fifo!Next]_(Fifo!fifoVars)
<1> SUFFICES ASSUME QInv, NeverOverfull, [QNext]_qvars
             PROVE  Fifo!Next \/ UNCHANGED <<queue_, CallMap, item>>
    BY DEF Fifo!fifoVars, CallMap
<1> USE DEF QInv, Move, Acquire
<1>1. ASSUME NEW t \in Threads, PushStep(t)
      PROVE  Fifo!Next \/ UNCHANGED <<queue_, CallMap, item>>
  <2>1. CASE PushStore(t)
    <3>1. CallMap' = [CallMap EXCEPT ![t] = "pushed"]
      BY <2>1, CallMap_Move DEF PushStore, Places
    <3>2. CallMap[t] = "pushing" /\ Len(queue_) < Capacity
      BY <2>1 DEF PushStore, CallMap, CallOf, NeverOverfull
    <3>3. Fifo!Put(t)
      BY <2>1, <3>1, <3>2 DEF PushStore, Fifo!Put, CallMap
    <3> QED BY <3>3 DEF Fifo!Next
  <2>2. CASE PushNotify(t)
    <3>1. CallMap' = [CallMap EXCEPT ![t] = "idle"]
      BY <2>2, CallMap_Move DEF PushNotify, Places
    <3>2. CallMap[t] = "pushed"
      BY <2>2 DEF PushNotify, CallMap, CallOf
    <3>3. Fifo!Return(t)
      BY <2>2, <3>1, <3>2 DEF PushNotify, Fifo!Return, CallMap
    <3> QED BY <3>3 DEF Fifo!Next
  <2>3. CASE PushLock(t) \/ PushWait(t) \/ PushEnter(t)
    <3>1. CallMap[t] = "pushing" /\ UNCHANGED <<queue_, item>>
      BY <2>3 DEF PushLock, PushWait, PushEnter, CallMap, CallOf
    <3>2. CallMap' = [CallMap EXCEPT ![t] = "pushing"]
      BY <2>3, CallMap_Move DEF PushLock, PushWait, PushEnter, Places
    <3> QED BY <3>1, <3>2 DEF CallMap
  <2> QED BY <1>1, <2>1, <2>2, <2>3 DEF PushStep
<1>2. ASSUME NEW t \in Threads, PopStep(t)
      PROVE  Fifo!Next \/ UNCHANGED <<queue_, CallMap, item>>
  <2>1. CASE PopTake(t)
    <3>1. CallMap' = [CallMap EXCEPT ![t] = "popped"]
      BY <2>1, CallMap_Move DEF PopTake, Places
    <3>2. CallMap[t] = "popping"
      BY <2>1 DEF PopTake, CallMap, CallOf
    <3>3. Fifo!Take(t)
      BY <2>1, <3>1, <3>2 DEF PopTake, Fifo!Take, CallMap
    <3> QED BY <3>3 DEF Fifo!Next
  <2>2. CASE PopNotify(t)
    <3>1. CallMap' = [CallMap EXCEPT ![t] = "idle"]
      BY <2>2, CallMap_Move DEF PopNotify, Places
    <3>2. CallMap[t] = "popped"
      BY <2>2 DEF PopNotify, CallMap, CallOf
    <3>3. Fifo!Return(t)
      BY <2>2, <3>1, <3>2 DEF PopNotify, Fifo!Return, CallMap
    <3> QED BY <3>3 DEF Fifo!Next
  <2>3. CASE PopLock(t) \/ PopWait(t)
    <3>1. CallMap[t] = "popping" /\ UNCHANGED <<queue_, item>>
      BY <2>3 DEF PopLock, PopWait, CallMap, CallOf
    <3>2. CallMap' = [CallMap EXCEPT ![t] = "popping"]
      BY <2>3, CallMap_Move DEF PopLock, PopWait, Places
    <3> QED BY <3>1, <3>2 DEF CallMap
  <2> QED BY <1>2, <2>1, <2>2, <2>3 DEF PopStep
<1>3. ASSUME NEW t \in Threads, QCall(t)
      PROVE  Fifo!Next \/ UNCHANGED <<queue_, CallMap, item>>
  <2>1. ASSUME NEW x \in Items, PushCall(t, x) PROVE Fifo!Next
    <3>1. CallMap' = [CallMap EXCEPT ![t] = "pushing"]
      BY <2>1, CallMap_Move DEF PushCall, Places
    <3>2. CallMap[t] = "idle"
      BY <2>1 DEF PushCall, CallMap, CallOf
    <3>3. Fifo!InvokePush(t, x)
      BY <2>1, <3>1, <3>2 DEF PushCall, Fifo!InvokePush, CallMap
    <3> QED BY <3>3 DEF Fifo!Next
  <2>2. ASSUME PopCall(t) PROVE Fifo!Next
    <3>1. CallMap' = [CallMap EXCEPT ![t] = "popping"]
      BY <2>2, CallMap_Move DEF PopCall, Places
    <3>2. CallMap[t] = "idle"
      BY <2>2 DEF PopCall, CallMap, CallOf
    <3>3. Fifo!InvokePop(t)
      BY <2>2, <3>1, <3>2 DEF PopCall, Fifo!InvokePop, CallMap
    <3> QED BY <3>3 DEF Fifo!Next
  <2> QED BY <1>3, <2>1, <2>2 DEF QCall
<1>4. ASSUME NEW t \in Threads, SpuriousWakeup(t) PROVE UNCHANGED <<queue_, CallMap, item>>
  BY <1>4 DEF SpuriousWakeup, CallMap, CallOf
<1>5. ASSUME NEW n \in MaxSizes, SetMaxSize(n) PROVE UNCHANGED <<queue_, CallMap, item>>
  BY <1>5 DEF SetMaxSize, CallMap, CallOf
<1>6. CASE UNCHANGED qvars
  BY <1>6 DEF qvars, CallMap, CallOf
<1> QED BY <1>1, <1>2, <1>3, <1>4, <1>5, <1>6 DEF QNext, QStep

\* SharedQueue implements the linearizable channel of BlockingFifo: Push takes
\* effect at queue_.push, Pop at queue_.pop.
THEOREM QueueIsFifo == QSpec => FifoSpec
<1> QED BY Fifo_Init, Fifo_Step, QueueInvariant, QueueNeverOverfull, PTL
        DEF QSpec, FifoSpec, Fifo!Spec

-------------------------------------------------------------------------------
(***************************************************************************)
(* FileWriter: the logging threads, the writer and the owner, whose calls  *)
(* of Push and Pop are steps of the queue.                                 *)
(***************************************************************************)

\* The writer is inside Pop exactly while WriteSummary waits for its result.
Wiring ==
  /\ wpc = "pop" <=> qpc[Writer] # "out"
  /\ wpc \in {"write", "flush"} \/ qpc[Writer] = "pop_notify" => item[Writer] \in Items
  /\ opc = "spawn" => wpc = "none"

\* Nothing is logged before the constructor has returned.
Construction ==
  /\ stream = "closed" <=> ~Constructed
  /\ ~Constructed =>
       /\ queue_ = <<>> /\ sent = <<>> /\ AllReturned
       /\ wpc \notin {"pop", "write", "flush"}

\* Pop is called for an item that is in the queue or about to be.
ItemReady ==
  /\ queueempty = {}
  /\ qpc[Writer] = "pop_test" => queue_ # <<>>
  /\ qpc[Writer] = "pop_lock" =>
       queue_ # <<>> \/ \E p \in Producers : qpc[p] = "push_store"

\* What close_ says about the owner, the writer and, in a program that joins
\* its logging threads first, about those.
Closing ==
  /\ close_ <=> opc \in {"spawn", "set_nexttime", "open", "live", "flush_join"}
  /\ wpc \in {"check_size", "exited"} => ~close_
  /\ opc \in {"joined", "raised", "destroyed"} => wpc = "exited"
  /\ JoinBeforeClose /\ ~close_ => AllReturned
  /\ JoinBeforeClose /\ wpc = "exited" => queue_ = <<>>

\* The file holds the first events pushed.
FilePrefix ==
  /\ Len(file) <= Len(sent)
  /\ \A i \in 1..Len(file) : file[i] = sent[i]

Spilled == torn = Fields => stream = "good" /\ wpc = "flush"

WInv == QInv /\ TypeOK /\ Wiring /\ Construction /\ ItemReady /\ Closing

FInv == WInv /\ Accounting /\ FilePrefix /\ Spilled

-------------------------------------------------------------------------------
LEMMA WriterFact ==
  /\ Writer \in Consumers /\ Writer \in Threads /\ Writer \notin Producers
  /\ \A p \in Producers : p \in Threads /\ p # Writer /\ p \notin Consumers
  /\ \A c \in Consumers : c = Writer
  /\ Writer # NoThread
BY QueueAssumption, WriterAssumption DEF Threads

LEMMA ItemsFact == MaxEvents \in Nat /\ Items = Producers \X (1..MaxEvents)
BY WriterAssumption

LEMMA WaitFact == MaxWait \in Nat
BY WriterAssumption

LEMMA SecondsFact == \A m \in FlushMilis : Seconds(m) \subseteq 0..MaxWait
BY WriterAssumption

\* A step of the writer's program is a step of the queue, or leaves it alone.
LEMMA Next_QNext == TypeOK /\ [Next]_vars => [QNext]_qvars
<1> SUFFICES ASSUME TypeOK, [Next]_vars PROVE [QNext]_qvars
    OBVIOUS
<1>1. CASE Owner
  BY <1>1 DEF Owner, SpawnThread, SetNexttime, OpenFile, CloseCall, FlushCall, Join,
     JoinAgain, Destroy, Set, QNext
<1>2. ASSUME NEW p \in Producers, CreateEvent(p) PROVE QNext
  <2>1. <<p, calls[p] + 1>> \in Items
    <3>1. calls[p] < MaxEvents /\ calls[p] \in 0..MaxEvents
      BY <1>2 DEF CreateEvent, TypeOK
    <3> QED BY <3>1, ItemsFact
  <2> QED BY <1>2, <2>1, WriterFact DEF CreateEvent, QNext, QCall
<1>3. ASSUME NEW p \in Producers, PushGoesOn(p) PROVE QNext
  BY <1>3, WriterFact DEF PushGoesOn, QNext, QStep
<1>4. CASE WriteSummary
  BY <1>4, WriterFact DEF WriteSummary, CheckClose, CheckSize, CheckTime, DrainPop, DrainEnd,
     PopGoesOn, WriteRecord, FlushRecord, QNext, QStep, QCall
<1>5. CASE Tick \/ Wakeup \/ ProcessExit
  BY <1>5 DEF Tick, Wakeup, ProcessExit, QNext
<1>6. CASE UNCHANGED vars
  BY <1>6 DEF vars
<1> QED BY <1>1, <1>2, <1>3, <1>4, <1>5, <1>6 DEF Next

LEMMA Init_WInv == Init => WInv
<1> SUFFICES ASSUME Init PROVE WInv
    OBVIOUS
<1>1. QInv
  BY QInit_Inv DEF Init
<1>2. TypeOK
  BY WriterAssumption DEF Init, TypeOK, OwnerPlaces, WriterPlaces, Fields
<1>3. Wiring /\ Construction /\ ItemReady /\ Closing
  BY WriterFact DEF Init, QInit, Wiring, Construction, Constructed, AllReturned, ItemReady, Closing
<1> QED BY <1>1, <1>2, <1>3 DEF WInv

LEMMA Next_TypeOK == WInv /\ [Next]_vars => TypeOK'
<1> SUFFICES ASSUME WInv, [Next]_vars PROVE TypeOK'
    OBVIOUS
<1> USE DEF TypeOK, OwnerPlaces, WriterPlaces, OwnerAt, WriterAt, ovars, dvars
<1>0. TypeOK
  BY DEF WInv
<1>1. CASE Owner
  <2>1. CASE SpawnThread \/ SetNexttime \/ OpenFile
    BY <1>0, <2>1, WaitFact DEF SpawnThread, SetNexttime, OpenFile
  <2>2. CASE CloseCall \/ FlushCall \/ Join
    BY <1>0, <2>2 DEF CloseCall, FlushCall, Join
  <2>3. CASE JoinAgain \/ Destroy
    BY <1>0, <2>3 DEF JoinAgain, Destroy
  <2>4. CASE Set
    BY <1>0, <2>4 DEF Set
  <2> QED BY <1>1, <2>1, <2>2, <2>3, <2>4 DEF Owner
<1>2. ASSUME NEW p \in Producers, CreateEvent(p) PROVE TypeOK'
  <2>1. calls' \in [Producers -> 0..MaxEvents]
    BY <1>0, <1>2, ItemsFact DEF CreateEvent
  <2> QED BY <1>0, <1>2, <2>1 DEF CreateEvent
<1>3. ASSUME NEW p \in Producers, PushGoesOn(p) PROVE TypeOK'
  <2>1. qpc[p] = "push_store" => item[p] \in Items
    BY DEF WInv, QInv, Carrying
  <2> QED BY <1>0, <1>3, <2>1 DEF PushGoesOn
<1>4. CASE WriteSummary
  <2>1. CASE CheckClose \/ CheckSize \/ CheckTime \/ DrainPop \/ PopGoesOn
    BY <1>0, <2>1 DEF CheckClose, CheckSize, CheckTime, DrainPop, PopGoesOn
  <2>2. CASE DrainEnd
    BY <1>0, <2>2, SecondsFact DEF DrainEnd
  <2>3. CASE WriteRecord
    BY <1>0, <2>3 DEF WriteRecord, Fields
  <2>4. CASE FlushRecord
    <3>1. item[Writer] \in Items
      BY <2>4 DEF FlushRecord, WInv, Wiring
    <3>2. stream' \in {"good", "bad", "closed"} /\ torn' \in 0..Fields
      BY <1>0, <2>4 DEF FlushRecord, Fields
    <3>3. file' \in Seq(Items)
      <4>1. file \in Seq(Items) /\ Append(file, item[Writer]) \in Seq(Items)
        BY <1>0, <3>1, AppendProperties
      <4>2. file' \in {file, Append(file, item[Writer])}
        BY <2>4 DEF FlushRecord
      <4> QED BY <4>1, <4>2
    <3> QED BY <1>0, <2>4, <3>2, <3>3 DEF FlushRecord
  <2> QED BY <1>4, <2>1, <2>2, <2>3, <2>4 DEF WriteSummary
<1>5. CASE Tick \/ Wakeup \/ ProcessExit
  <2>1. CASE Tick
    <3>1. nexttime' \in 0..MaxWait
      BY <1>0, <2>1, WaitFact DEF Tick
    <3> QED BY <1>0, <2>1, <3>1 DEF Tick
  <2>2. CASE Wakeup \/ ProcessExit
    BY <1>0, <2>2 DEF Wakeup, ProcessExit
  <2> QED BY <1>5, <2>1, <2>2
<1>6. CASE UNCHANGED vars
  BY <1>0, <1>6 DEF vars
<1> QED BY <1>1, <1>2, <1>3, <1>4, <1>5, <1>6 DEF Next

LEMMA Next_Wiring == WInv /\ [Next]_vars => Wiring'
<1> SUFFICES ASSUME WInv, [Next]_vars PROVE Wiring'
    OBVIOUS
<1>0. QTypeOK /\ Wiring /\ qpc \in [Threads -> Places] /\ item \in [Threads -> Items \cup {NoItem}]
  BY DEF WInv, QInv, QTypeOK
<1> USE WriterFact DEF Wiring, OwnerAt, WriterAt, Move, Acquire
<1>1. CASE Owner
  BY <1>0, <1>1 DEF Owner, SpawnThread, SetNexttime, OpenFile, CloseCall, FlushCall, Join,
     JoinAgain, Destroy, Set, SetMaxSize, qvars, ovars
<1>2. ASSUME NEW p \in Producers, CreateEvent(p) PROVE Wiring'
  BY <1>0, <1>2 DEF CreateEvent, PushCall, ovars
<1>3. ASSUME NEW p \in Producers, PushGoesOn(p) PROVE Wiring'
  BY <1>0, <1>3 DEF PushGoesOn, PushStep, PushLock, PushWait, PushEnter, PushStore,
     PushNotify, ovars
<1>4. CASE WriteSummary
  <2>1. CASE CheckClose \/ CheckSize \/ CheckTime \/ DrainEnd \/ WriteRecord \/ FlushRecord
    BY <1>0, <2>1 DEF CheckClose, CheckSize, CheckTime, DrainEnd, WriteRecord, FlushRecord,
       qvars, ovars
  <2>2. CASE DrainPop
    BY <1>0, <2>2 DEF DrainPop, PopCall, ovars
  <2>3. CASE PopGoesOn
    <3>1. CASE PopTake(Writer)
      <4>1. Head(queue_) \in Items
        BY <1>0, <3>1, HeadTailProperties DEF PopTake, QTypeOK
      <4> QED BY <1>0, <2>3, <3>1, <4>1 DEF PopGoesOn, PopTake, ovars
    <3>2. CASE PopLock(Writer) \/ PopWait(Writer) \/ PopNotify(Writer)
      BY <1>0, <2>3, <3>2 DEF PopGoesOn, PopLock, PopWait, PopNotify, ovars
    <3> QED BY <2>3, <3>1, <3>2 DEF PopGoesOn, PopStep
  <2> QED BY <1>4, <2>1, <2>2, <2>3 DEF WriteSummary
<1>5. CASE Tick \/ Wakeup \/ ProcessExit
  BY <1>0, <1>5 DEF Tick, Wakeup, SpuriousWakeup, ProcessExit, qvars, ovars
<1>6. CASE UNCHANGED vars
  BY <1>0, <1>6 DEF vars, qvars, ovars
<1> QED BY <1>1, <1>2, <1>3, <1>4, <1>5, <1>6 DEF Next

LEMMA Next_Construction == WInv /\ [Next]_vars => Construction'
<1> SUFFICES ASSUME WInv, [Next]_vars PROVE Construction'
    OBVIOUS
<1>0. Wiring /\ Construction /\ qpc \in [Threads -> Places]
  BY DEF WInv, QInv, QTypeOK
<1> USE WriterFact DEF Construction, Constructed, AllReturned, OwnerAt, WriterAt, Move, Acquire
<1>1. CASE Owner
  <2>1. CASE SpawnThread \/ SetNexttime \/ OpenFile
    BY <1>0, <2>1 DEF SpawnThread, SetNexttime, OpenFile, qvars, dvars
  <2>2. CASE CloseCall \/ FlushCall \/ Join \/ JoinAgain \/ Destroy
    BY <1>0, <2>2 DEF CloseCall, FlushCall, Join, JoinAgain, Destroy, qvars, dvars
  <2>3. CASE Set
    BY <1>0, <2>3 DEF Set, SetMaxSize, qvars, dvars
  <2> QED BY <1>1, <2>1, <2>2, <2>3 DEF Owner
<1>2. ASSUME NEW p \in Producers, CreateEvent(p) PROVE Construction'
  BY <1>0, <1>2 DEF CreateEvent, ovars, dvars
<1>3. ASSUME NEW p \in Producers, PushGoesOn(p) PROVE Construction'
  <2>1. qpc[p] # "out"
    BY <1>3 DEF PushGoesOn, PushStep, PushLock, PushWait, PushEnter, PushStore, PushNotify
  <2> QED BY <1>0, <1>3, <2>1 DEF PushGoesOn, ovars, dvars
<1>4. CASE WriteSummary
  <2>1. CASE CheckClose \/ CheckSize \/ CheckTime \/ DrainEnd
    BY <1>0, <2>1 DEF CheckClose, CheckSize, CheckTime, DrainEnd, qvars, ovars, dvars
  <2>2. CASE DrainPop
    <3>1. Constructed
      BY <1>0, <2>2 DEF DrainPop, SizeIsZero, Threads
    <3> QED BY <1>0, <2>2, <3>1 DEF DrainPop, ovars, dvars
  <2>3. CASE PopGoesOn
    BY <1>0, <2>3 DEF PopGoesOn, ovars, dvars
  <2>4. CASE WriteRecord \/ FlushRecord
    BY <1>0, <2>4 DEF WriteRecord, FlushRecord, ovars, dvars
  <2> QED BY <1>4, <2>1, <2>2, <2>3, <2>4 DEF WriteSummary
<1>5. CASE Tick \/ Wakeup \/ ProcessExit
  BY <1>0, <1>5 DEF Tick, Wakeup, SpuriousWakeup, ProcessExit, qvars, ovars, dvars
<1>6. CASE UNCHANGED vars
  BY <1>0, <1>6 DEF vars, qvars, ovars, dvars
<1> QED BY <1>1, <1>2, <1>3, <1>4, <1>5, <1>6 DEF Next

LEMMA Next_ItemReady == WInv /\ [Next]_vars => ItemReady'
<1> SUFFICES ASSUME WInv, [Next]_vars PROVE ItemReady'
    OBVIOUS
<1>0. Wiring /\ ItemReady /\ qpc \in [Threads -> Places] /\ queue_ \in Seq(Items) /\ LockProtocol
      /\ Carrying
  BY DEF WInv, QInv, QTypeOK
<1> USE WriterFact DEF ItemReady, OwnerAt, WriterAt, Move, Acquire
<1>1. CASE Owner
  BY <1>0, <1>1 DEF Owner, SpawnThread, SetNexttime, OpenFile, CloseCall, FlushCall, Join,
     JoinAgain, Destroy, Set, SetMaxSize, qvars
<1>2. ASSUME NEW p \in Producers, CreateEvent(p) PROVE ItemReady'
  BY <1>0, <1>2 DEF CreateEvent, PushCall
<1>3. ASSUME NEW p \in Producers, PushGoesOn(p) PROVE ItemReady'
  <2>1. CASE PushStore(p)
    <3>1. item[p] \in Items
      BY <1>0, <2>1 DEF PushStore, Carrying
    <3>2. queue_' # <<>>
      BY <1>0, <2>1, <3>1, AppendLength DEF PushStore
    <3> QED BY <1>0, <2>1, <3>2 DEF PushStore
  <2>2. CASE PushLock(p) \/ PushWait(p) \/ PushEnter(p) \/ PushNotify(p)
    BY <1>0, <2>2 DEF PushLock, PushWait, PushEnter, PushNotify
  <2> QED BY <1>3, <2>1, <2>2 DEF PushGoesOn, PushStep
<1>4. CASE WriteSummary
  <2>1. CASE CheckClose \/ CheckSize \/ CheckTime \/ DrainEnd \/ WriteRecord \/ FlushRecord
    BY <1>0, <2>1 DEF CheckClose, CheckSize, CheckTime, DrainEnd, WriteRecord, FlushRecord, qvars
  <2>2. CASE DrainPop
    <3>1. queue_ # <<>> \/ \E q \in Threads \ {Writer} : qpc[q] = "push_store"
      BY <2>2 DEF DrainPop, SizeIsZero
    <3>2. queue_ # <<>> \/ \E q \in Producers : qpc[q] = "push_store"
      BY <3>1 DEF Threads
    <3> QED BY <1>0, <2>2, <3>2 DEF DrainPop, PopCall
  <2>3. CASE PopGoesOn
    <3>1. CASE PopLock(Writer)
      <4>1. \A q \in Producers : qpc[q] # "push_store"
        BY <1>0, <3>1, QueueAssumption DEF PopLock, LockProtocol, InCriticalSection
      <4> QED BY <1>0, <3>1, <4>1 DEF PopLock
    <3>2. CASE PopWait(Writer) \/ PopTake(Writer) \/ PopNotify(Writer)
      BY <1>0, <3>2 DEF PopWait, PopTake, PopNotify
    <3> QED BY <2>3, <3>1, <3>2 DEF PopGoesOn, PopStep
  <2> QED BY <1>4, <2>1, <2>2, <2>3 DEF WriteSummary
<1>5. CASE Tick \/ Wakeup \/ ProcessExit
  BY <1>0, <1>5 DEF Tick, Wakeup, SpuriousWakeup, ProcessExit, qvars
<1>6. CASE UNCHANGED vars
  BY <1>0, <1>6 DEF vars, qvars
<1> QED BY <1>1, <1>2, <1>3, <1>4, <1>5, <1>6 DEF Next

LEMMA Next_Closing == WInv /\ [Next]_vars => Closing'
<1> SUFFICES ASSUME WInv, [Next]_vars PROVE Closing'
    OBVIOUS
<1>0. Wiring /\ Closing /\ qpc \in [Threads -> Places] /\ close_ \in BOOLEAN
  BY DEF WInv, QInv, QTypeOK, TypeOK
<1> USE WriterFact DEF Closing, Constructed, AllReturned, OwnerAt, WriterAt, Move, Acquire
<1>1. CASE Owner
  <2>1. CASE SpawnThread \/ SetNexttime \/ OpenFile \/ FlushCall
    BY <1>0, <2>1 DEF SpawnThread, SetNexttime, OpenFile, FlushCall, Wiring, qvars
  <2>2. CASE CloseCall
    BY <1>0, <2>2 DEF CloseCall, qvars
  <2>3. CASE Join
    BY <1>0, <2>3 DEF Join, qvars
  <2>4. CASE JoinAgain
    <3>1. close_ = FALSE
      BY <1>0, <2>4 DEF JoinAgain
    <3>2. close_' = FALSE
      BY <2>4, <3>1 DEF JoinAgain
    <3> QED BY <1>0, <2>4, <3>1, <3>2 DEF JoinAgain, qvars
  <2>5. CASE Destroy
    BY <1>0, <2>5 DEF Destroy, qvars
  <2>6. CASE Set
    BY <1>0, <2>6 DEF Set, SetMaxSize, qvars
  <2> QED BY <1>1, <2>1, <2>2, <2>3, <2>4, <2>5, <2>6 DEF Owner
<1>2. ASSUME NEW p \in Producers, CreateEvent(p) PROVE Closing'
  BY <1>0, <1>2 DEF CreateEvent, PushCall, ovars
<1>3. ASSUME NEW p \in Producers, PushGoesOn(p) PROVE Closing'
  <2>1. qpc[p] # "out"
    BY <1>3 DEF PushGoesOn, PushStep, PushLock, PushWait, PushEnter, PushStore, PushNotify
  <2> QED BY <1>0, <1>3, <2>1 DEF PushGoesOn, ovars
<1>4. CASE WriteSummary
  <2>1. CASE CheckClose
    <3>1. close_' = close_ /\ (wpc' = "check_size" => ~close_) /\ wpc' # "exited"
          /\ wpc # "exited" /\ UNCHANGED <<opc, qpc>>
      BY <2>1 DEF CheckClose, qvars, ovars
    <3> QED BY <1>0, <3>1
  <2>5. CASE CheckTime \/ DrainEnd \/ WriteRecord \/ FlushRecord
    <3>1. close_' = close_ /\ wpc' \notin {"check_size", "exited"} /\ wpc # "exited"
          /\ UNCHANGED <<opc, qpc>>
      BY <2>5 DEF CheckTime, DrainEnd, WriteRecord, FlushRecord, qvars, ovars
    <3> QED BY <1>0, <3>1
  <2>2. CASE CheckSize
    <3>1. JoinBeforeClose /\ wpc' = "exited" => queue_ = <<>>
      BY <1>0, <2>2 DEF CheckSize, SizeIsZero, Threads
    <3> QED BY <1>0, <2>2, <3>1 DEF CheckSize, qvars, ovars
  <2>3. CASE DrainPop
    BY <1>0, <2>3 DEF DrainPop, PopCall, ovars
  <2>4. CASE PopGoesOn
    <3>1. \A p \in Producers : qpc'[p] = qpc[p]
      BY <1>0, <2>4 DEF PopGoesOn, PopStep, PopLock, PopWait, PopTake, PopNotify
    <3>2. close_' = close_ /\ opc' = opc /\ wpc = "pop" /\ wpc' \in {"pop", "write"}
      BY <2>4 DEF PopGoesOn, ovars
    <3> QED BY <1>0, <3>1, <3>2
  <2> QED BY <1>4, <2>1, <2>2, <2>3, <2>4, <2>5 DEF WriteSummary
<1>5. CASE Tick \/ Wakeup \/ ProcessExit
  BY <1>0, <1>5 DEF Tick, Wakeup, SpuriousWakeup, ProcessExit, qvars, ovars
<1>6. CASE UNCHANGED vars
  BY <1>0, <1>6 DEF vars, qvars, ovars
<1> QED BY <1>1, <1>2, <1>3, <1>4, <1>5, <1>6 DEF Next

LEMMA Next_WInv == WInv /\ [Next]_vars => WInv'
<1> SUFFICES ASSUME WInv, [Next]_vars PROVE WInv'
    OBVIOUS
<1>1. QInv'
  BY Next_QNext, QNext_Inv DEF WInv
<1> QED BY <1>1, Next_TypeOK, Next_Wiring, Next_Construction, Next_ItemReady, Next_Closing
        DEF WInv

LEMMA WriterInvariant == Spec => []WInv
BY Init_WInv, Next_WInv, PTL DEF Spec

-------------------------------------------------------------------------------
\* The threads of a FileWriter use the queue by its calls only: what is proved
\* of every behaviour of SharedQueue holds inside a FileWriter.
THEOREM WriterUsesQueue == Spec => QSpec
<1>1. Init => QInit
  BY DEF Init
<1>2. WInv /\ [Next]_vars => [QNext]_qvars
  BY Next_QNext DEF WInv
<1> QED BY <1>1, <1>2, WriterInvariant, PTL DEF Spec, QSpec

\* Every behaviour of a FileWriter is type correct; in particular what is
\* written to the file is always an event.
THEOREM WriterTypeOK == Spec => []TypeOK
BY WriterInvariant, PTL DEF WInv

\* filewriter_impl.hpp:50-52: although Size() is read without the mutex while
\* other threads push, the Pop that follows never waits.
THEOREM WriterPopNeverWaits == Spec => []PopNeverWaits
<1>1. WInv => PopNeverWaits
  BY DEF WInv, ItemReady, PopNeverWaits
<1> QED BY <1>1, WriterInvariant, PTL

\* filewriter_impl.hpp:32-35: although the thread runs before outfile is
\* opened, no event is taken from the queue before that.
THEOREM WriterNoWriteBeforeOpen == Spec => []NoWriteBeforeOpen
<1>1. WInv => NoWriteBeforeOpen
  BY DEF WInv, Construction, NoWriteBeforeOpen
<1> QED BY <1>1, WriterInvariant, PTL

-------------------------------------------------------------------------------
\* Sequences of items: what the bookkeeping of the file needs to know.
LEMMA AppendToRest ==
  ASSUME NEW f \in Seq(Items), NEW h \in Seq(Items), NEW q \in Seq(Items), NEW x \in Items
  PROVE  Append(f \o h \o q, x) = f \o h \o Append(q, x)
<1>1. f \o h \in Seq(Items) /\ f \o h \o q \in Seq(Items)
  BY ConcatProperties
<1>2. Append(f \o h \o q, x) = (f \o h \o q) \o <<x>>
  BY <1>1, AppendIsConcat
<1>3. Append(q, x) = q \o <<x>> /\ <<x>> \in Seq(Items)
  BY AppendIsConcat
<1>4. ((f \o h) \o q) \o <<x>> = (f \o h) \o (q \o <<x>>)
  BY <1>1, <1>3, ConcatAssociative
<1> QED BY <1>2, <1>3, <1>4

LEMMA TakeInHand ==
  ASSUME NEW f \in Seq(Items), NEW q \in Seq(Items), q # <<>>
  PROVE  f \o <<>> \o q = f \o <<Head(q)>> \o Tail(q)
<1>1. Head(q) \in Items /\ Tail(q) \in Seq(Items) /\ <<Head(q)>> \in Seq(Items)
  BY HeadTailProperties
<1>2. q = <<Head(q)>> \o Tail(q)
  <2>1. <<Head(q)>> \o Tail(q) \in Seq(Items)
    BY <1>1, ConcatProperties
  <2>2. Len(<<Head(q)>> \o Tail(q)) = Len(q)
    BY <1>1, HeadTailProperties, ConcatProperties, LenProperties
  <2>3. ASSUME NEW i \in 1..Len(q) PROVE (<<Head(q)>> \o Tail(q))[i] = q[i]
    <3>1. Len(<<Head(q)>>) = 1 /\ <<Head(q)>>[1] = q[1]
      OBVIOUS
    <3>2. Len(Tail(q)) = Len(q) - 1 /\ Len(q) \in Nat
          /\ \A j \in 1..Len(Tail(q)) : Tail(q)[j] = q[j + 1]
      BY HeadTailProperties, LenProperties
    <3>3. (<<Head(q)>> \o Tail(q))[i] = IF i <= 1 THEN <<Head(q)>>[i] ELSE Tail(q)[i - 1]
      BY <1>1, <3>1, <3>2, ConcatProperties
    <3>4. CASE i = 1
      BY <3>1, <3>3, <3>4
    <3>5. CASE i > 1
      <4>1. i - 1 \in 1..Len(Tail(q)) /\ (i - 1) + 1 = i
        BY <3>2, <3>5
      <4> QED BY <3>2, <3>3, <3>5, <4>1
    <3> QED BY <3>4, <3>5
  <2> QED BY <2>1, <2>2, <2>3, SeqEqual
<1>3. f \o <<>> = f
  BY ConcatEmptySeq
<1>4. f \o (<<Head(q)>> \o Tail(q)) = (f \o <<Head(q)>>) \o Tail(q)
  BY <1>1, ConcatAssociative
<1> QED BY <1>2, <1>3, <1>4

LEMMA PutInFile ==
  ASSUME NEW f \in Seq(Items), NEW q \in Seq(Items), NEW x \in Items
  PROVE  /\ f \o <<x>> \o q = Append(f, x) \o <<>> \o q
         /\ Len(f \o <<x>> \o q) >= Len(f) + 1
         /\ (f \o <<x>> \o q)[Len(f) + 1] = x
         /\ \A i \in 1..Len(f) : (f \o <<x>> \o q)[i] = f[i]
<1>1. Append(f, x) = f \o <<x>> /\ Append(f, x) \in Seq(Items)
  BY AppendIsConcat, AppendProperties
<1>2. Append(f, x) \o <<>> = Append(f, x)
  BY <1>1, ConcatEmptySeq
<1>3. /\ Len(Append(f, x)) = Len(f) + 1 /\ Append(f, x)[Len(f) + 1] = x
      /\ \A i \in 1..Len(f) : Append(f, x)[i] = f[i]
      /\ Len(f) \in Nat /\ Len(q) \in Nat
  BY AppendProperties, LenProperties
<1>4. /\ Len(Append(f, x) \o q) = Len(f) + 1 + Len(q)
      /\ \A i \in 1..(Len(f) + 1) : (Append(f, x) \o q)[i] = Append(f, x)[i]
  BY <1>1, <1>3, ConcatProperties
<1> QED BY <1>1, <1>2, <1>3, <1>4

-------------------------------------------------------------------------------
LEMMA Init_FInv == Init => FInv
<1> SUFFICES ASSUME Init PROVE FInv
    OBVIOUS
<1>1. Accounting
  BY WriterFact, ConcatEmptySeq, EmptySeq DEF Init, QInit, Accounting, Hand
<1>2. FilePrefix /\ Spilled
  BY DEF Init, FilePrefix, Spilled, Fields
<1> QED BY <1>1, <1>2, Init_WInv DEF FInv

\* Who changes what: pushing changes queue_ and sent together, Pop moves an
\* item from the queue into WriteSummary's hands, FlushRecord from there to the
\* file, and no other step changes any of them.
LEMMA ContentsSteps ==
  ASSUME FInv, [Next]_vars
  PROVE  \/ /\ UNCHANGED <<queue_, sent, file, Hand>>
            /\ stream = "bad" => stream' = "bad"
         \/ /\ \E x \in Items : queue_' = Append(queue_, x) /\ sent' = Append(sent, x)
            /\ UNCHANGED <<file, stream, Hand>>
         \/ /\ queue_ # <<>> /\ queue_' = Tail(queue_)
            /\ Hand = <<>> /\ Hand' = <<Head(queue_)>>
            /\ UNCHANGED <<file, stream, sent>>
         \/ /\ Hand = <<item[Writer]>> /\ Hand' = <<>> /\ item[Writer] \in Items
            /\ \/ stream = "good" /\ stream' = "good" /\ file' = Append(file, item[Writer])
               \/ stream' = "bad" /\ file' = file
            /\ UNCHANGED <<queue_, sent>>
<1> DEFINE Other == /\ UNCHANGED <<queue_, sent, file, Hand>>
                    /\ stream = "bad" => stream' = "bad"
<1>0. WInv /\ Wiring /\ QTypeOK /\ ItemReady /\ Construction
  BY DEF FInv, WInv, QInv
<1> USE WriterFact DEF OwnerAt, WriterAt, Move, Acquire
<1>1. CASE Owner
  <2>1. CASE SpawnThread
    BY <1>0, <2>1 DEF SpawnThread, qvars, dvars, Hand, Wiring
  <2>2. CASE OpenFile
    BY <1>0, <2>2 DEF OpenFile, qvars, dvars, Hand, Construction, Constructed
  <2>3. CASE SetNexttime \/ CloseCall \/ FlushCall \/ Join \/ JoinAgain \/ Destroy
    BY <2>3 DEF SetNexttime, CloseCall, FlushCall, Join, JoinAgain, Destroy, qvars, dvars, Hand
  <2>4. CASE Set
    BY <2>4 DEF Set, SetMaxSize, qvars, dvars, Hand
  <2> QED BY <1>1, <2>1, <2>2, <2>3, <2>4 DEF Owner
<1>2. ASSUME NEW p \in Producers, CreateEvent(p) PROVE Other
  BY <1>0, <1>2 DEF CreateEvent, PushCall, QTypeOK, dvars, Hand
<1>3. ASSUME NEW p \in Producers, PushGoesOn(p)
      PROVE  \/ Other
             \/ /\ \E x \in Items : queue_' = Append(queue_, x) /\ sent' = Append(sent, x)
                /\ UNCHANGED <<file, stream, Hand>>
  <2>0. qpc'[Writer] = qpc[Writer] /\ item' = item /\ UNCHANGED <<file, stream, wpc>>
    BY <1>0, <1>3 DEF PushGoesOn, PushStep, PushLock, PushWait, PushEnter, PushStore, PushNotify,
       QTypeOK, dvars
  <2>1. UNCHANGED <<file, stream, Hand>>
    BY <2>0 DEF Hand
  <2>2. CASE PushStore(p)
    <3>1. item[p] \in Items
      BY <1>0, <2>2 DEF WInv, QInv, PushStore, Carrying
    <3> QED BY <1>3, <2>1, <2>2, <3>1 DEF PushGoesOn, PushStore
  <2>3. CASE PushLock(p) \/ PushWait(p) \/ PushEnter(p) \/ PushNotify(p)
    BY <1>3, <2>1, <2>3 DEF PushGoesOn, PushLock, PushWait, PushEnter, PushNotify
  <2> QED BY <1>3, <2>2, <2>3 DEF PushGoesOn, PushStep
<1>4. CASE WriteSummary
  <2>1. CASE CheckClose \/ CheckSize \/ CheckTime \/ DrainEnd
    BY <1>0, <2>1 DEF CheckClose, CheckSize, CheckTime, DrainEnd, qvars, dvars, Hand
  <2>2. CASE DrainPop
    BY <1>0, <2>2 DEF DrainPop, PopCall, dvars, Hand, QTypeOK, Wiring
  <2>3. CASE WriteRecord
    BY <1>0, <2>3 DEF WriteRecord, qvars, Hand
  <2>4. CASE FlushRecord
    <3>1. Hand = <<item[Writer]>> /\ item[Writer] \in Items
      BY <1>0, <2>4 DEF FlushRecord, Hand, Wiring
    <3>2. Hand' = <<>> /\ UNCHANGED <<queue_, sent>>
      BY <1>0, <2>4 DEF FlushRecord, Hand, Wiring, qvars
    <3>3. stream # "closed"
      BY <1>0, <2>4 DEF FlushRecord, Construction
    <3>4. stream \in {"good", "bad", "closed"}
      BY <1>0 DEF WInv, TypeOK
    <3>5. \/ stream = "good" /\ stream' = "good" /\ file' = Append(file, item[Writer])
          \/ stream' = "bad" /\ file' = file
      BY <2>4, <3>3, <3>4 DEF FlushRecord, dvars
    <3> QED BY <3>1, <3>2, <3>5
  <2>5. CASE PopGoesOn
    <3>1. CASE PopTake(Writer)
      BY <1>0, <2>5, <3>1 DEF PopGoesOn, PopTake, dvars, Hand, QTypeOK
    <3>2. CASE PopLock(Writer) \/ PopWait(Writer)
      BY <1>0, <2>5, <3>2 DEF PopGoesOn, PopLock, PopWait, dvars, Hand, QTypeOK
    <3>3. CASE PopNotify(Writer)
      BY <1>0, <2>5, <3>3 DEF PopGoesOn, PopNotify, dvars, Hand, QTypeOK
    <3> QED BY <2>5, <3>1, <3>2, <3>3 DEF PopGoesOn, PopStep
  <2> QED BY <1>4, <2>1, <2>2, <2>3, <2>4, <2>5 DEF WriteSummary
<1>5. CASE Tick \/ Wakeup \/ ProcessExit
  BY <1>5 DEF Tick, Wakeup, SpuriousWakeup, ProcessExit, qvars, ovars, dvars, Hand
<1>6. CASE UNCHANGED vars
  BY <1>6 DEF vars, qvars, dvars, Hand
<1> QED BY <1>1, <1>2, <1>3, <1>4, <1>5, <1>6 DEF Next

LEMMA Next_Accounting == FInv /\ [Next]_vars => Accounting'
<1> SUFFICES ASSUME FInv, [Next]_vars, stream' # "bad"
             PROVE  sent' = file' \o Hand' \o queue_'
    BY DEF Accounting
<1>1. /\ queue_ \in Seq(Items) /\ file \in Seq(Items)
      /\ stream # "bad" => sent = file \o Hand \o queue_
  BY DEF FInv, WInv, QInv, QTypeOK, TypeOK, Accounting
<1>2. Hand \in Seq(Items)
  BY EmptySeq DEF FInv, WInv, Wiring, Hand
<1>3. CASE UNCHANGED <<queue_, sent, file, Hand>> /\ (stream = "bad" => stream' = "bad")
  BY <1>1, <1>3
<1>4. ASSUME NEW x \in Items, queue_' = Append(queue_, x), sent' = Append(sent, x),
             UNCHANGED <<file, stream, Hand>>
      PROVE  sent' = file' \o Hand' \o queue_'
  <2>1. sent = file \o Hand \o queue_
    BY <1>1, <1>4
  <2>2. Append(file \o Hand \o queue_, x) = file \o Hand \o Append(queue_, x)
    BY <1>1, <1>2, AppendToRest
  <2> QED BY <1>4, <2>1, <2>2
<1>5. CASE /\ queue_ # <<>> /\ queue_' = Tail(queue_)
           /\ Hand = <<>> /\ Hand' = <<Head(queue_)>> /\ UNCHANGED <<file, stream, sent>>
  BY <1>1, <1>5, TakeInHand
<1>6. CASE /\ Hand = <<item[Writer]>> /\ Hand' = <<>> /\ item[Writer] \in Items
           /\ stream = "good" /\ stream' = "good" /\ file' = Append(file, item[Writer])
           /\ UNCHANGED <<queue_, sent>>
  BY <1>1, <1>6, PutInFile
<1> QED BY <1>3, <1>4, <1>5, <1>6, ContentsSteps

LEMMA Next_FilePrefix == FInv /\ [Next]_vars => FilePrefix'
<1> SUFFICES ASSUME FInv, [Next]_vars PROVE FilePrefix'
    OBVIOUS
<1>0. /\ queue_ \in Seq(Items) /\ file \in Seq(Items) /\ sent \in Seq(Items)
      /\ stream # "bad" => sent = file \o Hand \o queue_
      /\ FilePrefix
  BY DEF FInv, WInv, QInv, QTypeOK, TypeOK, Accounting
<1>1. Len(file) \in Nat /\ Len(sent) \in Nat
  BY <1>0, LenProperties
<1>2. CASE UNCHANGED <<sent, file>>
  BY <1>0, <1>2 DEF FilePrefix
<1>3. ASSUME NEW x \in Items, sent' = Append(sent, x), UNCHANGED file
      PROVE  FilePrefix'
  <2>1. Len(sent') = Len(sent) + 1 /\ \A i \in 1..Len(sent) : sent'[i] = sent[i]
    BY <1>0, <1>3, AppendProperties
  <2> QED BY <1>0, <1>1, <1>3, <2>1 DEF FilePrefix
<1>4. CASE /\ Hand = <<item[Writer]>> /\ item[Writer] \in Items
           /\ stream = "good" /\ file' = Append(file, item[Writer]) /\ UNCHANGED sent
  <2>1. sent = file \o <<item[Writer]>> \o queue_
    BY <1>0, <1>4
  <2>2. /\ Len(sent) >= Len(file) + 1 /\ sent[Len(file) + 1] = item[Writer]
        /\ \A i \in 1..Len(file) : sent[i] = file[i]
    BY <1>0, <1>4, <2>1, PutInFile
  <2>3. /\ Len(file') = Len(file) + 1 /\ file'[Len(file) + 1] = item[Writer]
        /\ \A i \in 1..Len(file) : file'[i] = file[i]
    BY <1>0, <1>4, AppendProperties
  <2>4. \A i \in 1..(Len(file) + 1) : file'[i] = sent[i]
    BY <1>1, <2>2, <2>3
  <2> QED BY <1>1, <1>4, <2>2, <2>3, <2>4 DEF FilePrefix
<1> QED BY <1>2, <1>3, <1>4, ContentsSteps

LEMMA Next_Spilled == FInv /\ [Next]_vars => Spilled'
<1> SUFFICES ASSUME FInv, [Next]_vars PROVE Spilled'
    OBVIOUS
<1>0. Spilled /\ Construction /\ Wiring /\ torn \in 0..Fields
  BY DEF FInv, WInv, TypeOK
<1> USE DEF Spilled, Fields, OwnerAt, WriterAt, dvars
<1>1. CASE Owner
  <2>1. CASE OpenFile
    BY <1>0, <2>1 DEF OpenFile, Construction, Constructed
  <2>2. CASE SpawnThread
    BY <1>0, <2>2 DEF SpawnThread, Wiring
  <2>3. CASE SetNexttime \/ CloseCall \/ FlushCall \/ Join \/ JoinAgain \/ Destroy \/ Set
    BY <1>0, <2>3 DEF SetNexttime, CloseCall, FlushCall, Join, JoinAgain, Destroy, Set
  <2> QED BY <1>1, <2>1, <2>2, <2>3 DEF Owner
<1>2. ASSUME NEW p \in Producers, CreateEvent(p) \/ PushGoesOn(p) PROVE Spilled'
  BY <1>0, <1>2 DEF CreateEvent, PushGoesOn
<1>3. CASE WriteSummary
  <2>1. CASE CheckClose \/ CheckSize \/ CheckTime \/ DrainPop \/ DrainEnd \/ PopGoesOn
    BY <1>0, <2>1 DEF CheckClose, CheckSize, CheckTime, DrainPop, DrainEnd, PopGoesOn
  <2>2. CASE WriteRecord
    BY <1>0, <2>2 DEF WriteRecord
  <2>3. CASE FlushRecord
    BY <1>0, <2>3 DEF FlushRecord
  <2> QED BY <1>3, <2>1, <2>2, <2>3 DEF WriteSummary
<1>4. CASE Tick \/ Wakeup \/ ProcessExit
  BY <1>0, <1>4 DEF Tick, Wakeup, ProcessExit
<1>5. CASE UNCHANGED vars
  BY <1>0, <1>5 DEF vars
<1> QED BY <1>1, <1>2, <1>3, <1>4, <1>5 DEF Next

LEMMA FileInvariant == Spec => []FInv
<1>1. FInv /\ [Next]_vars => FInv'
  BY Next_WInv, Next_Accounting, Next_FilePrefix, Next_Spilled DEF FInv
<1> QED BY <1>1, Init_FInv, PTL DEF Spec

\* Until writing fails, every event pushed is in exactly one of the file, the
\* writer's hands and the queue, in the order of the pushes.
THEOREM WriterAccounting == Spec => []Accounting
BY FileInvariant, PTL DEF FInv

\* Once Close or the destructor is through, every event of a program that
\* joined its logging threads is in the file, unless writing failed.
THEOREM WriterCloseDrains == Spec => []CloseDrains
<1>1. FInv => CloseDrains
  <2> SUFFICES ASSUME FInv, JoinBeforeClose, opc \in {"joined", "raised", "destroyed"}
               PROVE  wpc = "exited" /\ queue_ = <<>> /\ (stream = "good" => file = sent)
      BY DEF CloseDrains
  <2>1. wpc = "exited" /\ queue_ = <<>>
    BY DEF FInv, WInv, Closing
  <2>2. Hand = <<>>
    BY <2>1, WriterFact DEF FInv, WInv, Wiring, Hand
  <2>3. stream = "good" => sent = file \o <<>> \o <<>>
    BY <2>1, <2>2 DEF FInv, Accounting
  <2>4. file \o <<>> \o <<>> = file
    BY ConcatEmptySeq DEF FInv, WInv, TypeOK
  <2> QED BY <2>1, <2>3, <2>4
<1> QED BY <1>1, FileInvariant, PTL

-------------------------------------------------------------------------------
LEMMA PrefixPointwise ==
  ASSUME NEW s \in Seq(Items), NEW t \in Seq(Items), Len(s) <= Len(t),
         \A i \in 1..Len(s) : s[i] = t[i]
  PROVE  IsPrefix(s, t)
<1>1. Len(s) \in Nat /\ Len(t) \in Nat
  BY LenProperties
<1>2. \A i \in 1..Len(s) : s[i] \in Items /\ t[i] \in Items
  BY <1>1, ElementOfSeq
<1>3. /\ SubSeq(s, 1, Len(s)) \in Seq(Items)
      /\ Len(SubSeq(s, 1, Len(s))) = Len(s)
      /\ \A i \in 1..Len(s) : SubSeq(s, 1, Len(s))[i] = s[i]
  BY <1>1, <1>2, SubSeqProperties
<1>4. /\ SubSeq(t, 1, Len(s)) \in Seq(Items)
      /\ Len(SubSeq(t, 1, Len(s))) = Len(s)
      /\ \A i \in 1..Len(s) : SubSeq(t, 1, Len(s))[i] = t[i]
  BY <1>1, <1>2, SubSeqProperties
<1>5. SubSeq(s, 1, Len(s)) = SubSeq(t, 1, Len(s))
  BY <1>3, <1>4, SeqEqual
<1> QED BY <1>5 DEF IsPrefix

\* What a reader decodes are the first events pushed.
LEMMA DecodableFirst ==
  ASSUME FInv
  PROVE  /\ Decodable \in Seq(Items) /\ Len(Decodable) <= Len(sent)
         /\ \A i \in 1..Len(Decodable) : Decodable[i] = sent[i]
<1>0. file \in Seq(Items) /\ queue_ \in Seq(Items) /\ sent \in Seq(Items)
  BY DEF FInv, WInv, QInv, QTypeOK, TypeOK
<1>1. CASE torn # Fields
  <2>1. Decodable = file
    BY <1>0, <1>1, ConcatEmptySeq DEF Decodable
  <2> QED BY <1>0, <2>1 DEF FInv, FilePrefix
<1>2. CASE torn = Fields
  <2>1. stream = "good" /\ wpc = "flush" /\ item[Writer] \in Items
    BY <1>2 DEF FInv, WInv, Wiring, Spilled
  <2>2. sent = file \o <<item[Writer]>> \o queue_
    BY <2>1 DEF FInv, Accounting, Hand
  <2>3. Decodable = Append(file, item[Writer])
    BY <1>0, <1>2, <2>1, AppendIsConcat DEF Decodable
  <2>4. /\ Len(Decodable) = Len(file) + 1 /\ Decodable[Len(file) + 1] = item[Writer]
        /\ \A i \in 1..Len(file) : Decodable[i] = file[i]
        /\ Decodable \in Seq(Items) /\ Len(file) \in Nat
    BY <1>0, <2>1, <2>3, AppendProperties, LenProperties
  <2>5. /\ Len(sent) >= Len(file) + 1 /\ sent[Len(file) + 1] = item[Writer]
        /\ \A i \in 1..Len(file) : sent[i] = file[i]
    BY <1>0, <2>1, <2>2, PutInFile
  <2>6. \A i \in 1..Len(Decodable) : Decodable[i] = sent[i]
    BY <2>4, <2>5
  <2> QED BY <2>4, <2>5, <2>6
<1> QED BY <1>1, <1>2

\* At any instant, a full disk or the end of the process included, what a
\* reader decodes is a prefix of the events pushed.
THEOREM WriterReadablePrefix == Spec => []ReadablePrefix
<1>1. FInv => ReadablePrefix
  BY DecodableFirst, PrefixPointwise DEF ReadablePrefix, FInv, WInv, TypeOK
<1> QED BY <1>1, FileInvariant, PTL

-------------------------------------------------------------------------------
\* The numbers of the events that p has pushed.
Pushed(p) == {sent[j][2] : j \in {k \in DOMAIN sent : sent[k][1] = p}}

Pushing(p) == qpc[p] \in {"push_lock", "push_test", "push_store"}

\* ProducerOrder of all events pushed, with what it rests on: p numbers its
\* events by its calls, and the last of them may be on its way.
InTurn ==
  /\ \A i \in DOMAIN sent : Earlier(sent, i) = 1..(sent[i][2] - 1)
  /\ \A p \in Producers :
       /\ Pushing(p) => item[p] = <<p, calls[p]>> /\ calls[p] >= 1
       /\ Pushed(p) = 1..(IF Pushing(p) THEN calls[p] - 1 ELSE calls[p])

LEMMA Init_InTurn == Init => InTurn
<1> SUFFICES ASSUME Init PROVE InTurn
    OBVIOUS
<1>1. DOMAIN sent = {} /\ \A p \in Producers : calls[p] = 0 /\ ~Pushing(p)
  BY WriterFact DEF Init, QInit, Pushing
<1>2. \A p \in Producers : Pushed(p) = {}
  BY <1>1 DEF Pushed
<1>3. 1..0 = {}
  OBVIOUS
<1>4. \A p \in Producers : Pushed(p) = 1..(IF Pushing(p) THEN calls[p] - 1 ELSE calls[p])
  BY <1>1, <1>2, <1>3
<1> QED BY <1>1, <1>4 DEF InTurn

\* A step calls Push for a producer's next event, stores an event, or changes
\* nothing of what InTurn is about.
LEMMA TurnSteps ==
  ASSUME WInv, [Next]_vars
  PROVE  \/ \E p \in Producers : CreateEvent(p)
         \/ \E p \in Producers : PushGoesOn(p) /\ PushStore(p)
         \/ /\ UNCHANGED <<sent, calls>>
            /\ \A q \in Producers : /\ Pushing(q)' = Pushing(q)
                                    /\ Pushing(q) => item'[q] = item[q]
<1> DEFINE Quiet == /\ UNCHANGED <<sent, calls>>
                    /\ \A q \in Producers : /\ Pushing(q)' = Pushing(q)
                                            /\ Pushing(q) => item'[q] = item[q]
<1>0. qpc \in [Threads -> Places] /\ item \in [Threads -> Items \cup {NoItem}]
  BY DEF WInv, QInv, QTypeOK
<1> USE WriterFact DEF Pushing, Move, Acquire
<1>1. ASSUME Owner PROVE Quiet
  BY <1>0, <1>1 DEF Owner, SpawnThread, SetNexttime, OpenFile, CloseCall, FlushCall, Join,
     JoinAgain, Destroy, Set, SetMaxSize, qvars
<1>2. ASSUME NEW p \in Producers, PushGoesOn(p), ~PushStore(p) PROVE Quiet
  <2>1. qpc[p] # "push_store"
    BY <1>2 DEF PushGoesOn, PushStep, PushLock, PushWait, PushEnter, PushNotify
  <2> QED BY <1>0, <1>2, <2>1 DEF PushGoesOn, PushStep, PushLock, PushWait, PushEnter, PushNotify
<1>3. ASSUME WriteSummary PROVE Quiet
  <2>1. CASE CheckClose \/ CheckSize \/ CheckTime \/ DrainEnd \/ WriteRecord \/ FlushRecord
    BY <1>0, <2>1 DEF CheckClose, CheckSize, CheckTime, DrainEnd, WriteRecord, FlushRecord, qvars
  <2>2. CASE DrainPop
    BY <1>0, <2>2 DEF DrainPop, PopCall
  <2>3. CASE PopGoesOn
    BY <1>0, <2>3 DEF PopGoesOn, PopStep, PopLock, PopWait, PopTake, PopNotify
  <2> QED BY <1>3, <2>1, <2>2, <2>3 DEF WriteSummary
<1>4. ASSUME Tick \/ Wakeup \/ ProcessExit PROVE Quiet
  BY <1>0, <1>4 DEF Tick, Wakeup, SpuriousWakeup, ProcessExit, qvars
<1>5. ASSUME UNCHANGED vars PROVE Quiet
  BY <1>5 DEF vars, qvars
<1> HIDE DEF Quiet
<1> QED BY <1>1, <1>2, <1>3, <1>4, <1>5 DEF Next, Quiet

\* What storing one event adds to the numbers of the events pushed.
LEMMA AppendEarlier ==
  ASSUME NEW s \in Seq(Items), NEW x \in Items
  PROVE  /\ \A i \in DOMAIN s : Earlier(Append(s, x), i) = Earlier(s, i)
         /\ Earlier(Append(s, x), Len(s) + 1) = {s[j][2] : j \in {k \in DOMAIN s : s[k][1] = x[1]}}
         /\ \A i \in DOMAIN s : Append(s, x)[i] = s[i]
         /\ Append(s, x)[Len(s) + 1] = x
         /\ DOMAIN Append(s, x) = DOMAIN s \cup {Len(s) + 1}
<1>1. /\ Len(s) \in Nat /\ DOMAIN s = 1..Len(s)
      /\ DOMAIN Append(s, x) = 1..(Len(s) + 1)
      /\ \A i \in 1..Len(s) : Append(s, x)[i] = s[i]
      /\ Append(s, x)[Len(s) + 1] = x
  BY AppendProperties, LenProperties
<1>2. ASSUME NEW i \in DOMAIN s PROVE Earlier(Append(s, x), i) = Earlier(s, i)
  BY <1>1 DEF Earlier
<1>3. Earlier(Append(s, x), Len(s) + 1) = {s[j][2] : j \in {k \in DOMAIN s : s[k][1] = x[1]}}
  BY <1>1 DEF Earlier
<1> QED BY <1>1, <1>2, <1>3

LEMMA Next_InTurn == WInv /\ InTurn /\ [Next]_vars => InTurn'
<1> SUFFICES ASSUME WInv, InTurn, [Next]_vars PROVE InTurn'
    OBVIOUS
<1>0. /\ sent \in Seq(Items) /\ calls \in [Producers -> 0..MaxEvents] /\ MaxEvents \in Nat
      /\ qpc \in [Threads -> Places] /\ item \in [Threads -> Items \cup {NoItem}]
  BY ItemsFact DEF WInv, QInv, QTypeOK, TypeOK
<1>1. ASSUME NEW p \in Producers, CreateEvent(p) PROVE InTurn'
  <2>1. /\ ~Pushing(p) /\ Pushing(p)' /\ item'[p] = <<p, calls[p] + 1>>
        /\ calls'[p] = calls[p] + 1 /\ sent' = sent
        /\ \A q \in Producers \ {p} : /\ Pushing(q)' = Pushing(q) /\ item'[q] = item[q]
                                      /\ calls'[q] = calls[q]
    BY <1>0, <1>1, WriterFact DEF CreateEvent, PushCall, Move, Pushing
  <2>2. \A q : Pushed(q)' = Pushed(q)
    BY <2>1 DEF Pushed
  <2>3. \A i \in DOMAIN sent' : Earlier(sent, i)' = 1..(sent'[i][2] - 1)
    BY <2>1 DEF InTurn, Earlier
  <2>4. ASSUME NEW q \in Producers
        PROVE  /\ Pushing(q)' => item'[q] = <<q, calls'[q]>> /\ calls'[q] >= 1
               /\ Pushed(q)' = 1..(IF Pushing(q)' THEN calls'[q] - 1 ELSE calls'[q])
    <3>1. calls[p] \in Nat /\ calls[p] + 1 - 1 = calls[p] /\ calls[p] + 1 >= 1
      BY <1>0
    <3>2. CASE q = p
      BY <2>1, <2>2, <3>1, <3>2 DEF InTurn
    <3>3. CASE q # p
      BY <2>1, <2>2, <3>3 DEF InTurn
    <3> QED BY <3>2, <3>3
  <2> QED BY <2>3, <2>4 DEF InTurn
<1>2. ASSUME NEW p \in Producers, PushGoesOn(p), PushStore(p) PROVE InTurn'
  <2>1. /\ Pushing(p) /\ ~Pushing(p)' /\ sent' = Append(sent, item[p])
        /\ item' = item /\ calls' = calls
        /\ \A q \in Producers \ {p} : Pushing(q)' = Pushing(q)
    BY <1>0, <1>2, WriterFact DEF PushGoesOn, PushStore, Move, Pushing
  <2>2. item[p] \in Items /\ item[p] = <<p, calls[p]>> /\ calls[p] >= 1 /\ calls[p] \in Nat
        /\ Pushed(p) = 1..(calls[p] - 1)
    BY <1>0, <2>1 DEF InTurn, WInv, QInv, Carrying, Pushing
  <2> DEFINE s == sent
             x == item[p]
             t == Append(s, x)
  <2>3. /\ \A i \in DOMAIN s : Earlier(t, i) = Earlier(s, i)
        /\ Earlier(t, Len(s) + 1) = {s[j][2] : j \in {k \in DOMAIN s : s[k][1] = x[1]}}
        /\ \A i \in DOMAIN s : t[i] = s[i]
        /\ t[Len(s) + 1] = x
        /\ DOMAIN t = DOMAIN s \cup {Len(s) + 1}
    <3> HIDE DEF s, x, t
    <3>1. s \in Seq(Items) /\ x \in Items
      BY <1>0, <2>2 DEF s, x
    <3> QED BY <3>1, AppendEarlier DEF t
  <2>4. x[1] = p /\ x[2] = calls[p]
    BY <2>2
  <2>5. Earlier(t, Len(s) + 1) = 1..(x[2] - 1)
    BY <2>2, <2>3, <2>4 DEF Pushed
  <2>6. \A i \in DOMAIN t : Earlier(t, i) = 1..(t[i][2] - 1)
    <3>1. \A i \in DOMAIN s : Earlier(s, i) = 1..(s[i][2] - 1)
      BY DEF InTurn
    <3> HIDE DEF s, x, t
    <3> QED BY <2>3, <2>5, <3>1
  <2>7. ASSUME NEW q \in Producers
        PROVE  {t[j][2] : j \in {k \in DOMAIN t : t[k][1] = q}} =
               IF q = p THEN Pushed(q) \cup {calls[p]} ELSE Pushed(q)
    <3>1. Len(s) + 1 \notin DOMAIN s
      BY <1>0, LenProperties
    <3>2. Pushed(q) = {s[j][2] : j \in {k \in DOMAIN s : s[k][1] = q}}
      BY DEF Pushed
    <3> HIDE DEF s, x, t
    <3>3. CASE q = p
      BY <2>3, <2>4, <3>1, <3>2, <3>3
    <3>4. CASE q # p
      BY <2>3, <2>4, <3>1, <3>2, <3>4
    <3> QED BY <3>3, <3>4
  <2>8. sent' = t
    BY <2>1
  <2>9. \A i \in DOMAIN sent' : Earlier(sent, i)' = 1..(sent'[i][2] - 1)
    <3>1. \A i : Earlier(sent, i)' = Earlier(t, i)
      BY <2>8 DEF Earlier
    <3> HIDE DEF t
    <3> QED BY <2>6, <2>8, <3>1
  <2>10. ASSUME NEW q \in Producers
         PROVE  /\ Pushing(q)' => item'[q] = <<q, calls'[q]>> /\ calls'[q] >= 1
                /\ Pushed(q)' = 1..(IF Pushing(q)' THEN calls'[q] - 1 ELSE calls'[q])
    <3>1. Pushed(q)' = IF q = p THEN Pushed(q) \cup {calls[p]} ELSE Pushed(q)
      <4>1. Pushed(q)' = {t[j][2] : j \in {k \in DOMAIN t : t[k][1] = q}}
        BY <2>8 DEF Pushed
      <4> HIDE DEF t
      <4> QED BY <2>7, <4>1
    <3> HIDE DEF s, x, t
    <3>2. CASE q = p
      <4>1. 1..(calls[p] - 1) \cup {calls[p]} = 1..calls[p]
        BY <2>2
      <4> QED BY <2>1, <2>2, <3>1, <3>2, <4>1
    <3>3. CASE q # p
      BY <2>1, <3>1, <3>3 DEF InTurn
    <3> QED BY <3>2, <3>3
  <2> HIDE DEF s, x, t
  <2> QED BY <2>9, <2>10 DEF InTurn
<1>3. CASE /\ UNCHANGED <<sent, calls>>
           /\ \A q \in Producers : /\ Pushing(q)' = Pushing(q)
                                   /\ Pushing(q) => item'[q] = item[q]
  <2>1. \A q : Pushed(q)' = Pushed(q)
    BY <1>3 DEF Pushed
  <2>2. \A i : Earlier(sent, i)' = Earlier(sent, i)
    BY <1>3 DEF Earlier
  <2> QED BY <1>3, <2>1, <2>2 DEF InTurn
<1> QED BY <1>1, <1>2, <1>3, TurnSteps

LEMMA TurnInvariant == Spec => []InTurn
<1>1. Init => InTurn
  BY Init_InTurn
<1>2. WInv /\ InTurn /\ [Next]_vars => InTurn'
  BY Next_InTurn
<1> QED BY <1>1, <1>2, WriterInvariant, PTL DEF Spec

\* A producer's events reach the reader of the file in the order in which it
\* logged them, each once, whatever other producers log in between.
THEOREM WriterProducerOrder == Spec => []ProducerOrder
<1>1. FInv /\ InTurn => ProducerOrder
  <2> SUFFICES ASSUME FInv, InTurn, NEW i \in DOMAIN Decodable
               PROVE  Earlier(Decodable, i) = 1..(Decodable[i][2] - 1)
      BY DEF ProducerOrder
  <2>1. /\ Len(Decodable) <= Len(sent) /\ Len(Decodable) \in Nat /\ Len(sent) \in Nat
        /\ DOMAIN Decodable = 1..Len(Decodable) /\ DOMAIN sent = 1..Len(sent)
        /\ \A j \in 1..Len(Decodable) : Decodable[j] = sent[j]
    BY DecodableFirst, LenProperties DEF FInv, WInv, TypeOK
  <2>2. i \in DOMAIN sent /\ Decodable[i] = sent[i] /\ \A j \in 1..(i - 1) : Decodable[j] = sent[j]
    BY <2>1
  <2>3. Earlier(Decodable, i) = Earlier(sent, i)
    BY <2>2 DEF Earlier
  <2> QED BY <2>2, <2>3 DEF InTurn
<1> QED BY <1>1, FileInvariant, TurnInvariant, PTL

-------------------------------------------------------------------------------
Failed == stream = "bad" \/ ~up
Closed == opc \in {"joined", "raised", "destroyed"}

\* An event on its way to the file is the next one to be persisted.
LEMMA NextInLine ==
  ASSUME FInv, stream # "bad", Hand = <<item[Writer]>>, item[Writer] \in Items
  PROVE  Len(file) < Len(sent) /\ sent[Len(file) + 1] = item[Writer]
<1>1. file \in Seq(Items) /\ queue_ \in Seq(Items) /\ sent \in Seq(Items)
  BY DEF FInv, WInv, QInv, QTypeOK, TypeOK
<1>2. sent = file \o <<item[Writer]>> \o queue_
  BY DEF FInv, Accounting
<1>3. Len(sent) >= Len(file) + 1 /\ sent[Len(file) + 1] = item[Writer]
  BY <1>1, <1>2, PutInFile
<1> QED BY <1>1, <1>3, LenProperties

LEMMA Log_Step ==
  ASSUME JoinBeforeClose, FInv, [Next]_vars
  PROVE  [Log!Next]_(Log!logVars)
<1> DEFINE Stutter == UNCHANGED <<sent, file, Failed, Closed>>
           Fails   == Failed' /\ UNCHANGED <<sent, file, Closed>>
<1>1. ASSUME Stutter PROVE [Log!Next]_(Log!logVars)
  BY <1>1 DEF Log!logVars, Failed, Closed
<1>2. ASSUME Fails PROVE [Log!Next]_(Log!logVars)
  <2>1. Log!Fail
    BY <1>2 DEF Log!Fail, Failed, Closed
  <2> QED BY <2>1 DEF Log!Next
<1>3. WInv /\ Wiring /\ Closing /\ Construction
  BY DEF FInv, WInv
<1> USE DEF OwnerAt, WriterAt, dvars, ovars, Failed, Closed
<1>4. ASSUME up, Owner PROVE [Log!Next]_(Log!logVars)
  <2>1. CASE SpawnThread \/ SetNexttime \/ CloseCall \/ FlushCall \/ JoinAgain \/ Destroy \/ Set
    <3>1. UNCHANGED <<sent, file, stream, up>>
      BY <2>1 DEF SpawnThread, SetNexttime, CloseCall, FlushCall, JoinAgain, Destroy, Set
    <3>2. CASE SpawnThread \/ SetNexttime \/ CloseCall \/ FlushCall
      <4>1. ~Closed /\ ~Closed'
        BY <3>2 DEF SpawnThread, SetNexttime, CloseCall, FlushCall
      <4> QED BY <1>1, <3>1, <4>1
    <3>3. CASE JoinAgain \/ Destroy
      <4>1. Closed /\ Closed'
        BY <3>3 DEF JoinAgain, Destroy
      <4> QED BY <1>1, <3>1, <4>1
    <3>4. CASE Set
      BY <1>1, <3>1, <3>4 DEF Set
    <3> QED BY <2>1, <3>2, <3>3, <3>4
  <2>2. CASE OpenFile
    <3>1. stream # "bad"
      BY <1>3, <2>2 DEF OpenFile, Construction, Constructed
    <3>2. Stutter \/ Fails
      BY <1>4, <2>2, <3>1 DEF OpenFile
    <3> QED BY <1>1, <1>2, <3>2
  <2>3. CASE Join
    <3>1. queue_ = <<>> /\ Hand = <<>>
      BY <1>3, <2>3, WriterFact DEF Join, Closing, Wiring, Hand
    <3>2. stream # "bad" => file = sent
      <4>1. file \o <<>> \o <<>> = file
        BY ConcatEmptySeq DEF FInv, WInv, TypeOK
      <4> QED BY <3>1, <4>1 DEF FInv, Accounting
    <3>3. Log!Close
      BY <2>3, <3>2 DEF Join, Log!Close
    <3> QED BY <3>3 DEF Log!Next
  <2> QED BY <1>4, <2>1, <2>2, <2>3 DEF Owner
<1>5. ASSUME NEW p \in Producers, CreateEvent(p) PROVE Stutter
  BY <1>5 DEF CreateEvent
<1>6. ASSUME NEW p \in Producers, PushGoesOn(p) PROVE [Log!Next]_(Log!logVars)
  <2>1. CASE qpc[p] = "push_store"
    <3>1. item[p] \in Items
      BY <2>1 DEF FInv, WInv, QInv, Carrying
    <3>2. ~Closed
      BY <1>3, <2>1 DEF Closing, AllReturned
    <3>3. Log!Log(item[p])
      BY <1>6, <2>1, <3>2 DEF PushGoesOn, Log!Log
    <3> QED BY <3>1, <3>3 DEF Log!Next
  <2>2. CASE qpc[p] # "push_store"
    <3>1. Stutter
      BY <1>6, <2>2 DEF PushGoesOn
    <3> QED BY <1>1, <3>1
  <2> QED BY <2>1, <2>2
<1>7. ASSUME up, WriteSummary PROVE [Log!Next]_(Log!logVars)
  <2>1. CASE CheckClose \/ CheckSize \/ CheckTime \/ DrainPop \/ DrainEnd \/ PopGoesOn
    <3>1. UNCHANGED <<sent, file, stream, up, opc>>
      BY <2>1 DEF CheckClose, CheckSize, CheckTime, DrainPop, DrainEnd, PopGoesOn
    <3> QED BY <1>1, <3>1
  <2>2. CASE WriteRecord
    <3>1. Stutter \/ Fails
      BY <1>7, <2>2 DEF WriteRecord
    <3> QED BY <1>1, <1>2, <3>1
  <2>3. CASE FlushRecord
    <3>1. CASE stream = "good" /\ file' = Append(file, item[Writer]) /\ stream' = "good"
      <4>1. Hand = <<item[Writer]>> /\ item[Writer] \in Items
        BY <1>3, <2>3 DEF FlushRecord, Wiring, Hand
      <4>2. Len(file) < Len(sent) /\ sent[Len(file) + 1] = item[Writer]
        BY <3>1, <4>1, NextInLine
      <4>3. ~Closed
        BY <1>3, <2>3 DEF FlushRecord, Closing
      <4>4. Log!Persist
        BY <1>7, <2>3, <3>1, <4>2, <4>3 DEF FlushRecord, Log!Persist
      <4> QED BY <4>4 DEF Log!Next
    <3>2. CASE stream = "good" /\ stream' = "bad" /\ file' = file
      <4>1. Fails
        BY <2>3, <3>2 DEF FlushRecord
      <4> QED BY <1>2, <4>1
    <3>3. CASE stream # "good"
      <4>1. Stutter
        BY <2>3, <3>3 DEF FlushRecord
      <4> QED BY <1>1, <4>1
    <3> QED BY <2>3, <3>1, <3>2, <3>3 DEF FlushRecord
  <2> QED BY <1>7, <2>1, <2>2, <2>3 DEF WriteSummary
<1>8. ASSUME Tick \/ Wakeup PROVE Stutter
  BY <1>8 DEF Tick, Wakeup
<1>9. ASSUME ProcessExit PROVE Fails
  BY <1>9 DEF ProcessExit
<1>10. ASSUME UNCHANGED vars PROVE Stutter
  BY <1>10 DEF vars
<1> QED BY <1>1, <1>2, <1>4, <1>5, <1>6, <1>7, <1>8, <1>9, <1>10 DEF Next

\* In a program that joins its logging threads before Close, a FileWriter
\* implements the log of EventLog.
THEOREM WriterIsLog == ASSUME JoinBeforeClose PROVE Spec => LogSpec
<1>1. Init => Log!Init
  BY DEF Init, Log!Init
<1>2. FInv /\ [Next]_vars => [Log!Next]_(Log!logVars)
  BY Log_Step
<1> QED BY <1>1, <1>2, FileInvariant, PTL DEF Spec, LogSpec, Log!Spec

-------------------------------------------------------------------------------
(***************************************************************************)
(* FlushTimer: a round of writing begins less than a second early and is   *)
(* overdue by no more than what the clock was set back and the thread not  *)
(* scheduled.                                                              *)
(***************************************************************************)

\* The ticks from the clock to nexttime.
Ahead == Second * lead - phase

Allowed == asked + Second * back + missed

\* Paced, at any time of the wait: the ticks since nexttime was computed and
\* those to go are at least the interval but for a part of a second, and at
\* most the interval, what the clock was set back and the thread has missed.
OnCourse ==
  ~draining =>
    /\ lead >= 0 => since + Ahead > asked - Second
    /\ lead < 0 => since > asked
    /\ lead > 0 => since + Ahead <= Allowed
    /\ lead <= 0 => since <= Allowed

\* Types of the state; nexttime is ahead of the clock by the interval in whole
\* seconds, rounded either way, and by what the clock was set back: the two
\* outcomes FileWriter's model of the interval chooses between.
TTypeOK ==
  /\ phase \in 0..(Second - 1) /\ lead \in Int /\ lead >= -1
  /\ interval \in Intervals /\ draining \in BOOLEAN /\ queue \in 0..MaxQueue
  /\ asked \in Intervals \cup {0} /\ since \in Nat /\ back \in Nat /\ missed \in Nat
  /\ set \in Nat
  /\ lead <= asked \div Second + 1 + back

TimerInv == TTypeOK /\ OnCourse /\ NotTooSoon

-------------------------------------------------------------------------------
\* What cutting a sum to whole seconds leaves of it.
LEMMA Cut ==
  ASSUME NEW a \in Nat, NEW b \in Nat \ {0}
  PROVE  /\ a \div b \in Nat /\ b * (a \div b) <= a /\ a < b * (a \div b) + b
  OBVIOUS

\* Cutting after the clock's part of a second is added leaves at most one more.
LEMMA CutSum ==
  ASSUME NEW a \in Nat, NEW b \in Nat \ {0}, NEW p \in 0..(b - 1)
  PROVE  (p + a) \div b <= a \div b + 1
<1> DEFINE q == a \div b
<1> DEFINE r == (p + a) \div b
<1>1. a < b * q + b /\ q \in Nat
  BY Cut
<1>2. b * r <= p + a /\ r \in Nat
  BY Cut
<1>3. b * r < b * q + 2 * b
  <2> HIDE DEF q, r
  <2> QED BY <1>1, <1>2
<1>4. b * (q + 2) = b * q + 2 * b
  BY <1>1
<1>5. b * r < b * (q + 2)
  BY <1>3, <1>4
<1> HIDE DEF q, r
<1>6. r < q + 2
  BY <1>1, <1>2, <1>5
<1> QED BY <1>1, <1>2, <1>6 DEF q, r

LEMMA Times ==
  ASSUME NEW a \in Int, NEW b \in Int
  PROVE  b * (a - 1) = b * a - b /\ b * (a + 1) = b * a + b /\ b * a \in Int
  OBVIOUS

LEMMA TimesNat ==
  ASSUME NEW a \in Nat, NEW b \in Nat
  PROVE  b * a \in Nat
  OBVIOUS

\* A second or more ahead is at least a second's ticks ahead.
LEMMA AtLeastOne ==
  ASSUME NEW a \in Int, NEW b \in Nat, a > 0
  PROVE  b * a >= b
  OBVIOUS

\* The longest wait that is counted exceeds every interval.
LEMMA Enough == Longest \in Nat /\ \A a \in Intervals \cup {0} : Longest > a
<1> DEFINE m == CHOOSE m \in Intervals : \A n \in Intervals : n <= m
<1>1. m \in Intervals /\ \A n \in Intervals : n <= m
  BY TimerAssumption
<1>2. m \in Nat /\ Intervals \subseteq Nat
  BY <1>1, TimerAssumption
<1>3. Second * MaxBack \in Nat /\ MaxMissed \in Nat
  BY TimerAssumption
<1> HIDE DEF m
<1>4. Longest = Second * MaxBack + MaxMissed + 1 + m
  BY DEF Longest, m
<1> QED BY <1>1, <1>2, <1>3, <1>4

-------------------------------------------------------------------------------
LEMMA TimerInit == TInit => TimerInv
<1> SUFFICES ASSUME TInit PROVE TimerInv
  OBVIOUS
<1>1. Second \in Nat /\ Second > 0 /\ Second * 0 = 0 /\ 0 \div Second = 0
  BY TimerAssumption
<1>2. /\ phase \in 0..(Second - 1) /\ lead = 0 /\ draining = FALSE /\ queue = 0
      /\ asked = 0 /\ since = 0 /\ back = 0 /\ missed = 0 /\ set = 0
      /\ interval \in Intervals
  BY DEF TInit
<1>3. asked \div Second = 0
  BY <1>1, <1>2
<1>4. lead <= asked \div Second + 1 + back
  BY <1>2, <1>3
<1>5. queue \in 0..MaxQueue
  BY <1>2, TimerAssumption
<1>6. draining \in BOOLEAN
  BY <1>2
<1>7. TTypeOK
  BY <1>2, <1>4, <1>5, <1>6 DEF TTypeOK
<1>8. OnCourse /\ NotTooSoon
  BY <1>1, <1>2 DEF OnCourse, NotTooSoon, Ahead, Allowed
<1> QED BY <1>7, <1>8 DEF TimerInv

\* The ranges that every step starts from.
LEMMA Ranges ==
  ASSUME TTypeOK
  PROVE  /\ Second \in Nat /\ Second > 0 /\ phase \in Nat /\ phase < Second
         /\ lead \in Int /\ lead >= -1 /\ asked \in Nat /\ interval \in Nat
         /\ since \in Nat /\ back \in Nat /\ missed \in Nat
         /\ Second * lead \in Int /\ Second * back \in Nat
         /\ asked \div Second \in Nat
<1>1. Second \in Nat \ {0} /\ Intervals \subseteq Nat
  BY TimerAssumption
<1>2. asked \in Nat /\ interval \in Nat
  BY <1>1 DEF TTypeOK
<1>3. asked \div Second \in Nat
  BY <1>1, <1>2, Cut
<1>4. lead \in Int /\ back \in Nat
  BY DEF TTypeOK
<1>5. Second * lead \in Int /\ Second * back \in Nat
  BY <1>1, <1>4
<1> QED BY <1>1, <1>2, <1>3, <1>4, <1>5 DEF TTypeOK

\* A tick: the clock's part of the second, and nexttime's distance.
LEMMA Advances ==
  ASSUME TTypeOK, Advance
  PROVE  /\ phase' \in 0..(Second - 1) /\ lead' \in Int /\ lead' >= -1 /\ lead' <= lead
         /\ lead >= 0 => Ahead' = Ahead - 1
         /\ lead >= 0 => lead' >= 0 \/ (lead = 0 /\ phase + 1 = Second)
         /\ lead < 0 => lead' < 0
         /\ lead' = lead \/ (lead > lead' /\ phase' = 0)
<1> USE Ranges
<1>1. CASE phase + 1 = Second
  <2>1. phase' = 0
    BY <1>1 DEF Advance
  <2>2. lead' = IF lead >= 0 THEN lead - 1 ELSE lead
    BY <1>1 DEF Advance
  <2>3. Second * (lead - 1) = Second * lead - Second
    BY Times
  <2>4. lead >= 0 => Ahead' = Second * (lead - 1) - 0
    BY <2>1, <2>2 DEF Ahead
  <2>5. lead >= 0 => Ahead' = Ahead - 1
    BY <1>1, <2>3, <2>4 DEF Ahead
  <2> QED BY <1>1, <2>1, <2>2, <2>5
<1>2. CASE phase + 1 # Second
  <2>1. phase + 1 \in 0..(Second - 1)
    BY <1>2
  <2>2. phase' = phase + 1
    BY <2>1 DEF Advance
  <2>3. lead' = lead
    BY <1>2 DEF Advance
  <2>4. Ahead' = Ahead - 1
    BY <2>2, <2>3 DEF Ahead
  <2> QED BY <2>1, <2>2, <2>3, <2>4
<1> QED BY <1>1, <1>2

LEMMA TickKeeps == TimerInv /\ ClockTick => TimerInv'
<1> SUFFICES ASSUME TimerInv, ClockTick PROVE TimerInv'
  OBVIOUS
<1> USE DEF TimerInv
<1>1. TTypeOK /\ OnCourse /\ NotTooSoon
  OBVIOUS
<1>2. /\ Second \in Nat /\ Second > 0 /\ phase \in Nat /\ phase < Second
      /\ lead \in Int /\ lead >= -1 /\ asked \in Nat /\ interval \in Nat
      /\ since \in Nat /\ back \in Nat /\ missed \in Nat
      /\ Second * lead \in Int /\ Second * back \in Nat
      /\ asked \div Second \in Nat
  BY <1>1, Ranges
<1>3. Advance
  BY DEF ClockTick
<1>4. /\ phase' \in 0..(Second - 1) /\ lead' \in Int /\ lead' >= -1 /\ lead' <= lead
      /\ lead >= 0 => Ahead' = Ahead - 1
      /\ lead >= 0 => lead' >= 0 \/ (lead = 0 /\ phase + 1 = Second)
      /\ lead < 0 => lead' < 0
      /\ lead' = lead \/ (lead > lead' /\ phase' = 0)
  BY <1>1, <1>3, Advances
<1>5. UNCHANGED <<interval, draining, queue, asked, back, set>>
  BY DEF ClockTick
<1>6. Longest \in Nat /\ Longest > asked
  BY <1>1, Enough DEF TTypeOK
<1>7. since' = IF draining \/ since = Longest THEN since ELSE since + 1
  BY DEF ClockTick
<1>8. missed' \in Nat /\ missed' >= missed /\ (~draining /\ lead <= 0 => missed' = missed + 1)
  BY <1>2 DEF ClockTick, Polled, Due
<1>9. TTypeOK'
  BY <1>1, <1>4, <1>5, <1>6, <1>7, <1>8, <1>2 DEF TTypeOK
<1>10. OnCourse'
  <2> SUFFICES ASSUME ~draining PROVE OnCourse'
    BY <1>5 DEF OnCourse
  <2>1. lead' >= 0 => since' + Ahead' > asked - Second
    <3> SUFFICES ASSUME lead' >= 0 PROVE since' + Ahead' > asked - Second
      OBVIOUS
    <3>1. lead \in Nat /\ lead' \in Nat
      BY <1>4, <1>2
    <3>2. Second * lead' \in Nat
      <4>1. Second \in Nat
        BY <1>2
      <4> QED BY <3>1, <4>1, TimesNat
    <3>3. Ahead' \in Int /\ Ahead' > 0 - Second
      <4>1. phase' \in Int /\ phase' < Second
        BY <1>4, <1>2
      <4> QED BY <1>2, <3>2, <4>1 DEF Ahead
    <3>4. Ahead \in Int
      BY <1>2 DEF Ahead
    <3>5. Ahead' = Ahead - 1 /\ since + Ahead > asked - Second
      BY <1>1, <1>4, <3>1 DEF OnCourse
    <3>6. CASE since = Longest
      <4>1. since' \in Nat /\ since' > asked
        BY <1>6, <1>7, <1>2, <3>6
      <4>2. Second \in Nat /\ asked \in Nat
        BY <1>2
      <4>3. \A s, h \in Int : s > asked /\ h > 0 - Second => s + h > asked - Second
        BY <4>2
      <4>4. since' \in Int
        BY <4>1
      <4> QED BY <3>3, <4>1, <4>3, <4>4
    <3>7. CASE since # Longest
      BY <1>7, <1>2, <3>4, <3>5, <3>7
    <3> QED BY <3>6, <3>7
  <2>2. lead' < 0 => since' > asked
    BY <1>1, <1>4, <1>6, <1>7, <1>2 DEF OnCourse, Ahead
  <2>3. /\ Allowed \in Int /\ Allowed' \in Int /\ Allowed' >= Allowed
        /\ lead <= 0 => Allowed' = Allowed + 1
    <3>1. Allowed' = asked + Second * back + missed'
      BY <1>5 DEF Allowed
    <3> QED BY <1>8, <1>2, <3>1 DEF Allowed
  <2>4. Ahead \in Int /\ since' \in Nat /\ since' <= since + 1
    BY <1>7, <1>2 DEF Ahead
  <2>5. lead' > 0 => since' + Ahead' <= Allowed'
    BY <1>1, <1>4, <1>2, <2>3, <2>4 DEF OnCourse
  <2>6. lead' <= 0 => since' <= Allowed'
    <3>1. CASE lead <= 0
      BY <1>1, <1>2, <2>3, <2>4, <3>1 DEF OnCourse
    <3>2. CASE lead > 0 /\ lead' <= 0
      <4>1. lead' = 0 /\ phase' = 0
        BY <1>4, <1>2, <3>2
      <4>2. Second * 0 = 0
        BY <1>2
      <4>3. Ahead' = 0
        BY <4>1, <4>2 DEF Ahead
      <4> QED BY <1>1, <1>4, <1>2, <2>3, <2>4, <3>2, <4>3 DEF OnCourse
    <3> QED BY <1>2, <3>1, <3>2
  <2> QED BY <1>5, <2>1, <2>2, <2>5, <2>6 DEF OnCourse
<1>11. NotTooSoon'
  BY <1>1, <1>5, <1>7 DEF NotTooSoon
<1> QED BY <1>9, <1>10, <1>11

LEMMA SetBackKeeps == TimerInv /\ SetBack => TimerInv'
<1> SUFFICES ASSUME TimerInv, SetBack PROVE TimerInv'
  OBVIOUS
<1>1. TTypeOK /\ OnCourse /\ NotTooSoon
  BY DEF TimerInv
<1>2. /\ Second \in Nat /\ Second > 0 /\ phase \in Nat /\ phase < Second
      /\ lead \in Int /\ lead >= -1 /\ asked \in Nat /\ interval \in Nat
      /\ since \in Nat /\ back \in Nat /\ missed \in Nat
      /\ Second * lead \in Int /\ Second * back \in Nat
      /\ asked \div Second \in Nat
  BY <1>1, Ranges
<1>3. UNCHANGED <<phase, interval, draining, queue, asked, since, missed>>
  BY DEF SetBack
<1>4. back' = back + 1 /\ set' = set + 1
  BY DEF SetBack
<1>5. IF lead < 0 THEN lead' \in {-1, 0} ELSE lead' = lead + 1
  BY DEF SetBack
<1>6. TTypeOK'
  <2>1. lead' \in Int /\ lead' >= -1 /\ lead' <= lead + 1
    BY <1>5, <1>2
  <2>2. lead' <= asked \div Second + 1 + back'
    BY <1>1, <1>4, <1>2, <2>1 DEF TTypeOK
  <2> QED BY <1>1, <1>3, <1>4, <2>1, <2>2 DEF TTypeOK
<1>7. OnCourse'
  <2> SUFFICES ASSUME ~draining PROVE OnCourse'
    BY <1>3 DEF OnCourse
  <2>1. Allowed \in Int /\ Allowed' = Allowed + Second
    <3>1. Second * (back + 1) = Second * back + Second
      BY <1>2, Times
    <3> QED BY <1>3, <1>4, <1>2, <3>1 DEF Allowed
  <2>2. CASE lead < 0
    <3>1. since > asked /\ since <= Allowed
      BY <1>1, <1>2, <2>2 DEF OnCourse
    <3>2. CASE lead' = -1
      BY <1>3, <1>2, <2>1, <3>1, <3>2 DEF OnCourse
    <3>3. CASE lead' = 0
      <4>1. Second * 0 = 0
        BY <1>2
      <4>2. Ahead' = 0 - phase
        BY <1>3, <3>3, <4>1 DEF Ahead
      <4> QED BY <1>3, <1>2, <2>1, <3>1, <3>3, <4>2 DEF OnCourse
    <3> QED BY <1>5, <2>2, <3>2, <3>3
  <2>3. CASE lead >= 0
    <3>1. lead' = lead + 1 /\ lead' > 0
      BY <1>5, <1>2, <2>3
    <3>2. Ahead \in Int /\ Ahead' = Ahead + Second
      <4>1. Second * (lead + 1) = Second * lead + Second
        BY <1>2, Times
      <4> QED BY <1>3, <1>2, <3>1, <4>1 DEF Ahead
    <3>3. since + Ahead > asked - Second
      BY <1>1, <2>3 DEF OnCourse
    <3>4. since + Ahead <= Allowed
      <4>1. CASE lead > 0
        BY <1>1, <4>1 DEF OnCourse
      <4>2. CASE lead = 0
        <5>1. since <= Allowed
          BY <1>1, <1>2, <4>2 DEF OnCourse
        <5>2. Second * 0 = 0
          BY <1>2
        <5>3. Ahead = 0 - phase
          BY <4>2, <5>2 DEF Ahead
        <5> QED BY <1>2, <2>1, <5>1, <5>3
      <4> QED BY <1>2, <2>3, <4>1, <4>2
    <3> QED BY <1>3, <1>2, <2>1, <3>1, <3>2, <3>3, <3>4 DEF OnCourse
  <2> QED BY <1>2, <2>2, <2>3
<1>8. NotTooSoon'
  BY <1>1, <1>3 DEF NotTooSoon
<1> QED BY <1>6, <1>7, <1>8 DEF TimerInv

\* A round begins: the writer is late by part of a second, or not at all.
LEMMA PollKeeps == TimerInv /\ Poll => TimerInv'
<1> SUFFICES ASSUME TimerInv, Poll PROVE TimerInv'
  OBVIOUS
<1>1. TTypeOK /\ OnCourse
  BY DEF TimerInv
<1>2. /\ Second \in Nat /\ Second > 0 /\ phase \in Nat /\ phase < Second
      /\ lead \in Int /\ asked \in Nat /\ since \in Nat
  BY <1>1, Ranges
<1>3. /\ UNCHANGED <<phase, lead, interval, queue, asked, since, back, missed, set>>
      /\ ~draining /\ draining' = TRUE /\ lead <= 0
  BY DEF Poll, Due, clock
<1>4. TTypeOK'
  <2>1. draining' \in BOOLEAN
    BY <1>3
  <2> QED BY <1>1, <1>3, <2>1 DEF TTypeOK
<1>5. since > asked - Second
  <2>1. CASE lead < 0
    BY <1>1, <1>3, <1>2, <2>1 DEF OnCourse
  <2>2. CASE lead = 0
    <3>1. Second * 0 = 0
      BY <1>2
    <3>2. Ahead = 0 - phase
      BY <2>2, <3>1 DEF Ahead
    <3> QED BY <1>1, <1>3, <1>2, <2>2, <3>2 DEF OnCourse
  <2> QED BY <1>3, <1>2, <2>1, <2>2
<1>6. OnCourse' /\ NotTooSoon'
  BY <1>3, <1>5 DEF OnCourse, NotTooSoon
<1> QED BY <1>4, <1>6 DEF TimerInv

\* A round ends: nexttime is the time and the interval, cut to whole seconds.
LEMMA DrainEndKeeps == TimerInv /\ RoundEnd => TimerInv'
<1> SUFFICES ASSUME TimerInv, RoundEnd PROVE TimerInv'
  OBVIOUS
<1>1. TTypeOK
  BY DEF TimerInv
<1>2. /\ Second \in Nat \ {0} /\ phase \in 0..(Second - 1) /\ phase \in Nat
      /\ interval \in Nat
  BY <1>1, Ranges DEF TTypeOK
<1>3. /\ UNCHANGED <<phase, interval, queue, set>>
      /\ draining' = FALSE /\ lead' = (phase + interval) \div Second
      /\ asked' = interval /\ since' = 0 /\ back' = 0 /\ missed' = 0
  BY DEF RoundEnd, LeadAfter
<1>4. /\ lead' \in Nat /\ Second * lead' <= phase + interval
      /\ phase + interval < Second * lead' + Second /\ Second * lead' \in Int
  <2>1. phase + interval \in Nat
    BY <1>2
  <2> QED BY <1>3, <1>2, <2>1, Cut
<1>5. lead' <= interval \div Second + 1
  BY <1>3, <1>2, CutSum
<1>6. interval \div Second \in Nat
  BY <1>2, Cut
<1>7. TTypeOK'
  <2>1. lead' <= asked' \div Second + 1 + back'
    BY <1>4, <1>3, <1>5, <1>6
  <2>2. draining' \in BOOLEAN
    BY <1>3
  <2> QED BY <1>1, <1>3, <1>4, <2>1, <2>2 DEF TTypeOK
<1>8. Ahead' = Second * lead' - phase /\ Ahead' > interval - Second /\ Ahead' <= interval
  BY <1>3, <1>2, <1>4 DEF Ahead
<1>9. Allowed' = interval
  <2>1. Second * 0 = 0
    BY <1>2
  <2> QED BY <1>3, <1>2, <2>1 DEF Allowed
<1>10. OnCourse' /\ NotTooSoon'
  BY <1>3, <1>2, <1>4, <1>8, <1>9 DEF OnCourse, NotTooSoon
<1> QED BY <1>7, <1>10 DEF TimerInv

\* The queue, and the program that changes the interval, leave the clock alone.
LEMMA QueueKeeps == TimerInv /\ (Push \/ Pop \/ SetInterval \/ UNCHANGED timerVars) => TimerInv'
<1> SUFFICES ASSUME TimerInv, Push \/ Pop \/ SetInterval \/ UNCHANGED timerVars PROVE TimerInv'
  OBVIOUS
<1>1. TTypeOK /\ OnCourse /\ NotTooSoon
  BY DEF TimerInv
<1>2. UNCHANGED <<phase, lead, draining, asked, since, back, missed, set>>
  BY DEF Push, Pop, SetInterval, timerVars, clock
<1>3. queue' \in 0..MaxQueue
  BY <1>1, TimerAssumption DEF TTypeOK, Push, Pop, SetInterval, timerVars
<1>4. interval' \in Intervals
  BY <1>1 DEF TTypeOK, Push, Pop, SetInterval, timerVars
<1>5. TTypeOK'
  BY <1>1, <1>2, <1>3, <1>4 DEF TTypeOK
<1>6. OnCourse' /\ NotTooSoon'
  BY <1>1, <1>2 DEF OnCourse, NotTooSoon, Ahead, Allowed
<1> QED BY <1>5, <1>6 DEF TimerInv

LEMMA TimerNext == TimerInv /\ [TNext]_timerVars => TimerInv'
BY TickKeeps, SetBackKeeps, PollKeeps, DrainEndKeeps, QueueKeeps DEF TNext

LEMMA TimerInvariant == TSpec => []TimerInv
BY TimerInit, TimerNext, PTL DEF TSpec

-------------------------------------------------------------------------------
\* Types of the pacing: whatever the interval and its changes, nexttime is
\* never further ahead than the last interval read and the clock's set-backs.
THEOREM TimerTypeOK == TSpec => []TTypeOK
<1>1. TimerInv => TTypeOK
  BY DEF TimerInv
<1> QED BY <1>1, TimerInvariant, PTL

\* WriteSummary's rounds are neither early by a second nor late for any other
\* reason than the clock and the scheduler, for every interval.
THEOREM TimerPaced == TSpec => []Paced
<1>1. TimerInv => Paced
  <2> SUFFICES ASSUME TimerInv PROVE Paced
    OBVIOUS
  <2>1. TTypeOK /\ OnCourse /\ NotTooSoon
    BY DEF TimerInv
  <2>2. /\ Second \in Nat /\ Second > 0 /\ phase \in Nat /\ phase < Second /\ lead \in Int
        /\ asked \in Nat /\ since \in Nat /\ missed \in Nat /\ Second * back \in Nat
        /\ Second * lead \in Int
    BY <2>1, Ranges
  <2>3. lead > 0 => Ahead > 0 /\ Ahead \in Int
    BY <2>2, AtLeastOne DEF Ahead
  <2>4. Allowed \in Int
    BY <2>2 DEF Allowed
  <2>5. ~draining => since <= Allowed
    BY <2>1, <2>2, <2>3, <2>4 DEF OnCourse
  <2> QED BY <2>1, <2>5 DEF Paced, NotTooLate, Allowed
<1> QED BY <1>1, TimerInvariant, PTL
===============================================================================
