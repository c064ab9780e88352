------------------------------ MODULE SharedQueue ------------------------------
(***************************************************************************)
(* include/filewriter/sharedqueue.hpp, sharedqueue_impl.hpp: the bounded   *)
(* queue between the threads that log and the thread that writes.          *)
(*                                                                         *)
(* A thread is inside Push or Pop at one of the places of qpc.  The steps  *)
(* between taking and releasing mutex_ are one step each, except that a    *)
(* Push stays visible while it modifies queue_ ("push_store"): Size() and  *)
(* Empty() read queue_ without the mutex, so they race with that step.     *)
(* A thread in queueempty or queueFull sleeps on that condition variable.  *)
(***************************************************************************)
EXTENDS Naturals, Sequences

CONSTANTS Producers,    \* the threads that call Push
          Consumers,    \* the threads that call Pop
          Items,        \* the values of Datatype
          MaxSizes,     \* the values MaxSize() is set to
          MaxSpurious,  \* bound: spurious wakeups of the condition variables
          NoThread, NoItem

Threads == Producers \cup Consumers

Capacity == CHOOSE n \in MaxSizes : \A m \in MaxSizes : m <= n

ASSUME QueueAssumption ==
  /\ Producers \cap Consumers = {}
  /\ NoThread \notin Threads
  /\ NoItem \notin Items
  /\ MaxSizes \subseteq Nat /\ Capacity \in MaxSizes
  /\ \A m \in MaxSizes : m <= Capacity
  /\ MaxSpurious \in Nat

VARIABLES queue_,      \* the items, the front first
          maxSize,
          mutex_,      \* the thread that holds the mutex, or NoThread
          queueempty,  \* the threads asleep in queueempty.wait
          queueFull,   \* the threads asleep in queueFull.wait
          qpc,         \* where in Push or Pop each thread is
          item,        \* Push's argument; what Pop took out
          spurious     \* number of spurious wakeups so far

qvars == <<queue_, maxSize, mutex_, queueempty, queueFull, qpc, item, spurious>>

Places == {"out", "push_lock", "push_test", "push_store", "push_notify",
           "pop_lock", "pop_test", "pop_notify"}

QInit ==
  /\ queue_ = <<>>
  /\ maxSize \in MaxSizes
  /\ mutex_ = NoThread
  /\ queueempty = {} /\ queueFull = {}
  /\ qpc = [t \in Threads |-> "out"]
  /\ item = [t \in Threads |-> NoItem]
  /\ spurious = 0

Move(t, from, to) == qpc[t] = from /\ qpc' = [qpc EXCEPT ![t] = to]

(***************************************************************************)
(* Taking mutex_: the unique_lock at the top, or inside wait() once woken. *)
(***************************************************************************)
Acquire(t, from, to) ==
  /\ Move(t, from, to)
  /\ t \notin queueempty \cup queueFull
  /\ mutex_ = NoThread
  /\ mutex_' = t
  /\ UNCHANGED <<queue_, maxSize, queueempty, queueFull, item, spurious>>

-------------------------------------------------------------------------------
PushCall(t, x) ==
  /\ Move(t, "out", "push_lock")
  /\ item' = [item EXCEPT ![t] = x]
  /\ UNCHANGED <<queue_, maxSize, mutex_, queueempty, queueFull, spurious>>

PushLock(t) == Acquire(t, "push_lock", "push_test")

\* queueFull.wait(mlock): releases the mutex and falls asleep, atomically.
PushWait(t) ==
  /\ Len(queue_) >= maxSize
  /\ Move(t, "push_test", "push_lock")
  /\ mutex_' = NoThread
  /\ queueFull' = queueFull \cup {t}
  /\ UNCHANGED <<queue_, maxSize, queueempty, item, spurious>>

\* Slip: ">" for ">=" in the loop's test.
PushEnterOffByOne(t) ==
  /\ Len(queue_) <= maxSize
  /\ Move(t, "push_test", "push_store")
  /\ UNCHANGED <<queue_, maxSize, mutex_, queueempty, queueFull, item, spurious>>

PushEnter(t) ==
  /\ Len(queue_) < maxSize
  /\ Move(t, "push_test", "push_store")
  /\ UNCHANGED <<queue_, maxSize, mutex_, queueempty, queueFull, item, spurious>>

\* queue_.push(item); mlock.unlock()
PushStore(t) ==
  /\ Move(t, "push_store", "push_notify")
  /\ queue_' = Append(queue_, item[t])
  /\ mutex_' = NoThread
  /\ UNCHANGED <<maxSize, queueempty, queueFull, item, spurious>>

\* Slip: the notification is forgotten.
PushNotifyNobody(t) ==
  /\ Move(t, "push_notify", "out")
  /\ UNCHANGED <<queue_, maxSize, mutex_, queueempty, queueFull, item, spurious>>

PushNotify(t) ==
  /\ Move(t, "push_notify", "out")
  /\ queueempty' = {}
  /\ UNCHANGED <<queue_, maxSize, mutex_, queueFull, item, spurious>>

PushStep(t) ==
  PushLock(t) \/ PushWait(t) \/ PushEnter(t) \/ PushStore(t) \/ PushNotify(t)

-------------------------------------------------------------------------------
PopCall(t) ==
  /\ Move(t, "out", "pop_lock")
  /\ UNCHANGED <<queue_, maxSize, mutex_, queueempty, queueFull, item, spurious>>

PopLock(t) == Acquire(t, "pop_lock", "pop_test")

\* Slip: Pop sleeps on the other condition variable.
PopWaitOnFull(t) ==
  /\ queue_ = <<>>
  /\ Move(t, "pop_test", "pop_lock")
  /\ mutex_' = NoThread
  /\ queueFull' = queueFull \cup {t}
  /\ UNCHANGED <<queue_, maxSize, queueempty, item, spurious>>

PopWait(t) ==
  /\ queue_ = <<>>
  /\ Move(t, "pop_test", "pop_lock")
  /\ mutex_' = NoThread
  /\ queueempty' = queueempty \cup {t}
  /\ UNCHANGED <<queue_, maxSize, queueFull, item, spurious>>

\* Slip: front() is copied and pop() forgotten.
PopTakeCopy(t) ==
  /\ queue_ # <<>>
  /\ Move(t, "pop_test", "pop_notify")
  /\ item' = [item EXCEPT ![t] = Head(queue_)]
  /\ mutex_' = NoThread
  /\ UNCHANGED <<queue_, maxSize, queueempty, queueFull, spurious>>

\* Slip: a stack for a queue.
PopTakeNewest(t) ==
  /\ queue_ # <<>>
  /\ Move(t, "pop_test", "pop_notify")
  /\ item' = [item EXCEPT ![t] = queue_[Len(queue_)]]
  /\ queue_' = SubSeq(queue_, 1, Len(queue_) - 1)
  /\ mutex_' = NoThread
  /\ UNCHANGED <<maxSize, queueempty, queueFull, spurious>>

\* auto item = queue_.front(); queue_.pop(); mlock.unlock()
PopTake(t) ==
  /\ queue_ # <<>>
  /\ Move(t, "pop_test", "pop_notify")
  /\ item' = [item EXCEPT ![t] = Head(queue_)]
  /\ queue_' = Tail(queue_)
  /\ mutex_' = NoThread
  /\ UNCHANGED <<maxSize, queueempty, queueFull, spurious>>

\* Slip: the notification is forgotten.
PopNotifyNobody(t) ==
  /\ Move(t, "pop_notify", "out")
  /\ UNCHANGED <<queue_, maxSize, mutex_, queueempty, queueFull, item, spurious>>

PopNotify(t) ==
  /\ Move(t, "pop_notify", "out")
  /\ queueFull' = {}
  /\ UNCHANGED <<queue_, maxSize, mutex_, queueempty, item, spurious>>

PopStep(t) == PopLock(t) \/ PopWait(t) \/ PopTake(t) \/ PopNotify(t)

-------------------------------------------------------------------------------
\* A condition variable may wake a thread that nobody notified.
SpuriousWakeup(t) ==
  /\ t \in queueempty \cup queueFull
  /\ spurious < MaxSpurious
  /\ spurious' = spurious + 1
  /\ queueempty' = queueempty \ {t}
  /\ queueFull' = queueFull \ {t}
  /\ UNCHANGED <<queue_, maxSize, mutex_, qpc, item>>

\* MaxSize() = n: a reference handed out, assigned without the mutex.
SetMaxSize(n) ==
  /\ maxSize' = n
  /\ UNCHANGED <<queue_, mutex_, queueempty, queueFull, qpc, item, spurious>>

\* What t may see as "Size() = 0": while a Push modifies queue_ the read is a
\* data race on the deque's four pointers and may yield either answer.
SizeIsZero(t) ==
  IF \E p \in Threads \ {t} : qpc[p] = "push_store"
    THEN BOOLEAN
    ELSE {queue_ = <<>>}

QStep(t) == PushStep(t) \/ PopStep(t)

QCall(t) ==
  \/ t \in Producers /\ \E x \in Items : PushCall(t, x)
  \/ t \in Consumers /\ PopCall(t)

QNext ==
  \/ \E t \in Threads : QCall(t) \/ QStep(t) \/ SpuriousWakeup(t)
  \/ \E n \in MaxSizes : SetMaxSize(n)

QSpec == QInit /\ [][QNext]_qvars

\* Every thread keeps running and keeps calling; wakeups and resizing need not
\* happen, and nothing is assumed about which waiter gets the mutex.
QFairSpec == QSpec /\ \A t \in Threads : WF_qvars(QStep(t)) /\ WF_qvars(QCall(t))

-------------------------------------------------------------------------------
\* Type invariant of the queue's state.
QTypeOK ==
  /\ queue_ \in Seq(Items)
  /\ maxSize \in MaxSizes
  /\ mutex_ \in Threads \cup {NoThread}
  /\ queueempty \subseteq Consumers
  /\ queueFull \subseteq Producers
  /\ qpc \in [Threads -> Places]
  /\ \A p \in Producers : qpc[p] \notin {"pop_lock", "pop_test", "pop_notify"}
  /\ \A c \in Consumers : qpc[c] \in {"out", "pop_lock", "pop_test", "pop_notify"}
  /\ item \in [Threads -> Items \cup {NoItem}]
  /\ spurious \in 0..MaxSpurious

\* A Push that passed its test still finds room when it stores, however the
\* threads interleave: the queue never outgrows the largest bound it was given.
NeverOverfull ==
  /\ Len(queue_) <= Capacity
  /\ \A t \in Threads : qpc[t] = "push_store" => Len(queue_) < Capacity

\* No lost wakeup on queueempty: while a Pop sleeps and the queue holds an
\* item, some Push has yet to run its notify_all (sharedqueue_impl.hpp:37).
NoLostWakeupEmpty ==
  queueempty # {} /\ queue_ # <<>> => \E p \in Producers : qpc[p] = "push_notify"

\* No lost wakeup on queueFull: while a Push sleeps and the queue is empty,
\* some Pop has yet to run its notify_all (sharedqueue_impl.hpp:23), whatever
\* was done to maxSize meanwhile.
NoLostWakeupFull ==
  queueFull # {} /\ queue_ = <<>> => \E c \in Consumers : qpc[c] = "pop_notify"

\* sharedqueue.hpp:52-53: queueFull is there "to block a thread and later notify
\* other threads when queue is not full".  While a Push sleeps although the
\* queue is not full, some Pop has yet to run its notify_all.
NotFullIsNotified ==
  queueFull # {} /\ Len(queue_) < maxSize => \E c \in Consumers : qpc[c] = "pop_notify"

\* The queue keeps moving: items go in or come out again and again, whatever
\* the order in which threads get the mutex.
KeepsMoving == []<><<queue_' # queue_>>_qvars

\* SharedQueue is a linearizable first-in first-out channel: Push takes effect
\* at queue_.push, Pop at queue_.pop, each in the order the mutex was obtained.
CallOf(t) ==
  CASE qpc[t] = "out" -> "idle"
    [] qpc[t] \in {"push_lock", "push_test", "push_store"} -> "pushing"
    [] qpc[t] = "push_notify" -> "pushed"
    [] qpc[t] \in {"pop_lock", "pop_test"} -> "popping"
    [] qpc[t] = "pop_notify" -> "popped"

Fifo == INSTANCE BlockingFifo WITH
          contents <- queue_, call <- [t \in Threads |-> CallOf(t)], value <- item

FifoSpec == Fifo!Spec
===============================================================================
