------------------------------ MODULE FileWriter ------------------------------
(***************************************************************************)
(* include/filewriter/filewriter.hpp, filewriter_impl.hpp: one FileWriter, *)
(* its writer thread (WriteSummary), the thread that owns the object and   *)
(* the threads that log through CreateEvent.  The queue between them is    *)
(* SharedQueue, step for step.                                             *)
(*                                                                         *)
(* Time is kept as the seconds left until nexttime: time_t counts whole    *)
(* seconds, so an interval of m milliseconds lasts m \div 1000 seconds or  *)
(* one more, depending on where in a second it starts.                     *)
(***************************************************************************)
EXTENDS SharedQueue, SequencesExt

CONSTANTS Writer,            \* the thread that runs WriteSummary
          MaxEvents,         \* bound: calls of CreateEvent per producer
          FlushMilis,        \* the values FlushMilis() is set to
          MaxWait,           \* bound: the longest such interval, in seconds
          JoinBeforeClose    \* the program waits for its logging threads
                             \* before Close, as getting-started.md does

Fields == 4  \* writes per record: length, its CRC, the data, its CRC

Seconds(m) == {m \div 1000, (m + 999) \div 1000}

ASSUME WriterAssumption ==
  /\ Consumers = {Writer}
  /\ MaxEvents \in Nat
  /\ Items = Producers \X (1..MaxEvents)
  /\ FlushMilis # {} /\ FlushMilis \subseteq Nat /\ MaxWait \in Nat
  /\ \A m \in FlushMilis : Seconds(m) \subseteq 0..MaxWait
  /\ JoinBeforeClose \in BOOLEAN

VARIABLES close_,      \* TRUE while the writer thread has to go on
          flushmilis,
          nexttime,    \* seconds left until nexttime, 0 once it is past
          opc,         \* where the owner is in the object's life
          wpc,         \* where the writer is in WriteSummary
          calls,       \* calls[p]: events p has started to log
          stream,      \* outfile: "closed", "good" or "bad" (badbit, sticky)
          file,        \* the complete records in the event file
          torn,        \* fields of the next record that reached the file
          up,          \* FALSE once the process has exited
          sent         \* history: the events in the order they were pushed

ovars == <<close_, flushmilis, opc>>
dvars == <<stream, file, torn>>
vars == <<qvars, ovars, nexttime, wpc, calls, dvars, up, sent>>

Init ==
  /\ QInit
  /\ close_ = TRUE
  /\ flushmilis \in FlushMilis
  /\ nexttime \in 0..MaxWait      \* never initialised before set_nexttime
  /\ opc = "spawn" /\ wpc = "none"
  /\ calls = [p \in Producers |-> 0]
  /\ stream = "closed" /\ file = <<>> /\ torn = 0
  /\ up = TRUE
  /\ sent = <<>>

OwnerAt(from, to) == opc = from /\ opc' = to
WriterAt(from, to) == wpc = from /\ wpc' = to

Constructed == opc \notin {"spawn", "set_nexttime", "open"}

-------------------------------------------------------------------------------
\* The constructor: the writer runs before nexttime is set and outfile opened.
SpawnThread ==
  /\ OwnerAt("spawn", "set_nexttime")
  /\ wpc' = "check_close"
  /\ UNCHANGED <<qvars, close_, flushmilis, nexttime, calls, dvars, up, sent>>

\* Slip: the constructor leaves outfile unopened.
SetNexttimeNoOpen ==
  /\ OwnerAt("set_nexttime", "live")
  /\ nexttime' = 0
  /\ UNCHANGED <<qvars, close_, flushmilis, wpc, calls, dvars, up, sent>>

SetNexttime ==
  /\ OwnerAt("set_nexttime", "open")
  /\ nexttime' = 0
  /\ UNCHANGED <<qvars, close_, flushmilis, wpc, calls, dvars, up, sent>>

\* The result of open is not looked at: a missing directory leaves failbit set.
OpenFile ==
  /\ OwnerAt("open", "live")
  /\ stream' \in {"good", "bad"}
  /\ UNCHANGED <<qvars, close_, flushmilis, nexttime, wpc, calls, file, torn, up, sent>>

AllReturned == \A p \in Producers : qpc[p] = "out"

\* Slip: Close() does not clear close_ before it joins.
CloseCallKeepsFlag ==
  /\ OwnerAt("live", "join")
  /\ JoinBeforeClose => AllReturned
  /\ UNCHANGED <<qvars, close_, flushmilis, nexttime, wpc, calls, dvars, up, sent>>

\* Close(), or the destructor of an object that was not closed; no program
\* destroys an object that a thread is using.
CloseCall ==
  /\ \/ OwnerAt("live", "join") /\ (JoinBeforeClose => AllReturned)
     \/ OwnerAt("live", "dtor_join") /\ AllReturned
  /\ close_' = FALSE
  /\ UNCHANGED <<qvars, flushmilis, nexttime, wpc, calls, dvars, up, sent>>

\* Flush(), called by itself: joins a thread nobody told to stop.
FlushCall ==
  /\ OwnerAt("live", "flush_join")
  /\ UNCHANGED <<qvars, close_, flushmilis, nexttime, wpc, calls, dvars, up, sent>>

\* Slip: the owner detaches from the thread instead of waiting for it.
JoinNoWait ==
  /\ OwnerAt("join", "joined") \/ OwnerAt("flush_join", "joined")
     \/ OwnerAt("dtor_join", "destroyed")
  /\ UNCHANGED <<qvars, close_, flushmilis, nexttime, wpc, calls, dvars, up, sent>>

\* thread_->join() returns
Join ==
  /\ wpc = "exited"
  /\ OwnerAt("join", "joined") \/ OwnerAt("flush_join", "joined")
     \/ OwnerAt("dtor_join", "destroyed")
  /\ UNCHANGED <<qvars, close_, flushmilis, nexttime, wpc, calls, dvars, up, sent>>

\* A second Close or Flush: join() on a joined thread throws system_error.
JoinAgain ==
  /\ OwnerAt("joined", "raised")
  /\ close_' \in {close_, FALSE}
  /\ UNCHANGED <<qvars, flushmilis, nexttime, wpc, calls, dvars, up, sent>>

\* The destructor of a closed object does not join again.
Destroy ==
  /\ OwnerAt("joined", "destroyed") \/ OwnerAt("raised", "destroyed")
  /\ ~close_
  /\ AllReturned
  /\ UNCHANGED <<qvars, close_, flushmilis, nexttime, wpc, calls, dvars, up, sent>>

Set ==
  /\ Constructed /\ opc # "destroyed"
  /\ UNCHANGED <<close_, opc, nexttime, wpc, calls, dvars, up, sent>>
  /\ \/ UNCHANGED flushmilis /\ \E n \in MaxSizes : SetMaxSize(n)
     \/ UNCHANGED qvars /\ flushmilis' \in FlushMilis

Owner ==
  \/ SpawnThread \/ SetNexttime \/ OpenFile
  \/ CloseCall \/ FlushCall \/ Join \/ JoinAgain \/ Destroy \/ Set

-------------------------------------------------------------------------------
\* CreateEvent: p's n-th event, handed to Push.
CreateEvent(p) ==
  /\ IF JoinBeforeClose THEN opc \in {"live", "flush_join"}
                        ELSE Constructed /\ opc \notin {"dtor_join", "destroyed"}
  /\ calls[p] < MaxEvents
  /\ PushCall(p, <<p, calls[p] + 1>>)
  /\ calls' = [calls EXCEPT ![p] = @ + 1]
  /\ UNCHANGED <<ovars, nexttime, wpc, dvars, up, sent>>

PushGoesOn(p) ==
  /\ PushStep(p)
  /\ sent' = IF qpc[p] = "push_store" THEN Append(sent, item[p]) ELSE sent
  /\ UNCHANGED <<ovars, nexttime, wpc, calls, dvars, up>>

-------------------------------------------------------------------------------
\* WriteSummary.  !(close_ || q.Size() != 0): close_ is read first.
CheckClose ==
  /\ wpc = "check_close"
  /\ wpc' = IF close_ THEN "check_time" ELSE "check_size"
  /\ UNCHANGED <<qvars, ovars, nexttime, calls, dvars, up, sent>>

\* Slip: the thread stops as soon as it is told to.
CheckSizeNoDrain ==
  /\ WriterAt("check_size", "exited")
  /\ UNCHANGED <<qvars, ovars, nexttime, calls, dvars, up, sent>>

CheckSize ==
  /\ wpc = "check_size"
  /\ \E empty \in SizeIsZero(Writer) : wpc' = IF empty THEN "exited" ELSE "check_time"
  /\ UNCHANGED <<qvars, ovars, nexttime, calls, dvars, up, sent>>

\* timenow >= nexttime
CheckTime ==
  /\ wpc = "check_time"
  /\ wpc' = IF nexttime = 0 THEN "drain" ELSE "check_close"
  /\ UNCHANGED <<qvars, ovars, nexttime, calls, dvars, up, sent>>

\* Slip: Pop is called before Size() is looked at, as in a do-while.
DrainPopUntested ==
  /\ WriterAt("drain", "pop")
  /\ PopCall(Writer)
  /\ UNCHANGED <<ovars, nexttime, calls, dvars, up, sent>>

\* while (q.Size() > 0): Pop, or the end of the batch.
DrainPop ==
  /\ WriterAt("drain", "pop")
  /\ FALSE \in SizeIsZero(Writer)
  /\ PopCall(Writer)
  /\ UNCHANGED <<ovars, nexttime, calls, dvars, up, sent>>

\* Slip: the interval is added as seconds.
DrainEndSeconds ==
  /\ WriterAt("drain", "check_close")
  /\ TRUE \in SizeIsZero(Writer)
  /\ nexttime' = flushmilis
  /\ UNCHANGED <<qvars, ovars, calls, dvars, up, sent>>

\* Slip: the break leaves the outer loop too.
DrainEndBreaks ==
  /\ WriterAt("drain", "exited")
  /\ TRUE \in SizeIsZero(Writer)
  /\ nexttime' \in Seconds(flushmilis)
  /\ UNCHANGED <<qvars, ovars, calls, dvars, up, sent>>

DrainEnd ==
  /\ WriterAt("drain", "check_close")
  /\ TRUE \in SizeIsZero(Writer)
  /\ nexttime' \in Seconds(flushmilis)
  /\ UNCHANGED <<qvars, ovars, calls, dvars, up, sent>>

PopGoesOn ==
  /\ wpc = "pop"
  /\ PopStep(Writer)
  /\ wpc' = IF qpc[Writer] = "pop_notify" THEN "write" ELSE "pop"
  /\ UNCHANGED <<ovars, nexttime, calls, dvars, up, sent>>

\* The four writes go to the stream's buffer, which spills to the file any
\* number of fields early; on a bad stream they do nothing.
WriteRecord ==
  /\ WriterAt("write", "flush")
  /\ \/ stream = "good" /\ stream' = "good" /\ torn' \in 0..Fields
     \/ stream = "good" /\ stream' = "bad" /\ torn' \in 0..(Fields - 1)
     \/ stream # "good" /\ UNCHANGED <<stream, torn>>
  /\ UNCHANGED <<qvars, ovars, nexttime, calls, file, up, sent>>

\* Slip: a failed record is dropped and the stream's state cleared.
FlushRecordClears ==
  /\ WriterAt("flush", "drain")
  /\ \/ /\ stream = "good"
        /\ file' \in {Append(file, item[Writer]), file}
        /\ torn' = 0
        /\ UNCHANGED stream
     \/ stream # "good" /\ UNCHANGED dvars
  /\ UNCHANGED <<qvars, ovars, nexttime, calls, up, sent>>

FlushRecord ==
  /\ WriterAt("flush", "drain")
  /\ \/ /\ stream = "good"
        /\ file' = Append(file, item[Writer])
        /\ torn' = 0
        /\ UNCHANGED stream
     \/ /\ stream = "good" /\ torn < Fields
        /\ stream' = "bad"
        /\ torn' \in torn..(Fields - 1)
        /\ UNCHANGED file
     \/ stream # "good" /\ UNCHANGED dvars
  /\ UNCHANGED <<qvars, ovars, nexttime, calls, up, sent>>

WriteSummary ==
  \/ CheckClose \/ CheckSize \/ CheckTime \/ DrainPop \/ DrainEnd
  \/ PopGoesOn \/ WriteRecord \/ FlushRecord

-------------------------------------------------------------------------------
\* The environment: the clock, spurious wakeups, the end of the process.
Tick ==
  /\ nexttime > 0
  /\ nexttime' = nexttime - 1
  /\ UNCHANGED <<qvars, ovars, wpc, calls, dvars, up, sent>>

Wakeup ==
  /\ \E t \in Threads : SpuriousWakeup(t)
  /\ UNCHANGED <<ovars, nexttime, wpc, calls, dvars, up, sent>>

\* main returns, or the process is killed, with the writer thread running.
ProcessExit ==
  /\ up' = FALSE
  /\ UNCHANGED <<qvars, ovars, nexttime, wpc, calls, dvars, sent>>

Next ==
  /\ up
  /\ \/ Owner
     \/ \E p \in Producers : CreateEvent(p) \/ PushGoesOn(p)
     \/ WriteSummary
     \/ Tick \/ Wakeup \/ ProcessExit

Spec == Init /\ [][Next]_vars

\* Threads that can run do run, and the clock advances.  Nobody has to call
\* Close, log, resize or exit.
Fairness ==
  /\ WF_vars(up /\ (SpawnThread \/ SetNexttime \/ OpenFile \/ Join))
  /\ \A p \in Producers : WF_vars(up /\ PushGoesOn(p))
  /\ WF_vars(up /\ WriteSummary)
  /\ WF_vars(up /\ Tick)

FairSpec == Spec /\ Fairness

-------------------------------------------------------------------------------
OwnerPlaces == {"spawn", "set_nexttime", "open", "live", "join", "dtor_join",
                "flush_join", "joined", "raised", "destroyed"}

WriterPlaces == {"none", "check_close", "check_size", "check_time", "drain",
                 "pop", "write", "flush", "exited"}

\* Type invariant of the writer's state.
TypeOK ==
  /\ close_ \in BOOLEAN
  /\ flushmilis \in FlushMilis
  /\ nexttime \in 0..MaxWait
  /\ opc \in OwnerPlaces
  /\ wpc \in WriterPlaces
  /\ calls \in [Producers -> 0..MaxEvents]
  /\ stream \in {"closed", "good", "bad"}
  /\ file \in Seq(Items)
  /\ torn \in 0..Fields
  /\ up \in BOOLEAN
  /\ sent \in Seq(Items)

\* The event Pop took out of the queue and WriteSummary has not written yet.
Hand == IF qpc[Writer] = "pop_notify" \/ wpc \in {"write", "flush"}
          THEN <<item[Writer]>> ELSE <<>>

\* What a reader of the event file can decode, the last record included when
\* all of it was spilled before flush().
Decodable == file \o (IF torn = Fields THEN <<item[Writer]>> ELSE <<>>)

\* Every event pushed is in exactly one place, in the order of the pushes: in
\* the file, in WriteSummary's hands or in the queue, until writing fails.
Accounting == stream # "bad" => sent = file \o Hand \o queue_

\* At any instant, a full disk or the end of the process included, a reader
\* decodes a prefix of the events: none is missing, repeated or overtaken.
ReadablePrefix == IsPrefix(Decodable, sent)

\* A producer's events reach the reader in the order it logged them, each once:
\* ahead of its n-th are its first n - 1 and no others of its.
Earlier(s, i) == {s[j][2] : j \in {k \in 1..(i - 1) : s[k][1] = s[i][1]}}

ProducerOrder ==
  \A i \in DOMAIN Decodable : Earlier(Decodable, i) = 1..(Decodable[i][2] - 1)

\* WriteSummary looks at Size() without the mutex and then calls Pop
\* (filewriter_impl.hpp:50-52): nobody empties the queue in between, so Pop
\* does not wait, and Close cannot hang on it.
PopNeverWaits ==
  /\ Writer \notin queueempty
  /\ qpc[Writer] = "pop_test" => queue_ # <<>>

\* The writer thread is started before outfile is opened (filewriter_impl.hpp
\* :32-35): no event is taken from the queue until the stream has been opened.
NoWriteBeforeOpen == stream = "closed" => wpc # "pop" /\ sent = <<>>

\* Once Close or the destructor is through, every event of a program that
\* joined its logging threads first is in the file, unless writing failed.
CloseDrains ==
  JoinBeforeClose /\ opc \in {"joined", "raised", "destroyed"} =>
    /\ wpc = "exited"
    /\ queue_ = <<>>
    /\ stream = "good" => file = sent

\* Close and the destructor return, however full the queue was.
CloseReturns ==
  opc \in {"join", "dtor_join"} ~> opc \in {"joined", "destroyed"} \/ ~up

\* A call that logs an event returns, however small the queue is.
PushReturns == \A p \in Producers : (qpc[p] # "out") ~> (qpc[p] = "out" \/ ~up)

\* filewriter.hpp:57: "A function to flush everything successfully and close
\* the thread": Flush comes back.
FlushReturns == opc = "flush_join" ~> opc = "joined" \/ ~up

\* With its logging threads joined before Close, a FileWriter is the log that
\* EventLog describes.
Log == INSTANCE EventLog WITH
         Events <- Items, logged <- sent, durable <- file,
         failed <- stream = "bad" \/ ~up,
         closed <- opc \in {"joined", "raised", "destroyed"}

LogSpec == Log!Spec

\* While the writer runs, every event logged is eventually in the file.
EventuallyWritten == Log!Liveness
===============================================================================
