------------------------------- MODULE EventLog -------------------------------
(***************************************************************************)
(* What a FileWriter promises the program that logs to it and the reader   *)
(* of the event file: the file grows by the logged events, one complete    *)
(* record after another, in the order they were logged, without a hole or  *)
(* a repetition; the log is closed only when every event is in the file or *)
(* writing has failed for good.                                            *)
(***************************************************************************)
EXTENDS Naturals, Sequences

CONSTANT Events

VARIABLES logged,   \* the events accepted so far
          durable,  \* the complete records of the event file
          failed,   \* the file system, or the process, is gone
          closed    \* the writer has been joined

logVars == <<logged, durable, failed, closed>>

Init ==
  /\ logged = <<>> /\ durable = <<>>
  /\ failed = FALSE /\ closed = FALSE

Log(e) ==
  /\ ~closed
  /\ logged' = Append(logged, e)
  /\ UNCHANGED <<durable, failed, closed>>

Persist ==
  /\ ~closed /\ ~failed
  /\ Len(durable) < Len(logged)
  /\ durable' = Append(durable, logged[Len(durable) + 1])
  /\ UNCHANGED <<logged, failed, closed>>

Fail ==
  /\ failed' = TRUE
  /\ UNCHANGED <<logged, durable, closed>>

Close ==
  /\ failed \/ durable = logged
  /\ closed' = TRUE
  /\ UNCHANGED <<logged, durable, failed>>

Next == (\E e \in Events : Log(e)) \/ Persist \/ Fail \/ Close

Spec == Init /\ [][Next]_logVars

\* What is logged is eventually in the file.
Liveness == WF_logVars(Persist)
===============================================================================
