------------------------------- MODULE FlushTimer ------------------------------
(***************************************************************************)
(* The pacing of FileWriter::WriteSummary, in time smaller than the whole  *)
(* seconds of a time_t.  The system clock ticks Second times in a second;  *)
(* the writer compares whole seconds, and computes nexttime by cutting the *)
(* sum of the time and the interval to whole seconds.  The system clock    *)
(* may be set back, elapsed time goes on.                                  *)
(*                                                                         *)
(* Absolute time is left out: phase is where in its second the clock is,   *)
(* lead how many seconds nexttime is ahead of it, -1 for any time past.     *)
(***************************************************************************)
EXTENDS Integers

CONSTANTS Second,      \* ticks in a second
          Intervals,   \* values of flushmilis, in ticks
          MaxQueue,    \* the queue's maximum size
          MaxBack,     \* bound: seconds the clock is set back in all
          MaxMissed    \* bound: ticks the writer is not scheduled when due

\* flushmilis is an int, so its values are bounded.
ASSUME TimerAssumption ==
  /\ Second \in Nat \ {0} /\ Intervals \subseteq Nat
  /\ \E m \in Intervals : \A n \in Intervals : n <= m
  /\ MaxQueue \in Nat \ {0} /\ MaxBack \in Nat /\ MaxMissed \in Nat

VARIABLES phase, lead,   \* the clock, and nexttime from there
          interval,      \* flushmilis, which the program may change
          draining,      \* in the inner loop of WriteSummary
          queue,         \* events in the queue
          asked,         \* history: the interval nexttime was computed with
          since,         \* history: ticks since then
          back,          \* history: seconds the clock was set back since then
          missed,        \* history: ticks the writer has missed since then
          set            \* seconds the clock was set back in all

\* since stops here: longer waits are all alike.
Longest == Second * MaxBack + MaxMissed + 1
           + (CHOOSE m \in Intervals : \A n \in Intervals : n <= m)

clock == <<phase, lead>>
timerVars == <<clock, interval, draining, queue, asked, since, back, missed, set>>

\* The constructor sets nexttime to the time at which it runs.
TInit ==
  /\ phase \in 0..(Second - 1) /\ lead = 0 /\ interval \in Intervals
  /\ draining = FALSE /\ queue = 0
  /\ asked = 0 /\ since = 0 /\ back = 0 /\ missed = 0 /\ set = 0

-------------------------------------------------------------------------------
\* timenow >= nexttime.

\* Slip: timenow == nexttime.
DueExactly == lead = 0

Due == lead <= 0

\* Slip: a second is added for the part that is cut.
LeadAfterCeiling(wait) == wait \div Second + 1

\* The seconds to nexttime, as to_time_t cuts the sum.
LeadAfter(wait) == (phase + wait) \div Second

\* A tick, or the clock is set back by a second.  The writer loops without a
\* pause: it looks at the clock in every tick in which its thread is scheduled.
Polled == draining \/ ~Due

Advance ==
  /\ phase' = (phase + 1) % Second
  /\ lead' = IF phase + 1 = Second /\ lead >= 0 THEN lead - 1 ELSE lead

ClockTick ==
  /\ IF Polled THEN UNCHANGED missed ELSE missed < MaxMissed /\ missed' = missed + 1
  /\ draining => queue > 0
  /\ Advance /\ since' = IF draining \/ since = Longest THEN since ELSE since + 1
  /\ UNCHANGED <<interval, draining, queue, asked, back, set>>

SetBack ==
  /\ set < MaxBack /\ set' = set + 1
  /\ IF lead < 0 THEN lead' \in {-1, 0} ELSE lead' = lead + 1
  /\ back' = back + 1
  /\ UNCHANGED <<phase, interval, draining, queue, asked, since, missed>>

Push == queue < MaxQueue /\ queue' = queue + 1
        /\ UNCHANGED <<clock, interval, draining, asked, since, back, missed, set>>

SetInterval == interval' \in Intervals
              /\ UNCHANGED <<clock, draining, queue, asked, since, back, missed, set>>

Poll ==
  /\ ~draining /\ Due /\ draining' = TRUE
  /\ UNCHANGED <<clock, interval, queue, asked, since, back, missed, set>>

Pop ==
  /\ draining /\ queue > 0 /\ queue' = queue - 1
  /\ UNCHANGED <<clock, interval, draining, asked, since, back, missed, set>>

RoundEnd ==
  /\ draining /\ queue = 0 /\ draining' = FALSE
  /\ lead' = LeadAfter(interval)
  /\ asked' = interval /\ since' = 0 /\ back' = 0 /\ missed' = 0
  /\ UNCHANGED <<phase, interval, queue, set>>

TNext == ClockTick \/ SetBack \/ Push \/ SetInterval \/ Poll \/ Pop \/ RoundEnd

\* Time passes, and the writer's thread runs: it pops and ends its rounds.
TSpec ==
  /\ TInit /\ [][TNext]_timerVars
  /\ WF_timerVars(ClockTick) /\ WF_timerVars(Poll) /\ WF_timerVars(Pop) /\ WF_timerVars(RoundEnd)

-------------------------------------------------------------------------------
\* WriteSummary's rounding: a round begins less than a second before the
\* interval is over, if at all; setting the clock back never makes it earlier.
NotTooSoon == draining => since > asked - Second

\* A round is overdue by no more than what the clock has been set back and
\* by what its thread was not scheduled: the rounding never adds a second.
NotTooLate == ~draining => since <= asked + Second * back + missed

\* WriteSummary's pacing: each round begins when the interval it was to wait
\* for is over, to within the second that time_t leaves it.
Paced == NotTooSoon /\ NotTooLate

\* However often the interval is changed and the clock set back, a full queue
\* gets room again: no stall of the writer lasts for ever.
RoomAgain == queue = MaxQueue ~> queue < MaxQueue
===============================================================================
