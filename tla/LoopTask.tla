------------------------------ MODULE LoopTask ------------------------------
(***************************************************************************)
(* QMI_LoopTask.run (qmi/core/task.py): iterations at a fixed period, and  *)
(* the policies for a loop whose iteration took too long.                  *)
(*                                                                         *)
(* Time is an integer.  It passes while the task works or sleeps; a thread *)
(* that sleeps wakes up at most Jitter late.  What the task does between   *)
(* two readings of the clock, settings and signals included, is work.      *)
(***************************************************************************)
EXTENDS Integers

CONSTANTS Period,     \* values of loop_period
          Jitter,     \* a sleep ends at most this late
          MaxTime     \* bound: time at which the clock stops

ASSUME PeriodAssumption == Period \subseteq Nat \ {0}
ASSUME JitterAssumption == Jitter \in Nat /\ \A p \in Period : Jitter < p
ASSUME MaxTimeAssumption == MaxTime \in Nat

\* QMI_LoopTaskMissedLoopPolicy
Policy == {"IMMEDIATE", "SKIP", "TERMINATE"}

Never == -1

VARIABLES
  pc,            \* where run() is
  now,           \* time.monotonic()
  next,          \* next_time, the deadline of the current iteration
  stopRequested, \* QMI_Task._stop_requested
  policy,        \* QMI_LoopTask._policy
  period,        \* QMI_LoopTask._loop_period
  (* history *)
  first,         \* the first deadline
  started,       \* time at which the current iteration started
  missedAt       \* time at which the last iteration was found to have overrun

config  == <<policy, period>>
history == <<first, started, missedAt>>
loopVars == <<pc, now, next, stopRequested, config, history>>

LoopInit ==
  /\ policy \in Policy
  /\ period \in Period
  /\ pc = "prepare"
  /\ now = 0
  /\ next = 0
  /\ stopRequested = FALSE
  /\ first = 0
  /\ started = Never
  /\ missedAt = Never

\* QMI_TaskRunner.stop(), by a client
Stop ==
  /\ stopRequested' = TRUE
  /\ UNCHANGED <<pc, now, next, config, history>>

Tick ==
  /\ now < MaxTime
  /\ pc \in {"prepare", "work"} \/ (pc = "asleep" /\ now < next + Jitter)
  /\ now' = now + 1
  /\ UNCHANGED <<pc, next, stopRequested, config, history>>

\* loop_prepare() returns or raises.
Prepare ==
  /\ pc = "prepare"
  /\ next' = now + period
  /\ first' = now + period
  /\ pc' \in {"top", "ended"}
  /\ UNCHANGED <<now, stopRequested, config, started, missedAt>>

\* The condition of the while loop.
StartIteration ==
  /\ pc = "top"
  /\ ~stopRequested
  /\ pc' = "work"
  /\ started' = now
  /\ UNCHANGED <<now, next, stopRequested, config, first, missedAt>>

LeaveLoop ==
  /\ pc = "top"
  /\ stopRequested
  /\ pc' = "finalize"
  /\ UNCHANGED <<now, next, stopRequested, config, history>>

\* An iteration that ends in time is followed by sleep().
EndInTime ==
  /\ pc = "work"
  /\ next > now
  /\ pc' = "asleep"
  /\ missedAt' = Never
  /\ UNCHANGED <<now, next, stopRequested, config, first, started>>

Missed ==
  /\ pc = "work"
  /\ next <= now
  /\ pc' = "top"
  /\ missedAt' = now
  /\ UNCHANGED <<now, config, first, started>>

\* Mutant of MissedImmediate: the schedule is kept.
MissedImmediate_KeepsSchedule ==
  /\ policy = "IMMEDIATE"
  /\ Missed
  /\ next' = next + period
  /\ UNCHANGED stopRequested

MissedImmediate ==
  /\ policy = "IMMEDIATE"
  /\ Missed
  /\ next' = now + period
  /\ UNCHANGED stopRequested

\* Mutant of Skipped: the current time as start.
Skipped_FromNow(late) == late + period

\* int((loop_period - time_to_sleep) / loop_period) periods, where
\* time_to_sleep = -late
Skipped(late) == period * ((period + late) \div period)

MissedSkip ==
  /\ policy = "SKIP"
  /\ Missed
  /\ next' = next + Skipped(now - next)
  /\ UNCHANGED stopRequested

\* Mutant of MissedTerminate: the stop is forgotten.
MissedTerminate_GoesOn ==
  /\ policy = "TERMINATE"
  /\ Missed
  /\ UNCHANGED <<next, stopRequested>>

\* The task stops itself through its task runner.
MissedTerminate ==
  /\ policy = "TERMINATE"
  /\ Missed
  /\ stopRequested' = TRUE
  /\ UNCHANGED next

SleepEnds ==
  /\ pc = "asleep"
  /\ ~stopRequested
  /\ now >= next
  /\ next' = next + period
  /\ pc' = "top"
  /\ UNCHANGED <<now, stopRequested, config, history>>

\* sleep() raises QMI_TaskStopException.
Interrupt ==
  /\ pc = "asleep"
  /\ stopRequested
  /\ pc' = "finalize"
  /\ UNCHANGED <<now, next, stopRequested, config, history>>

\* An exception in the iteration is raised again after loop_finalize().
IterationFails ==
  /\ pc = "work"
  /\ pc' = "finalize"
  /\ UNCHANGED <<now, next, stopRequested, config, history>>

Finalize ==
  /\ pc = "finalize"
  /\ pc' = "ended"
  /\ UNCHANGED <<now, next, stopRequested, config, history>>

EndIteration == EndInTime \/ MissedImmediate \/ MissedSkip \/ MissedTerminate

Run ==
  \/ Prepare \/ StartIteration \/ LeaveLoop \/ EndIteration
  \/ SleepEnds \/ Interrupt \/ Finalize

LoopNext == Stop \/ Tick \/ Run \/ IterationFails

LoopSpec == LoopInit /\ [][LoopNext]_loopVars

-----------------------------------------------------------------------------
(* Properties *)

\* Type invariant.
LoopTypeOK ==
  /\ pc \in {"prepare", "top", "work", "asleep", "finalize", "ended"}
  /\ now \in Nat /\ next \in Nat /\ first \in Nat
  /\ stopRequested \in BOOLEAN
  /\ policy \in Policy /\ period \in Period
  /\ started \in Nat \cup {Never} /\ missedAt \in Nat \cup {Never}

\* Whatever happened before, an iteration starts before its own deadline: the
\* policies move the deadline past a loop that was missed, however long ago
\* that was, or let no further iteration start.
StartsInTime == [][StartIteration => now < next]_loopVars

\* Slot 0 starts at the first deadline and each slot lasts one period.
Slot(t) == (t - first) \div period
OnSchedule(t) == (t - first) % period = 0

\* Policies SKIP and TERMINATE keep the phase of the schedule, and the next
\* deadline is never more than one period ahead, however late a loop was.
PhaseIsKept ==
  (policy # "IMMEDIATE" /\ pc # "prepare") => OnSchedule(next) /\ next <= now + period

\* IMMEDIATE: iterations do not come in bursts to catch up with the schedule:
\* from one start to the next takes a period, but for a late wake-up.
NoBurst ==
  [][(StartIteration /\ policy = "IMMEDIATE" /\ started # Never)
        => now - started >= period - Jitter]_loopVars

\* "Skip actions and try again at the next period" (task.py, policy SKIP): after
\* an iteration that overran, the next one starts on the schedule.
SkipWaitsForPeriod ==
  [][(StartIteration /\ policy = "SKIP" /\ missedAt # Never)
        => OnSchedule(now) \/ Slot(now) > Slot(missedAt)]_loopVars
=============================================================================
