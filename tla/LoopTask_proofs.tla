--------------------------- MODULE LoopTask_proofs ---------------------------
(***************************************************************************)
(* Proofs that an iteration of a QMI_LoopTask starts before its deadline   *)
(* and that the schedule keeps its phase, for any period, any policy and   *)
(* any delay.                                                              *)
(***************************************************************************)
EXTENDS LoopTask, TLAPS

\* Integer division, as used by policy SKIP.
LEMMA DivBound ==
  ASSUME NEW p \in Nat \ {0}, NEW x \in Nat
  PROVE  /\ x \div p \in Nat
         /\ p * (x \div p) \in Nat
         /\ x < p * (x \div p) + p
         /\ p * (x \div p) <= x
  OBVIOUS

\* The periods that are skipped are more than the delay.
LEMMA SkippedBound ==
  ASSUME period \in Nat \ {0}, NEW late \in Nat
  PROVE  Skipped(late) \in Nat /\ Skipped(late) > late
<1>1. period + late \in Nat
  OBVIOUS
<1>2. /\ period * ((period + late) \div period) \in Nat
      /\ period + late < period * ((period + late) \div period) + period
  BY <1>1, DivBound
<1> QED BY <1>2 DEF Skipped
-----------------------------------------------------------------------------
(* Remainders: a multiple of the period does not change the phase *)

LEMMA DivMod ==
  ASSUME NEW p \in Nat \ {0}, NEW x \in Int
  PROVE  x \div p \in Int /\ x % p \in 0 .. p - 1 /\ x = (p * (x \div p)) + (x % p)
  OBVIOUS

LEMMA SmallMultiple ==
  ASSUME NEW p \in Nat \ {0}, NEW m \in Int, p * m >= 0, p * m < p
  PROVE  m = 0
<1>1. ASSUME m >= 1 PROVE p * m >= p
  BY <1>1
<1>2. ASSUME m <= -1 PROVE p * m < 0
  BY <1>2
<1> QED BY <1>1, <1>2

LEMMA Multiples ==
  ASSUME NEW p \in Int, NEW a \in Int, NEW b \in Int, NEW c \in Int
  PROVE  /\ p * (a + b - c) = p * a + p * b - p * c
         /\ p * (a + b - c) \in Int
  OBVIOUS

LEMMA PhaseOfMultiple ==
  ASSUME NEW p \in Nat \ {0}, NEW x \in Int, NEW k \in Int, x % p = 0
  PROVE  (x + p * k) % p = 0
<1>1. PICK q \in Int : q = x \div p
  BY DivMod
<1>2. x = p * q
  BY <1>1, DivMod
<1>3. PICK y \in Int : y = x + p * k
  OBVIOUS
<1>4. PICK d \in Int : d = y \div p
  BY DivMod
<1>5. PICK r \in 0 .. p - 1 : r = y % p
  BY DivMod
<1>6. y = (p * d) + r
  BY <1>4, <1>5, DivMod
<1>7. r = p * q + p * k - p * d
  BY <1>2, <1>3, <1>6
<1>8. PICK m \in Int : m = q + k - d
  OBVIOUS
<1>9. p * m = r
  BY <1>7, <1>8, Multiples
<1>10. m = 0
  BY <1>9, SmallMultiple
<1>11. r = 0
  BY <1>9, <1>10
<1> QED BY <1>3, <1>5, <1>11

\* A deadline moved by whole periods is on the schedule.
LEMMA StaysOnSchedule ==
  ASSUME period \in Nat \ {0}, next \in Nat, first \in Nat, OnSchedule(next),
         first' = first, period' = period, NEW k \in Nat, next' = next + period * k
  PROVE  OnSchedule(next)'
<1>1. next - first \in Int /\ (next - first) % period = 0
  BY DEF OnSchedule
<1>2. (next - first + period * k) % period = 0
  <2>1. PICK p \in Nat \ {0} : p = period
    OBVIOUS
  <2>2. PICK x \in Int : x = next - first
    BY <1>1
  <2>3. x % p = 0
    BY <1>1, <2>1, <2>2
  <2>4. (x + p * k) % p = 0
    <3>1. k \in Int
      OBVIOUS
    <3> QED BY <2>1, <2>2, <2>3, <3>1, PhaseOfMultiple, Zenon
  <2> QED BY <2>1, <2>2, <2>4
<1>3. next' - first' = next - first + period * k
  OBVIOUS
<1>4. (next' - first') % period' = 0
  BY <1>2, <1>3
<1> QED BY <1>4 DEF OnSchedule
-----------------------------------------------------------------------------
(* The inductive invariant *)

\* A loop that goes on has its deadline ahead, and a sleep does not end late.
DeadlineInv ==
  /\ pc = "top" /\ ~stopRequested => now < next
  /\ pc = "asleep" => now <= next + Jitter

\* Policy IMMEDIATE: the deadline is about a period after the start.
PaceInv ==
  policy = "IMMEDIATE" =>
    /\ pc = "prepare" => started = Never
    /\ pc = "top" => next >= now + period - Jitter
    /\ pc = "top" /\ started # Never => now - started >= period - Jitter
    /\ pc \in {"work", "asleep"} => started # Never /\ next >= started + period - Jitter

LoopInv == LoopTypeOK /\ DeadlineInv /\ PaceInv

LEMMA LoopInvInit == LoopInit => LoopInv
<1> SUFFICES ASSUME LoopInit PROVE LoopInv
  OBVIOUS
<1>1. stopRequested \in BOOLEAN
  BY DEF LoopInit
<1> QED BY <1>1 DEF LoopInit, LoopInv, LoopTypeOK, DeadlineInv, PaceInv, Never

LEMMA LoopStep == LoopInv /\ [LoopNext]_loopVars => LoopInv'
<1> SUFFICES ASSUME LoopInv, [LoopNext]_loopVars PROVE LoopInv'
  OBVIOUS
<1>1. LoopTypeOK /\ DeadlineInv /\ PaceInv
  BY DEF LoopInv
<1>2. period \in Nat \ {0} /\ Jitter \in Nat /\ Jitter < period
  BY <1>1, PeriodAssumption, JitterAssumption DEF LoopTypeOK
<1> USE DEF LoopInv, LoopTypeOK, DeadlineInv, PaceInv, Never, config, history
<1>3. CASE Stop
  BY <1>1, <1>3 DEF Stop
<1>4. CASE Tick
  BY <1>1, <1>2, <1>4 DEF Tick
<1>5. CASE Prepare
  BY <1>1, <1>2, <1>5 DEF Prepare
<1>6. CASE StartIteration \/ LeaveLoop \/ EndInTime
  BY <1>1, <1>2, <1>6 DEF StartIteration, LeaveLoop, EndInTime
<1>7. CASE MissedImmediate
  BY <1>1, <1>2, <1>7 DEF MissedImmediate, Missed
<1>8. CASE MissedSkip
  <2>1. now - next \in Nat
    BY <1>1, <1>8 DEF MissedSkip, Missed
  <2>2. Skipped(now - next) \in Nat /\ Skipped(now - next) > now - next
    BY <1>2, <2>1, SkippedBound
  <2>3. next' \in Nat /\ next' > now
    BY <1>1, <1>8, <2>1, <2>2 DEF MissedSkip
  <2> QED BY <1>1, <1>8, <2>3 DEF MissedSkip, Missed
<1>9. CASE MissedTerminate
  BY <1>1, <1>9 DEF MissedTerminate, Missed
<1>10. CASE SleepEnds
  BY <1>1, <1>2, <1>10 DEF SleepEnds
<1>11. CASE Interrupt \/ IterationFails \/ Finalize
  BY <1>1, <1>11 DEF Interrupt, IterationFails, Finalize
<1>12. CASE UNCHANGED loopVars
  BY <1>1, <1>12 DEF loopVars
<1> QED
  BY <1>3, <1>4, <1>5, <1>6, <1>7, <1>8, <1>9, <1>10, <1>11, <1>12 DEF LoopNext, Run, EndIteration

LEMMA LoopAlways == LoopSpec => []LoopInv
  BY LoopInvInit, LoopStep, PTL DEF LoopSpec

\* Whatever the policy, no iteration starts after its deadline.
THEOREM IterationsStartInTime == LoopSpec => StartsInTime
<1>1. LoopInv /\ [LoopNext]_loopVars => [StartIteration => now < next]_loopVars
  BY DEF LoopInv, DeadlineInv, StartIteration
<1> QED BY <1>1, LoopAlways, PTL DEF LoopSpec, StartsInTime

\* Policy IMMEDIATE spaces the iterations by a period.
THEOREM IterationsArePaced == LoopSpec => NoBurst
<1>1. LoopInv /\ [LoopNext]_loopVars =>
        [(StartIteration /\ policy = "IMMEDIATE" /\ started # Never)
            => now - started >= period - Jitter]_loopVars
  BY DEF LoopInv, PaceInv, StartIteration
<1> QED BY <1>1, LoopAlways, PTL DEF LoopSpec, NoBurst

\* Policy SKIP moves the deadline by whole periods, and not too far.
LEMMA SkippedWhole ==
  ASSUME period \in Nat \ {0}, NEW late \in Nat
  PROVE  Skipped(late) <= period + late /\ \E k \in Nat : Skipped(late) = period * k
<1>1. period + late \in Nat
  OBVIOUS
<1>2. /\ (period + late) \div period \in Nat
      /\ period * ((period + late) \div period) <= period + late
  BY <1>1, DivBound
<1> QED BY <1>2 DEF Skipped

LEMMA PhaseStep == LoopInv /\ PhaseIsKept /\ [LoopNext]_loopVars => PhaseIsKept'
<1> SUFFICES ASSUME LoopInv, PhaseIsKept, [LoopNext]_loopVars, policy' # "IMMEDIATE", pc' # "prepare"
             PROVE  OnSchedule(next)' /\ next' <= now' + period'
  BY DEF PhaseIsKept
<1>1. /\ pc \in {"prepare", "top", "work", "asleep", "finalize", "ended"}
      /\ now \in Nat /\ next \in Nat /\ first \in Nat
      /\ period \in Nat \ {0}
  BY PeriodAssumption DEF LoopInv, LoopTypeOK
<1>2. CASE Prepare
  <2>1. first' = now + period /\ next' = first' /\ now' = now /\ period' = period
    BY <1>2 DEF Prepare, config
  <2>2. 0 % period = 0
    BY <1>1
  <2>3. (next' - first') % period' = 0
    <3>1. next' - first' = 0
      BY <1>1, <2>1
    <3> QED BY <2>1, <2>2, <3>1
  <2> QED BY <1>1, <2>1, <2>3 DEF OnSchedule
<1>3. ASSUME ~Prepare PROVE UNCHANGED <<period, policy, first>> /\ pc # "prepare"
  <2>1. CASE Stop \/ Tick \/ LeaveLoop \/ Interrupt \/ IterationFails \/ Finalize \/ UNCHANGED loopVars
    BY <2>1 DEF Stop, Tick, LeaveLoop, Interrupt, IterationFails, Finalize, loopVars, config, history
  <2>2. CASE StartIteration \/ EndInTime \/ SleepEnds
    BY <2>2 DEF StartIteration, EndInTime, SleepEnds, config, history
  <2>3. CASE MissedImmediate \/ MissedSkip \/ MissedTerminate
    BY <2>3 DEF MissedImmediate, MissedSkip, MissedTerminate, Missed, config
  <2> QED BY <1>3, <2>1, <2>2, <2>3 DEF LoopNext, Run, EndIteration
<1>4. ASSUME ~Prepare PROVE OnSchedule(next) /\ next <= now + period
  BY <1>3, <1>4 DEF PhaseIsKept
<1>5. CASE MissedSkip
  <2>1. ~Prepare /\ now - next \in Nat /\ now' = now /\ next' = next + Skipped(now - next)
    BY <1>1, <1>5 DEF MissedSkip, Missed, Prepare
  <2>2. PICK late \in Nat : late = now - next
    BY <2>1
  <2>3. PICK k \in Nat : Skipped(late) = period * k /\ Skipped(late) <= period + late
    BY <1>1, SkippedWhole
  <2>4. next' = next + period * k
    BY <2>1, <2>2, <2>3
  <2>5. OnSchedule(next)'
    BY <1>1, <1>3, <1>4, <2>1, <2>4, StaysOnSchedule
  <2>6. next' <= now + period
    <3>1. PICK n \in Nat : n = period * k
      BY <1>1
    <3> QED BY <1>1, <2>2, <2>3, <2>4, <3>1
  <2> QED BY <1>3, <2>1, <2>5, <2>6
<1>6. CASE SleepEnds
  <2>1. ~Prepare /\ now >= next /\ now' = now /\ next' = next + period
    BY <1>6 DEF SleepEnds, Prepare
  <2>2. PICK k \in Nat : k = 1
    OBVIOUS
  <2>3. next' = next + period * k
    BY <1>1, <2>1, <2>2
  <2>4. OnSchedule(next)'
    BY <1>1, <1>3, <1>4, <2>1, <2>3, StaysOnSchedule
  <2> QED BY <1>1, <1>3, <2>1, <2>4
<1>7. CASE MissedImmediate
  BY <1>7 DEF MissedImmediate, Missed, config
<1>8. ASSUME ~Prepare, ~MissedSkip, ~SleepEnds, ~MissedImmediate
      PROVE  next' = next /\ now' \in {now, now + 1}
  BY <1>8 DEF LoopNext, Run, EndIteration, Stop, Tick, LeaveLoop, Interrupt, IterationFails, Finalize,
              StartIteration, EndInTime, MissedTerminate, Missed, loopVars
<1>9. ASSUME ~Prepare, ~MissedSkip, ~SleepEnds, ~MissedImmediate
      PROVE  OnSchedule(next)' /\ next' <= now' + period'
  <2>1. next' = next /\ now' \in {now, now + 1} /\ UNCHANGED <<period, first>>
    BY <1>3, <1>8, <1>9
  <2>2. next' - first' = next - first /\ period' = period
    BY <2>1
  <2>3. (next - first) % period = 0
    BY <1>4, <1>9 DEF OnSchedule
  <2>4. (next' - first') % period' = 0
    BY <2>2, <2>3
  <2>5. next' <= now' + period'
    <3>1. next <= now + period
      BY <1>4, <1>9
    <3>2. CASE now' = now
      BY <1>1, <2>1, <3>1, <3>2
    <3>3. CASE now' = now + 1
      BY <1>1, <2>1, <3>1, <3>3
    <3> QED BY <2>1, <3>2, <3>3
  <2> QED BY <2>4, <2>5 DEF OnSchedule
<1> QED BY <1>2, <1>5, <1>6, <1>7, <1>9

\* Policies SKIP and TERMINATE keep the phase of the schedule however late a
\* loop was, and never put the deadline more than a period ahead.
THEOREM PhaseStaysKept == LoopSpec => []PhaseIsKept
<1>1. LoopInit => PhaseIsKept
  BY DEF LoopInit, PhaseIsKept
<1> QED BY <1>1, LoopAlways, PhaseStep, PTL DEF LoopSpec
=============================================================================
