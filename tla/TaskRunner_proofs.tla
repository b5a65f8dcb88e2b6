-------------------------- MODULE TaskRunner_proofs --------------------------
(***************************************************************************)
(* Proofs of the safety properties of TaskRunner, for any clients, any     *)
(* receivers, any queue length and any number of calls.                    *)
(***************************************************************************)
EXTENDS TaskRunner, TLAPS

\* Appending a client to the inbox and taking the first one keeps its type.
LEMMA InboxType ==
  ASSUME NEW s \in Seq(Client)
  PROVE  /\ \A c \in Client : Append(s, c) \in Seq(Client)
         /\ s # <<>> => Head(s) \in Client /\ Tail(s) \in Seq(Client)
  OBVIOUS

LEMMA PlanType ==
  /\ \A o : Plan(o).step \in {"start", "check", "join", "set"} /\ Plan(o).join \in BOOLEAN
  /\ Plan("exit") = [step |-> "check", join |-> TRUE]
  BY DEF Plan

-----------------------------------------------------------------------------
(* Types *)

LEMMA TypeInit == Init => TypeOK
<1> SUFFICES ASSUME Init PROVE TypeOK
  OBVIOUS
<1>1. queued \in [Receiver -> 0 .. MaxQueue]
  BY MaxQueueAssumption DEF Init
<1>2. /\ stopFlag \in BOOLEAN /\ notified \in BOOLEAN /\ expired \in BOOLEAN
      /\ thenJoin \in BOOLEAN /\ joined \in BOOLEAN /\ removing \in BOOLEAN
  BY DEF Init
<1> QED BY <1>1, <1>2 DEF Init, TypeOK, State, StepName

LEMMA RunnerType ==
  ASSUME TypeOK, Runner
  PROVE  TypeOK'
<1> USE DEF TypeOK, StepName, Doing
<1>1. CASE Constructed
  BY <1>1 DEF Constructed, taskVars, userVars, waitVars
<1>2. CASE Serve
  BY <1>2, InboxType, PlanType DEF Serve, taskVars, userVars, waitVars
<1>3. CASE Answer
  BY <1>3 DEF Answer, taskVars, userVars, waitVars
<1>4. CASE StartCheck
  BY <1>4 DEF StartCheck, taskVars, userVars, waitVars, rpcVars
<1>5. CASE Kick
  BY <1>5 DEF Kick, userVars, waitVars, rpcVars, State
<1>6. CASE StopCheck
  BY <1>6 DEF StopCheck, Follows, AfterStop, userVars, waitVars, rpcVars, State
<1>7. CASE StopFlag \/ ReadCond
  <2>1. CASE StopFlag
    <3>1. stopFlag' \in BOOLEAN /\ step' \in StepName
      BY <2>1 DEF StopFlag, Follows
    <3> QED BY <2>1, <3>1 DEF StopFlag, waitVars, rpcVars
  <2>2. CASE ReadCond
    BY <2>2 DEF ReadCond, Follows, taskVars, userVars, waitVars, rpcVars
  <2> QED BY <1>7, <2>1, <2>2
<1>8. CASE Notify
  <2>1. notified' \in BOOLEAN
    BY <1>8 DEF Notify, Wakes
  <2>2. step' \in StepName
    BY <1>8 DEF Notify, AfterStop
  <2>3. /\ readCond' = NoOne
        /\ UNCHANGED <<state, tpc, waitCond, cond, queued, runner, inbox, call, serving, made, sent>>
    BY <1>8 DEF Notify, rpcVars
  <2>4. UNCHANGED <<stopFlag, pending, settings, expired, thenJoin, joined, removing>>
    BY <1>8 DEF Notify, userVars
  <2> QED BY <2>1, <2>2, <2>3, <2>4
<1>9. CASE Join
  BY <1>9 DEF Join, taskVars, userVars, waitVars, rpcVars
<1>10. CASE SetSettings
  BY <1>10 DEF SetSettings, waitVars, rpcVars
<1>11. CASE BeginRelease
  <2>1. inbox' \in Seq(Client) /\ call' \in [Client -> Op \cup {"none"}]
    BY <1>11 DEF BeginRelease
  <2>2. step' \in StepName /\ thenJoin' \in BOOLEAN
    BY <1>11, PlanType DEF BeginRelease, ReleasePlan, NoPlan
  <2> QED BY <1>11, <2>1, <2>2 DEF BeginRelease, taskVars, userVars, waitVars
<1>12. CASE Released
  BY <1>12 DEF Released, taskVars, userVars, waitVars
<1> QED
  BY <1>1, <1>2, <1>3, <1>4, <1>5, <1>6, <1>7, <1>8, <1>9, <1>10, <1>11, <1>12 DEF Runner, Stopping

LEMMA TaskType ==
  ASSUME TypeOK, Machinery \/ UserCode \/ SleepElapses \/ Expire \/ Signals
  PROVE  TypeOK'
<1> USE DEF TypeOK, runnerVars, rpcVars, userVars, waitVars, Waits
<1>1. CASE Instantiate \/ Begin \/ Complete \/ SleepInterrupted
  BY <1>1 DEF Instantiate, Begin, Complete, SleepInterrupted, State
<1>2. CASE RegisterCond \/ CheckPredicate \/ WakeUp \/ Decide
  <2>1. notified' \in BOOLEAN
    BY <1>2 DEF RegisterCond, CheckPredicate, WakeUp, Decide
  <2>2. tpc' \in {"check", "decide", "blocked", "unwind", "return"}
    BY <1>2 DEF RegisterCond, CheckPredicate, WakeUp, Decide
  <2> QED BY <1>2, <2>1, <2>2 DEF RegisterCond, CheckPredicate, WakeUp, Decide
<1>3. CASE UnregisterCond
  <2>1. queued' \in [Receiver -> 0 .. MaxQueue]
    BY <1>3, MaxQueueAssumption DEF UnregisterCond
  <2> QED BY <1>3, <2>1 DEF UnregisterCond
<1>4. CASE Return \/ Fail \/ StopSelf \/ UpdateSettings \/ Sleep \/ SleepElapses \/ Expire
  <2>1. stopFlag' \in BOOLEAN /\ expired' \in BOOLEAN
    BY <1>4 DEF Return, Fail, StopSelf, UpdateSettings, Sleep, SleepElapses, Expire
  <2> QED BY <1>4, <2>1 DEF Return, Fail, StopSelf, UpdateSettings, Sleep, SleepElapses, Expire, State
<1>5. ASSUME NEW r \in Receiver, TakeSignal(r) \/ EnterWait(r) \/ Publish(r) \/ DiscardAll(r)
      PROVE  TypeOK'
  <2>1. queued' \in [Receiver -> 0 .. MaxQueue]
    BY <1>5, MaxQueueAssumption DEF TakeSignal, EnterWait, Publish, DiscardAll, Full
  <2>2. notified' \in BOOLEAN /\ expired' \in BOOLEAN
    BY <1>5 DEF TakeSignal, EnterWait, Publish, DiscardAll
  <2>3. tpc' \in {tpc, "register"} /\ cond' \in {cond, r}
    BY <1>5 DEF TakeSignal, EnterWait, Publish, DiscardAll
  <2>4. UNCHANGED <<state, userVars, waitCond, runnerVars>>
    BY <1>5 DEF TakeSignal, EnterWait, Publish, DiscardAll
  <2> QED BY <2>1, <2>2, <2>3, <2>4
<1> QED
  BY <1>1, <1>2, <1>3, <1>4, <1>5 DEF Machinery, UserCode, Signals

LEMMA TypeStep == TypeOK /\ [Next]_vars => TypeOK'
<1> SUFFICES ASSUME TypeOK, [Next]_vars PROVE TypeOK'
  OBVIOUS
<1>1. ASSUME NEW c \in Client, NEW o \in Op, Call(c, o)
      PROVE  TypeOK'
  BY <1>1, InboxType DEF Call, TypeOK, taskVars, userVars, waitVars
<1>2. CASE Remove
  BY <1>2 DEF Remove, TypeOK, taskVars, userVars, waitVars, rpcVars
<1>3. CASE UNCHANGED vars
  BY <1>3 DEF vars, taskVars, userVars, waitVars, runnerVars, rpcVars, TypeOK
<1> QED BY <1>1, <1>2, <1>3, RunnerType, TaskType DEF Next

\* Every variable keeps its type; no receive queue exceeds its maximal length.
THEOREM TypeCorrect == Spec => []TypeOK
  BY TypeInit, TypeStep, PTL DEF Spec

-----------------------------------------------------------------------------
(* The inductive invariant *)

Active == {"run", "sleep", "leaving"} \cup Waits

\* What the state tells about the task thread.
StateInv ==
  /\ tpc = "init" => state = "INITIAL"
  /\ tpc = "ready" => state \in {"READY_TO_RUN", "RUNNING", "TASK_STOPPED_BEFORE_START"}
  /\ tpc \in Active => state = "RUNNING"
  /\ tpc = "ended" => state \in Final \cup {"EXCEPTION_WHILE_INSTANTIATING_TASK"}

\* What the runner does in which phase.
PhaseInv ==
  /\ runner \in {"constructing", "failed"} => step = "none"
  /\ runner \notin {"constructing", "failed"} =>
        state \notin {"INITIAL", "EXCEPTION_WHILE_INSTANTIATING_TASK"}
  /\ runner # "serving" => serving = NoOne
  /\ serving = NoOne /\ runner # "releasing" => step = "none"
  /\ step = "kick" => state = "READY_TO_RUN"

\* The condition that is registered is the one the task thread waits on.
CondInv ==
  /\ cond \in Receiver <=> tpc \in Waits
  /\ waitCond = IF tpc \in Waits \ {"register"} THEN cond ELSE NoOne

\* The release of the runner leaves out neither stop() nor join().
ReleaseInv ==
  /\ joined => tpc = "ended"
  /\ runner = "ended" => tpc = "ended"
  /\ runner = "releasing" =>
        /\ step \in {"none", "check", "flag", "read", "notify", "join"}
        /\ step = "none" => joined
        /\ step \notin {"none", "join"} => thenJoin

TaskInv ==
  TypeOK /\ StateInv /\ PhaseInv /\ CondInv /\ ReleaseInv /\ NoLostStop /\ NoLostSignal /\ SettingsKept

LEMMA TaskInit == Init => TaskInv
<1> SUFFICES ASSUME Init PROVE TaskInv
  OBVIOUS
<1> QED
  BY TypeInit, NoOneAssumption DEF Init, TaskInv, StateInv, PhaseInv, CondInv, ReleaseInv, NoLostStop,
     NoLostSignal, SettingsKept, Active, Waits

LEMMA RunnerKeeps ==
  ASSUME TaskInv, TypeOK', Runner
  PROVE  TaskInv'
<1> USE DEF Doing
<1>1. TypeOK /\ StateInv /\ PhaseInv /\ CondInv /\ ReleaseInv /\ NoLostStop /\ NoLostSignal /\ SettingsKept
  BY DEF TaskInv
<1>2. CASE Constructed
  BY <1>1, <1>2 DEF Constructed, taskVars, userVars, waitVars, TaskInv, StateInv, PhaseInv, CondInv,
     ReleaseInv, NoLostStop, NoLostSignal, SettingsKept
<1>3. CASE Serve \/ Answer
  <2>1. Serve => serving' # NoOne
    BY <1>1, InboxType, NoOneAssumption DEF Serve, TypeOK
  <2> QED BY <1>1, <1>3, <2>1, PlanType DEF Serve, Answer, taskVars, userVars, waitVars, TaskInv, StateInv,
          PhaseInv, CondInv, ReleaseInv, NoLostStop, NoLostSignal, SettingsKept
<1>4. CASE StartCheck \/ Join \/ Released
  BY <1>1, <1>4 DEF StartCheck, Join, Released, taskVars, userVars, waitVars, rpcVars, TaskInv, StateInv,
     PhaseInv, CondInv, ReleaseInv, NoLostStop, NoLostSignal, SettingsKept
<1>5. CASE Kick
  BY <1>1, <1>5 DEF Kick, userVars, waitVars, rpcVars, TaskInv, StateInv, PhaseInv, CondInv, ReleaseInv,
     NoLostStop, NoLostSignal, SettingsKept, Active, Waits, Final
<1>6. CASE StopCheck
  BY <1>1, <1>6 DEF StopCheck, AfterStop, Follows, userVars, waitVars, rpcVars, TaskInv, StateInv,
     PhaseInv, CondInv, ReleaseInv, NoLostStop, NoLostSignal, SettingsKept, Active, Waits, Final
<1>7. CASE StopFlag
  BY <1>1, <1>7 DEF StopFlag, Follows, waitVars, rpcVars, TaskInv, StateInv, PhaseInv, CondInv, ReleaseInv,
     NoLostStop, NoLostSignal, SettingsKept, Waits
<1>8. CASE ReadCond
  BY <1>1, <1>8 DEF ReadCond, Follows, taskVars, userVars, waitVars, rpcVars, TaskInv, StateInv, PhaseInv,
     CondInv, ReleaseInv, NoLostStop, NoLostSignal, SettingsKept
<1>9. CASE Notify
  <2>1. /\ step = "notify" /\ step' = IF thenJoin THEN "join" ELSE "none"
        /\ UNCHANGED <<state, tpc, userVars, waitCond, cond, expired, queued, rpcVars, thenJoin, joined, sent>>
    BY <1>9 DEF Notify, AfterStop
  <2>2. notified => notified'
    BY <1>9 DEF Notify
  <2>3. tpc = "blocked" /\ cond = readCond => notified'
    BY <1>9 DEF Notify, Wakes
  <2>4. NoLostStop' /\ NoLostSignal'
    BY <1>1, <2>1, <2>2, <2>3 DEF NoLostStop, NoLostSignal, userVars
  <2>5. StateInv' /\ CondInv' /\ SettingsKept'
    BY <1>1, <2>1 DEF StateInv, CondInv, SettingsKept, userVars
  <2>6. PhaseInv' /\ ReleaseInv'
    BY <1>1, <2>1 DEF PhaseInv, ReleaseInv, rpcVars
  <2> QED BY <2>4, <2>5, <2>6 DEF TaskInv
<1>10. CASE SetSettings
  BY <1>1, <1>10 DEF SetSettings, waitVars, rpcVars, TaskInv, StateInv, PhaseInv, CondInv, ReleaseInv,
     NoLostStop, NoLostSignal, SettingsKept, TypeOK
<1>11. CASE BeginRelease
  BY <1>1, <1>11, PlanType DEF BeginRelease, ReleasePlan, NoPlan, taskVars, userVars, waitVars, TaskInv,
     StateInv, PhaseInv, CondInv, ReleaseInv, NoLostStop, NoLostSignal, SettingsKept
<1> QED
  BY <1>2, <1>3, <1>4, <1>5, <1>6, <1>7, <1>8, <1>9, <1>10, <1>11 DEF Runner, Stopping

LEMMA TaskKeeps ==
  ASSUME TaskInv, TypeOK', Machinery \/ UserCode \/ SleepElapses \/ Expire \/ Signals
  PROVE  TaskInv'
<1> USE DEF runnerVars, rpcVars, userVars, waitVars, Doing
<1>1. TypeOK /\ StateInv /\ PhaseInv /\ CondInv /\ ReleaseInv /\ NoLostStop /\ NoLostSignal /\ SettingsKept
  BY DEF TaskInv
<1>2. CASE Instantiate \/ Begin \/ Complete \/ Fail
  BY <1>1, <1>2 DEF Instantiate, Begin, Complete, Fail, TaskInv, StateInv, PhaseInv, CondInv, ReleaseInv,
     NoLostStop, NoLostSignal, SettingsKept, Active, Waits, Final
<1>3. CASE Return \/ Sleep \/ SleepElapses \/ SleepInterrupted \/ StopSelf
  BY <1>1, <1>3 DEF Return, Sleep, SleepElapses, SleepInterrupted, StopSelf, TaskInv, StateInv, PhaseInv,
     CondInv, ReleaseInv, NoLostStop, NoLostSignal, SettingsKept, Active, Waits
<1>4. CASE UpdateSettings
  BY <1>1, <1>4 DEF UpdateSettings, TaskInv, StateInv, PhaseInv, CondInv, ReleaseInv, NoLostStop,
     NoLostSignal, SettingsKept
<1>5. CASE RegisterCond \/ WakeUp \/ Decide \/ Expire
  BY <1>1, <1>5 DEF RegisterCond, WakeUp, Decide, Expire, TaskInv, StateInv, PhaseInv, CondInv, ReleaseInv,
     NoLostStop, NoLostSignal, SettingsKept, Active, Waits
<1>6. CASE CheckPredicate
  BY <1>1, <1>6 DEF CheckPredicate, TaskInv, StateInv, PhaseInv, CondInv, ReleaseInv, NoLostStop,
     NoLostSignal, SettingsKept, Active, Waits
<1>7. CASE UnregisterCond
  BY <1>1, <1>7, NoOneAssumption DEF UnregisterCond, TaskInv, StateInv, PhaseInv, CondInv, ReleaseInv,
     NoLostStop, NoLostSignal, SettingsKept, Active, Waits
<1>8. ASSUME NEW r \in Receiver, TakeSignal(r) \/ EnterWait(r)
      PROVE  TaskInv'
  BY <1>1, <1>8 DEF TakeSignal, EnterWait, TaskInv, StateInv, PhaseInv, CondInv, ReleaseInv, NoLostStop,
     NoLostSignal, SettingsKept, Active, Waits
<1>9. ASSUME NEW r \in Receiver, Publish(r) \/ DiscardAll(r)
      PROVE  TaskInv'
  <2>1. NoLostSignal'
    BY <1>1, <1>9, MaxQueueAssumption DEF Publish, DiscardAll, Wakes, Full, NoLostSignal, TypeOK, CondInv, Waits
  <2>2. NoLostStop'
    BY <1>1, <1>9 DEF Publish, DiscardAll, NoLostStop
  <2> QED BY <1>1, <1>9, <2>1, <2>2 DEF Publish, DiscardAll, TaskInv, StateInv, PhaseInv, CondInv, ReleaseInv,
          SettingsKept
<1> QED
  BY <1>2, <1>3, <1>4, <1>5, <1>6, <1>7, <1>8, <1>9 DEF Machinery, UserCode, Signals

LEMMA TaskStep == TaskInv /\ [Next]_vars => TaskInv'
<1> SUFFICES ASSUME TaskInv, [Next]_vars PROVE TaskInv'
  OBVIOUS
<1>1. TypeOK /\ StateInv /\ PhaseInv /\ CondInv /\ ReleaseInv /\ NoLostStop /\ NoLostSignal /\ SettingsKept
  BY DEF TaskInv
<1>2. TypeOK'
  BY <1>1, TypeStep
<1>3. ASSUME UNCHANGED <<taskVars, runner, serving, step, thenJoin, readCond, joined, sent>>
      PROVE  TaskInv'
  BY <1>1, <1>2, <1>3 DEF taskVars, userVars, waitVars, TaskInv, StateInv, PhaseInv, CondInv, ReleaseInv,
     NoLostStop, NoLostSignal, SettingsKept, Doing
<1>4. CASE (\E c \in Client, o \in Op : Call(c, o)) \/ Remove \/ UNCHANGED vars
  BY <1>3, <1>4 DEF Call, Remove, vars, runnerVars, rpcVars
<1> QED BY <1>2, <1>4, RunnerKeeps, TaskKeeps DEF Next

LEMMA TaskAlways == Spec => []TaskInv
  BY TaskInit, TaskStep, PTL DEF Spec

\* A stop request reaches a task that waits for a signal, whenever it comes.
THEOREM StopIsNotLost == Spec => []NoLostStop
<1>1. TaskInv => NoLostStop
  BY DEF TaskInv
<1> QED BY <1>1, TaskAlways, PTL

\* A published signal reaches a task that waits for it, whenever it comes.
THEOREM SignalIsNotLost == Spec => []NoLostSignal
<1>1. TaskInv => NoLostSignal
  BY DEF TaskInv
<1> QED BY <1>1, TaskAlways, PTL

\* The assertions in the code of tasks never fail.
THEOREM AssertionsAreTrue == Spec => []AssertionsHold
<1>1. TaskInv => AssertionsHold
  BY NoOneAssumption DEF TaskInv, AssertionsHold, StateInv, PhaseInv, CondInv, Doing, Waits
<1> QED BY <1>1, TaskAlways, PTL

\* No task thread survives the removal of its runner.
THEOREM NoTaskSurvives == Spec => []RemovedTaskHasEnded
<1>1. TaskInv => RemovedTaskHasEnded
  BY DEF TaskInv, ReleaseInv, RemovedTaskHasEnded
<1> QED BY <1>1, TaskAlways, PTL

\* The latest settings sent to a task replace all earlier ones.
THEOREM LatestSettingsKept == Spec => []SettingsKept
<1>1. TaskInv => SettingsKept
  BY DEF TaskInv
<1> QED BY <1>1, TaskAlways, PTL

\* The way in which a task ended stays what it is.
THEOREM EndStaysFinal == Spec => EndIsFinal
<1>1. TaskInv /\ [Next]_vars => [(state \in Final) => (state' = state)]_vars
  BY DEF TaskInv, StateInv, PhaseInv, Active, Final, Waits, Doing, Next, Call, Remove, Runner, Constructed, Serve,
     Answer, StartCheck, Kick, Stopping, StopCheck, StopFlag, ReadCond, Notify, Join, SetSettings, BeginRelease,
     Released, Machinery, Instantiate, Begin, Complete, SleepInterrupted, RegisterCond, CheckPredicate, WakeUp,
     Decide, UnregisterCond, UserCode, Return, Fail, StopSelf, UpdateSettings, Sleep, TakeSignal, EnterWait,
     SleepElapses, Expire, Signals, Publish, DiscardAll, taskVars, vars
<1> QED BY <1>1, TaskAlways, PTL DEF Spec, EndIsFinal

=============================================================================
