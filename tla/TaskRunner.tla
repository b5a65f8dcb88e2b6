----------------------------- MODULE TaskRunner -----------------------------
(***************************************************************************)
(* One QMI task (qmi/core/task.py): the QMI_TaskRunner, an RPC object that *)
(* serves the calls of its clients one at a time, the _TaskThread that     *)
(* runs the QMI_Task, and the QMI_SignalReceivers (qmi/core/pubsub.py) on  *)
(* which the task waits for signals.                                       *)
(*                                                                         *)
(* That the runner handles its calls in turn and rejects what is left when *)
(* it is removed is established by module RpcObject.                       *)
(***************************************************************************)
EXTENDS Integers, Sequences

CONSTANTS Client,       \* clients of the runner, each with one call at a time
          Receiver,     \* QMI_SignalReceivers used by the task
          NoOne,        \* no client, no receiver (Python's None)
          MaxQueue,     \* max_queue_length of the receivers
          DiscardNew,   \* discard policy is DISCARD_NEW rather than DISCARD_OLD
          MaxCalls      \* bound: number of calls made in a behaviour

ASSUME NoOneAssumption == NoOne \notin Client \cup Receiver
ASSUME MaxQueueAssumption == MaxQueue \in Nat \ {0}
ASSUME MaxCallsAssumption == MaxCalls \in Nat
ASSUME DiscardAssumption == DiscardNew \in BOOLEAN

\* _TaskThread.State
State == {"INITIAL", "EXCEPTION_WHILE_INSTANTIATING_TASK", "READY_TO_RUN", "RUNNING",
          "EXCEPTION_WHILE_RUNNING_TASK", "TASK_COMPLETED_NORMALLY", "TASK_STOPPED_BEFORE_START"}

Final == {"EXCEPTION_WHILE_RUNNING_TASK", "TASK_COMPLETED_NORMALLY", "TASK_STOPPED_BEFORE_START"}

Op == {"start", "stop", "join", "exit", "set_settings"}

VARIABLES
  (* _TaskThread and QMI_Task *)
  state,      \* _TaskThread._state
  tpc,        \* where the task thread is
  stopFlag,   \* QMI_Task._stop_requested
  waitCond,   \* _TaskThread._wait_cond: receiver whose condition is waited on
  pending,    \* QMI_Task._settings_fifo: 0 if empty
  settings,   \* QMI_Task.settings
  (* get_next_signal() in progress *)
  cond,       \* its receiver, whose lock is held unless tpc = "blocked"
  notified,   \* the blocked task thread was notified
  expired,    \* its timeout has expired
  queued,     \* queued[r]: number of signals in the queue of receiver r
  (* QMI_TaskRunner *)
  runner,     \* phase of the runner's RPC thread
  inbox,      \* clients whose call is queued
  call,       \* call[c]: operation that client c waits for
  serving,    \* client whose call is being handled
  step,       \* the next step to be done for it
  thenJoin,   \* stop() is followed by join()
  readCond,   \* stop_task: the condition that the task was waiting on
  joined,     \* QMI_TaskRunner._joined
  removing,   \* the context removes the runner
  made,       \* number of calls made
  sent        \* number of set_settings() handled

userVars   == <<stopFlag, pending, settings>>
waitVars   == <<waitCond, cond, notified, expired>>
rpcVars    == <<runner, inbox, call, serving>>
runnerVars == <<rpcVars, step, thenJoin, readCond, joined, removing, made, sent>>
taskVars   == <<state, tpc, userVars, waitVars, queued>>
vars == <<taskVars, runnerVars>>

Init ==
  /\ state = "INITIAL"
  /\ tpc = "init"
  /\ stopFlag = FALSE
  /\ waitCond = NoOne
  /\ pending = 0
  /\ settings = 0
  /\ cond = NoOne
  /\ notified = FALSE
  /\ expired = FALSE
  /\ queued = [r \in Receiver |-> 0]
  /\ runner = "constructing"
  /\ inbox = <<>>
  /\ call = [c \in Client |-> "none"]
  /\ serving = NoOne
  /\ step = "none"
  /\ thenJoin = FALSE
  /\ readCond = NoOne
  /\ joined = FALSE
  /\ removing = FALSE
  /\ made = 0
  /\ sent = 0

-----------------------------------------------------------------------------
(* Clients and context *)

Call(c, o) ==
  /\ runner = "serving"
  /\ ~removing
  /\ call[c] = "none"
  /\ made < MaxCalls
  /\ made' = made + 1
  /\ call' = [call EXCEPT ![c] = o]
  /\ inbox' = Append(inbox, c)
  /\ UNCHANGED <<taskVars, runner, serving, step, thenJoin, readCond, joined, removing, sent>>

\* remove_rpc_object() or context.stop() shuts the RPC thread down.
Remove ==
  /\ runner = "serving"
  /\ ~removing
  /\ removing' = TRUE
  /\ UNCHANGED <<taskVars, rpcVars, step, thenJoin, readCond, joined, made, sent>>

-----------------------------------------------------------------------------
(* QMI_TaskRunner: __init__, the RPC methods, release_rpc_object *)

\* The step with which an operation begins; __exit__ is stop() and join().
Plan(o) ==
  [step |-> CASE o = "start" -> "start" [] o \in {"stop", "exit"} -> "check"
              [] o = "join" -> "join"   [] OTHER -> "set",
   join |-> o = "exit"]

Doing(s) == step = s

\* Mutant of Follows: the condition is looked up before the flag is set.
Follows_ReadFirst == [check |-> "read", read |-> "flag", flag |-> "notify"]

\* The order of things in stop_task.
Follows == [check |-> "flag", flag |-> "read", read |-> "notify"]

\* What comes after stop_task.
AfterStop == IF thenJoin THEN "join" ELSE "none"

\* __init__ waits until the task is initialized and passes on its exception.
Constructed ==
  /\ runner = "constructing"
  /\ \/ state = "READY_TO_RUN" /\ runner' = "serving"
     \/ /\ state = "EXCEPTION_WHILE_INSTANTIATING_TASK"
        /\ tpc = "ended"
        /\ runner' = "failed"
  /\ UNCHANGED <<taskVars, inbox, call, serving, step, thenJoin, readCond, joined, removing,
                 made, sent>>

Serve ==
  /\ runner = "serving"
  /\ serving = NoOne
  /\ ~removing
  /\ inbox # <<>>
  /\ serving' = Head(inbox)
  /\ inbox' = Tail(inbox)
  /\ step' = Plan(call[Head(inbox)]).step
  /\ thenJoin' = Plan(call[Head(inbox)]).join
  /\ UNCHANGED <<taskVars, runner, call, readCond, joined, removing, made, sent>>

Answer ==
  /\ serving # NoOne
  /\ Doing("none")
  /\ call' = [call EXCEPT ![serving] = "none"]
  /\ serving' = NoOne
  /\ UNCHANGED <<taskVars, runner, inbox, step, thenJoin, readCond, joined, removing, made, sent>>

\* Mutant of StartCheck: start() does not look at the state.
StartCheck_Always ==
  /\ Doing("start")
  /\ step' = "kick"
  /\ UNCHANGED <<taskVars, rpcVars, thenJoin, readCond, joined, removing, made, sent>>

\* start() checks that the task was not started yet ...
StartCheck ==
  /\ Doing("start")
  /\ step' = IF state = "READY_TO_RUN" THEN "kick" ELSE "none"
  /\ UNCHANGED <<taskVars, rpcVars, thenJoin, readCond, joined, removing, made, sent>>

\* ... and start_task() sets it running.
Kick ==
  /\ Doing("kick")
  /\ state' = "RUNNING"
  /\ step' = "none"
  /\ UNCHANGED <<tpc, userVars, waitVars, queued, rpcVars, thenJoin, readCond, joined, removing,
                 made, sent>>

\* stop_task: a task that was not started is stopped now; otherwise set its
\* stop flag, and wake it up if it waits on a condition.
StopCheck ==
  /\ Doing("check")
  /\ IF state \in {"INITIAL", "READY_TO_RUN"}
     THEN state' = "TASK_STOPPED_BEFORE_START" /\ step' = AfterStop
     ELSE state' = state /\ step' = Follows[step]
  /\ UNCHANGED <<tpc, userVars, waitVars, queued, rpcVars, thenJoin, readCond, joined, removing,
                 made, sent>>

StopFlag ==
  /\ Doing("flag")
  /\ stopFlag' = TRUE
  /\ step' = Follows[step]
  /\ UNCHANGED <<state, tpc, pending, settings, waitVars, queued, rpcVars, thenJoin, readCond,
                 joined, removing, made, sent>>

ReadCond ==
  /\ Doing("read")
  /\ readCond' = waitCond
  /\ step' = Follows[step]
  /\ UNCHANGED <<taskVars, rpcVars, thenJoin, joined, removing, made, sent>>

\* The task thread holds the lock of receiver r's condition.
Holds(r) == r # NoOne /\ cond = r /\ tpc # "blocked"

Wakes(r) == tpc = "blocked" /\ cond = r

Notify ==
  /\ Doing("notify")
  /\ ~Holds(readCond)
  /\ notified' = (notified \/ Wakes(readCond))
  /\ readCond' = NoOne
  /\ step' = AfterStop
  /\ UNCHANGED <<state, tpc, userVars, waitCond, cond, expired, queued, rpcVars, thenJoin,
                 joined, removing, made, sent>>

Join ==
  /\ Doing("join")
  /\ tpc = "ended"
  /\ joined' = TRUE
  /\ step' = "none"
  /\ UNCHANGED <<taskVars, rpcVars, thenJoin, readCond, removing, made, sent>>

\* Mutant of SetSettings: settings that were not used yet are not replaced.
SetSettings_KeepsOldest ==
  /\ Doing("set")
  /\ sent' = sent + 1
  /\ pending' = IF pending = 0 THEN sent + 1 ELSE pending
  /\ step' = "none"
  /\ UNCHANGED <<state, tpc, stopFlag, settings, waitVars, queued, rpcVars, thenJoin, readCond,
                 joined, removing, made>>

\* The fifo of the task holds one element: a new one replaces it.
SetSettings ==
  /\ Doing("set")
  /\ sent' = sent + 1
  /\ pending' = sent + 1
  /\ step' = "none"
  /\ UNCHANGED <<state, tpc, stopFlag, settings, waitVars, queued, rpcVars, thenJoin, readCond,
                 joined, removing, made>>

NoPlan == [step |-> "none", join |-> FALSE]

\* Mutants of ReleasePlan: a stop() without join(), a join() without stop().
ReleasePlan_StopOnly == IF joined THEN NoPlan ELSE Plan("stop")
ReleasePlan_JoinOnly == IF joined THEN NoPlan ELSE Plan("join")

\* release_rpc_object: stop() and join() unless the task was joined.
ReleasePlan == IF joined THEN NoPlan ELSE Plan("exit")

\* The RPC thread rejects the calls that are left and releases the runner.
BeginRelease ==
  /\ runner = "serving"
  /\ removing
  /\ serving = NoOne
  /\ runner' = "releasing"
  /\ inbox' = <<>>
  /\ call' = [c \in Client |-> "none"]
  /\ step' = ReleasePlan.step
  /\ thenJoin' = ReleasePlan.join
  /\ UNCHANGED <<taskVars, serving, readCond, joined, removing, made, sent>>

Released ==
  /\ runner = "releasing"
  /\ Doing("none")
  /\ runner' = "ended"
  /\ UNCHANGED <<taskVars, inbox, call, serving, step, thenJoin, readCond, joined, removing,
                 made, sent>>

-----------------------------------------------------------------------------
(* _TaskThread.run and what the task's own code may call from run() *)

Instantiate ==
  /\ tpc = "init"
  /\ \/ state' = "READY_TO_RUN" /\ tpc' = "ready"
     \/ state' = "EXCEPTION_WHILE_INSTANTIATING_TASK" /\ tpc' = "ended"
  /\ UNCHANGED <<userVars, waitVars, queued, runnerVars>>

Begin ==
  /\ tpc = "ready"
  /\ state # "READY_TO_RUN"
  /\ tpc' = IF state = "RUNNING" THEN "run" ELSE "ended"
  /\ UNCHANGED <<state, userVars, waitVars, queued, runnerVars>>

\* The code of the task returns: spontaneously, or because it looked at
\* stop_requested().
Return ==
  /\ tpc = "run"
  /\ tpc' = "leaving"
  /\ UNCHANGED <<state, userVars, waitVars, queued, runnerVars>>

SeeStop == stopFlag /\ Return

Complete ==
  /\ tpc = "leaving"
  /\ state' = "TASK_COMPLETED_NORMALLY"
  /\ tpc' = "ended"
  /\ UNCHANGED <<userVars, waitVars, queued, runnerVars>>

\* The code of the task raises an exception, maybe while it cleans up.
Fail ==
  /\ tpc \in {"run", "leaving"}
  /\ state' = "EXCEPTION_WHILE_RUNNING_TASK"
  /\ tpc' = "ended"
  /\ UNCHANGED <<userVars, waitVars, queued, runnerVars>>

\* A QMI_LoopTask with policy TERMINATE stops itself; it waits on no condition.
StopSelf ==
  /\ tpc = "run"
  /\ stopFlag' = TRUE
  /\ UNCHANGED <<state, tpc, pending, settings, waitVars, queued, runnerVars>>

UpdateSettings ==
  /\ tpc = "run"
  /\ pending # 0
  /\ settings' = pending
  /\ pending' = 0
  /\ UNCHANGED <<state, tpc, stopFlag, waitVars, queued, runnerVars>>

\* sleep(): Event.wait() returns the flag, QMI_TaskStopException ends run().
Sleep ==
  /\ tpc = "run"
  /\ tpc' = "sleep"
  /\ UNCHANGED <<state, userVars, waitVars, queued, runnerVars>>

SleepElapses ==
  /\ tpc = "sleep"
  /\ ~stopFlag
  /\ tpc' = "run"
  /\ UNCHANGED <<state, userVars, waitVars, queued, runnerVars>>

SleepInterrupted ==
  /\ tpc = "sleep"
  /\ stopFlag
  /\ tpc' = "leaving"
  /\ UNCHANGED <<state, userVars, waitVars, queued, runnerVars>>

\* get_next_signal() finds a signal in the queue ...
TakeSignal(r) ==
  /\ tpc = "run"
  /\ queued[r] > 0
  /\ queued' = [queued EXCEPT ![r] = @ - 1]
  /\ UNCHANGED <<state, tpc, userVars, waitVars, runnerVars>>

\* ... or waits on the condition: _TaskThread.wait_for_condition.
EnterWait(r) ==
  /\ tpc = "run"
  /\ queued[r] = 0
  /\ tpc' = "register"
  /\ cond' = r
  /\ expired' = FALSE
  /\ UNCHANGED <<state, userVars, waitCond, notified, queued, runnerVars>>

RegisterCond ==
  /\ tpc = "register"
  /\ waitCond' = cond
  /\ tpc' = "check"
  /\ UNCHANGED <<state, userVars, cond, notified, expired, queued, runnerVars>>

\* Condition.wait_for: the predicate is evaluated before each wait.
CheckPredicate ==
  /\ tpc = "check"
  /\ tpc' = IF queued[cond] > 0 \/ stopFlag \/ expired THEN "decide" ELSE "blocked"
  /\ notified' = FALSE
  /\ UNCHANGED <<state, userVars, waitCond, cond, expired, queued, runnerVars>>

WakeUp ==
  /\ tpc = "blocked"
  /\ notified
  /\ tpc' = "check"
  /\ UNCHANGED <<state, userVars, waitVars, queued, runnerVars>>

Expire ==
  /\ tpc = "blocked"
  /\ expired' = TRUE
  /\ tpc' = "check"
  /\ UNCHANGED <<state, userVars, waitCond, cond, notified, queued, runnerVars>>

\* A stop request goes before a signal and before a timeout.
Decide ==
  /\ tpc = "decide"
  /\ tpc' = IF stopFlag THEN "unwind" ELSE "return"
  /\ UNCHANGED <<state, userVars, waitVars, queued, runnerVars>>

\* Mutant of UnregisterCond: stop_task() keeps _wait_cond_lock while it notifies.
UnregisterCond_LockedOut ==
  /\ tpc \in {"unwind", "return"}
  /\ ~Doing("notify")
  /\ waitCond' = NoOne
  /\ cond' = NoOne
  /\ tpc' = IF tpc = "unwind" THEN "leaving" ELSE "run"
  /\ queued' = [r \in Receiver |-> IF r = cond /\ tpc = "return" /\ queued[r] > 0
                                   THEN queued[r] - 1 ELSE queued[r]]
  /\ UNCHANGED <<state, userVars, notified, expired, runnerVars>>

\* The finally clause of wait_for_condition, after which get_next_signal pops
\* the signal (or raises QMI_TimeoutException) and releases the lock.
UnregisterCond ==
  /\ tpc \in {"unwind", "return"}
  /\ waitCond' = NoOne
  /\ cond' = NoOne
  /\ tpc' = IF tpc = "unwind" THEN "leaving" ELSE "run"
  /\ queued' = [r \in Receiver |-> IF r = cond /\ tpc = "return" /\ queued[r] > 0
                                   THEN queued[r] - 1 ELSE queued[r]]
  /\ UNCHANGED <<state, userVars, notified, expired, runnerVars>>

-----------------------------------------------------------------------------
(* QMI_SignalReceiver, called by the threads that publish *)

Full(r) == queued[r] = MaxQueue

\* Mutant of Publish: nobody is notified.
Publish_Silent(r) ==
  /\ ~Holds(r)
  /\ queued' = [queued EXCEPT ![r] = IF Full(r) THEN @ ELSE @ + 1]
  /\ UNCHANGED <<state, tpc, userVars, waitVars, runnerVars>>

\* _receive_signal: a full queue drops its oldest signal, or the new one.
Publish(r) ==
  /\ ~Holds(r)
  /\ queued' = [queued EXCEPT ![r] = IF Full(r) THEN @ ELSE @ + 1]
  /\ notified' = (notified \/ (Wakes(r) /\ ~(DiscardNew /\ Full(r))))
  /\ UNCHANGED <<state, tpc, userVars, waitCond, cond, expired, runnerVars>>

DiscardAll(r) ==
  /\ ~Holds(r)
  /\ queued' = [queued EXCEPT ![r] = 0]
  /\ UNCHANGED <<state, tpc, userVars, waitVars, runnerVars>>

-----------------------------------------------------------------------------

Stopping == StopCheck \/ StopFlag \/ ReadCond \/ Notify

Runner ==
  \/ Constructed \/ Serve \/ Answer \/ BeginRelease \/ Released
  \/ StartCheck \/ Kick \/ Stopping \/ Join \/ SetSettings

\* What the task thread does once its code has called something.
Machinery ==
  \/ Instantiate \/ Begin \/ Complete \/ SleepInterrupted
  \/ RegisterCond \/ CheckPredicate \/ WakeUp \/ Decide \/ UnregisterCond

UserCode ==
  \/ Return \/ Fail \/ StopSelf \/ UpdateSettings \/ Sleep
  \/ \E r \in Receiver : TakeSignal(r) \/ EnterWait(r)

Signals == \E r \in Receiver : Publish(r) \/ DiscardAll(r)

Next ==
  \/ \E c \in Client, o \in Op : Call(c, o)
  \/ Remove
  \/ Runner
  \/ Machinery
  \/ UserCode
  \/ SleepElapses \/ Expire
  \/ Signals

Spec == Init /\ [][Next]_vars

\* Threads that can run do run, the constructor of the task returns, and a task
\* that is told to stop looks at stop_requested() "regularly" (task.py): it
\* does so if it keeps coming back to its own code.  Nothing else is promised:
\* sleeps and timeouts may be endless, signals need not come, and neither the
\* clients nor the context need do anything.
Fairness == WF_vars(Runner) /\ WF_vars(Machinery) /\ SF_vars(SeeStop)

FairSpec == Spec /\ Fairness

-----------------------------------------------------------------------------
(* Properties *)

Waits == {"register", "check", "blocked", "decide", "unwind", "return"}

StepName == {"none", "start", "kick", "check", "flag", "read", "notify", "join", "set"}

\* Type invariant.
TypeOK ==
  /\ state \in State
  /\ tpc \in {"init", "ready", "run", "sleep", "leaving", "ended"} \cup Waits
  /\ stopFlag \in BOOLEAN
  /\ waitCond \in Receiver \cup {NoOne}
  /\ pending \in Nat /\ settings \in Nat /\ sent \in Nat /\ made \in Nat
  /\ cond \in Receiver \cup {NoOne}
  /\ notified \in BOOLEAN /\ expired \in BOOLEAN
  /\ queued \in [Receiver -> 0 .. MaxQueue]
  /\ runner \in {"constructing", "serving", "releasing", "ended", "failed"}
  /\ inbox \in Seq(Client)
  /\ call \in [Client -> Op \cup {"none"}]
  /\ serving \in Client \cup {NoOne}
  /\ step \in StepName
  /\ thenJoin \in BOOLEAN
  /\ readCond \in Receiver \cup {NoOne}
  /\ joined \in BOOLEAN /\ removing \in BOOLEAN

\* A stop request is not missed by a task that waits for a signal: if the flag
\* is set and the task is blocked, then it was notified, or a stop() is about
\* to find the condition it is blocked on, or is about to notify it.
NoLostStop ==
  (stopFlag /\ tpc = "blocked" /\ ~notified) =>
    \/ Doing("read") /\ waitCond = cond
    \/ Doing("notify") /\ readCond = cond

\* A signal in the queue is not missed either.
NoLostSignal == (tpc = "blocked" /\ queued[cond] > 0) => notified

\* The assertions of start_task(), wait_for_condition() and join() hold.
AssertionsHold ==
  /\ Doing("kick") => state = "READY_TO_RUN"
  /\ tpc = "register" => waitCond = NoOne
  /\ (Doing("join") /\ tpc = "ended") => state \in Final

\* The latest settings that were sent are in use or about to be.
SettingsKept == IF pending = 0 THEN settings = sent ELSE pending = sent

\* A runner that was removed has left no task thread behind.
RemovedTaskHasEnded == runner = "ended" => tpc = "ended"

\* How a task ended is never revised, by whatever calls arrive afterwards: a
\* task that was stopped before its start never runs, and the exception with
\* which a task ended stays available to join().
EndIsFinal == [][(state \in Final) => (state' = state)]_vars

\* A task that is told to stop ends, also if it sleeps, waits for a signal that
\* never comes, or is about to do so.
StopEndsTask == stopFlag ~> (tpc = "ended")

\* The runner waits in a client's join() for a task that nobody told to stop.
JoinBlocks == serving # NoOne /\ Doing("join") /\ ~stopFlag /\ tpc # "ended"

\* Removing the runner stops the task and completes, except behind a join()
\* that waits for a task which was not told to stop.
RemovalCompletes == (removing /\ ~JoinBlocks) ~> (runner = "ended")

\* "This function returns immediately without waiting until the task is
\* stopped" (task.py, QMI_TaskRunner.stop).
StopReturns == \A c \in Client : (call[c] = "stop") ~> (call[c] = "none")
=============================================================================
