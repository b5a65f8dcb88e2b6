---------------------------- MODULE MCTaskRunner ----------------------------
(***************************************************************************)
(* The two halves of qmi/core/task.py for TLC.  A run has one part: a task *)
(* and its runner, or the schedule of a QMI_LoopTask.  They share no       *)
(* state: what the runner knows of a loop is that the task sleeps and      *)
(* looks at stop_requested(), which TaskRunner has for any task.           *)
(***************************************************************************)
EXTENDS TaskRunner, LoopTask

VARIABLE part

MCInit ==
  /\ Init /\ LoopInit
  /\ part \in {"runner", "loop"}
  /\ part # "loop" => policy = "SKIP" /\ \A p \in Period : period <= p

MCNext ==
  \/ part = "runner" /\ Next /\ UNCHANGED <<part, loopVars>>
  \/ part = "loop" /\ LoopNext /\ UNCHANGED <<part, vars>>

(* The threads of the runner are fair; the schedule is asked for safety    *)
(* only.                                                                   *)
MCSpec == MCInit /\ [][MCNext]_<<part, vars, loopVars>> /\ Fairness
=============================================================================
