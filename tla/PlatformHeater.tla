--------------------------- MODULE PlatformHeater ---------------------------
(***************************************************************************)
(* The platform heater of the Montana Cryostation                          *)
(* (qmi/instruments/montana/cryostation.py): power above the safe level is *)
(* allowed for a limited time, and a threading.Timer turns the heater off  *)
(* while the RPC thread serves other calls.  Both threads send commands    *)
(* over one connection, one at a time (_command_lock), and any command may *)
(* be refused, or carried out without an answer in time, or end in an      *)
(* exception that the driver does not expect.  An answer that comes too    *)
(* late is discarded if it comes before the next command is sent, and      *)
(* taken for the answer to that command if it comes after.                 *)
(***************************************************************************)
EXTENDS Integers, Sequences

CONSTANT MaxAnswers       \* bound: answers on the way at a time

Safe == 1                 \* _MAX_PLATFORM_HEATER_POWER
Burst == 10               \* _MAX_PLATFORM_HEATER_BURST_POWER
TurnOffHeaterRetry == 3   \* _MAX_TURN_OFF_HEATER_RETRY

Powers == {0, Safe, Burst}
Users == {"rpc", "timer"}
Nobody == "nobody"
Unknown == -1

VARIABLES
  opened,   \* the instrument and its transport are open
  heaterOn, \* _platform_heater_on
  timer,    \* _platform_heater_timer_thread: "none", or the state of the thread
  rpc,      \* the call in the RPC thread: what it is for, its power, where it is
  turnOff,  \* turnOff[u]: attempts at turning the heater off made by thread u
  talking,  \* holder of _command_lock
  done,     \* what the cryostat does with the command under way
  answers,  \* answers of the cryostat that are on the way, in order
  heater,   \* the power of the heater, once all that was sent is dealt with
  wanted,   \* power the last call has set for good, or Unknown
  doomed,   \* the driver has given up on the heater: an exception that it does
            \* not handle, or too many attempts, which it has reported
  misled    \* the driver has taken the late OK of an earlier command for that
            \* of one that was refused, and the heater is not as it thinks

cmdVars == <<talking, done, answers>>
vars == <<opened, heaterOn, timer, rpc, turnOff, cmdVars, heater, wanted, doomed, misled>>

Idle == [for |-> "none", power |-> 0, at |-> "idle"]
Call(for, power) == [for |-> for, power |-> power, at |-> "cancel"]
RpcAt(at) == rpc' = [rpc EXCEPT !.at = at]

Init ==
  /\ opened = FALSE /\ heaterOn = FALSE
  /\ timer = "none" /\ rpc = Idle
  /\ turnOff = [u \in Users |-> 0]
  /\ talking = Nobody /\ done = "no" /\ answers = <<>>
  /\ heater = 0 /\ wanted = 0 /\ doomed = FALSE /\ misled = FALSE

-----------------------------------------------------------------------------
(* Calls                                                                   *)

(* A new connection: what was on the way on the old one is gone.           *)
Open ==
  /\ rpc = Idle /\ ~opened
  /\ opened' = TRUE /\ answers' = <<>>
  /\ UNCHANGED <<heaterOn, timer, rpc, turnOff, talking, done, heater, wanted, doomed, misled>>

(* set_platform_heater_power, set_platform_heater_power_burst, close and   *)
(* release_rpc_object begin by cancelling the timer; the other methods     *)
(* only send a command.                                                    *)
Begin ==
  /\ rpc = Idle /\ opened
  /\ \/ \E p \in {0, Safe} : rpc' = Call("power", p)
     \/ \E p \in Powers : rpc' = Call("burst", p)
     \/ rpc' = Call("close", 0)
     \/ rpc' = [Call("query", 0) EXCEPT !.at = "command"]
  /\ UNCHANGED <<opened, heaterOn, timer, turnOff, cmdVars, heater, wanted, doomed, misled>>

(* The call returns, having set the power for good or not, or it raises. *)
Return == rpc' = Idle /\ wanted' = CASE rpc.for = "query" -> wanted
                                     [] rpc.for = "burst" /\ rpc.power > 0 -> Unknown
                                     [] OTHER -> rpc.power
Raise == rpc' = Idle /\ wanted' = Unknown

\* Mutant of CancelTimer: the thread of the timer is not waited for.
CancelTimer_NoJoin ==
  /\ rpc.at = "cancel"
  /\ timer' = IF timer = "waiting" THEN "none" ELSE timer
  /\ RpcAt(IF rpc.for = "close" THEN "off" ELSE "command")
  /\ UNCHANGED <<opened, heaterOn, turnOff, cmdVars, heater, wanted, doomed, misled>>

(* cancel() has no effect on a timer that has fired; join() waits for it.  *)
CancelTimer ==
  /\ rpc.at = "cancel"
  /\ timer \in {"none", "waiting", "ended"}
  /\ timer' = "none"
  /\ RpcAt(IF rpc.for = "close" THEN "off" ELSE "command")
  /\ UNCHANGED <<opened, heaterOn, turnOff, cmdVars, heater, wanted, doomed, misled>>

-----------------------------------------------------------------------------
(* Commands: sent by thread u, which holds the lock until a response is    *)
(* read, whichever command that is the response to                         *)

(* What is left of the answers when the first k have been taken.           *)
After(k) == SubSeq(answers, k + 1, Len(answers))

(* discard_read() drops what has arrived by now; then the command is sent, *)
(* and this answer is on the way, or none.                                 *)
Send(u, answer) ==
  /\ talking = Nobody /\ talking' = u
  /\ \E arrived \in 0 .. Len(answers) :
       \/ answers' = After(arrived)
       \/ Len(After(arrived)) < MaxAnswers /\ answers' = Append(After(arrived), answer)

SendPower(u, p) ==
  /\ heaterOn' = (heaterOn \/ p > 0)
  /\ \/ Send(u, "ok") /\ done' = "yes" /\ heater' = p /\ misled' = FALSE
     \/ Send(u, "other") /\ done' = "no" /\ UNCHANGED <<heater, misled>>

SendQuery ==
  /\ \E answer \in {"ok", "other"} : Send("rpc", answer)
  /\ done' = "no"
  /\ UNCHANGED <<heater, heaterOn, misled>>

(* _execute_command() takes the first answer that comes: it returns when   *)
(* that has an OK, raises one of the two exceptions that the driver        *)
(* handles (another answer, or none in time), or raises another.  Of an    *)
(* answer that was read in part the rest makes a later command break.      *)
Ends(u) == talking = u /\ talking' = Nobody /\ done' = "no"
Accepted(u) ==
  /\ Ends(u)
  /\ answers # <<>> /\ Head(answers) = "ok"
  /\ answers' = After(1)
Fails(u) == Ends(u) /\ \E read \in {0, 1} : answers' = After(read)
Refused(u) == Fails(u)
Broken(u) == Fails(u)

(* A setting of power p by the command under way counts as successful.     *)
Believed(p) == misled' = (done = "no" /\ heater # p)

-----------------------------------------------------------------------------
(* _turn_off_platform_heater in thread u                                   *)

TurnOffAt(u) == IF u = "rpc" THEN rpc.at = "off" ELSE timer = "off"

NothingToTurnOff(u) ==
  /\ TurnOffAt(u) /\ talking # u
  /\ turnOff[u] = 0 /\ ~heaterOn
  /\ UNCHANGED <<turnOff, cmdVars, heater, heaterOn, doomed, misled>>

SendOff(u) ==
  /\ TurnOffAt(u) /\ talking # u
  /\ turnOff[u] > 0 \/ heaterOn
  /\ SendPower(u, 0)
  /\ UNCHANGED <<opened, timer, rpc, turnOff, wanted, doomed>>

TurnedOff(u) ==
  /\ TurnOffAt(u) /\ Accepted(u)
  /\ heaterOn' = FALSE /\ doomed' = FALSE
  /\ turnOff' = [turnOff EXCEPT ![u] = 0]
  /\ Believed(0)
  /\ UNCHANGED heater

RetryOff(u) ==
  /\ TurnOffAt(u) /\ Refused(u)
  /\ turnOff[u] + 1 < TurnOffHeaterRetry
  /\ turnOff' = [turnOff EXCEPT ![u] = @ + 1]
  /\ UNCHANGED <<opened, heaterOn, timer, rpc, heater, wanted, doomed, misled>>

(* The last attempt failed, or the exception is not one of the two. *)
GiveUp(u) ==
  /\ TurnOffAt(u) /\ (Broken(u) \/ (Refused(u) /\ turnOff[u] + 1 >= TurnOffHeaterRetry))
  /\ turnOff' = [turnOff EXCEPT ![u] = 0]
  /\ doomed' = TRUE
  /\ UNCHANGED <<heater, heaterOn, misled>>

-----------------------------------------------------------------------------
(* The RPC thread                                                          *)

SendCommand ==
  /\ rpc.at = "command" /\ talking # "rpc"
  /\ IF rpc.for = "query" THEN SendQuery ELSE SendPower("rpc", rpc.power)
  /\ UNCHANGED <<opened, timer, rpc, turnOff, wanted, doomed>>

QueryEnds ==
  /\ rpc.for = "query" /\ Ends("rpc")
  /\ \E read \in {0, 1} : answers' = After(read)
  /\ Return
  /\ UNCHANGED <<opened, heaterOn, timer, turnOff, heater, doomed, misled>>

\* Mutant of PowerIsSet: the timer of a burst is not started.
PowerIsSet_NoTimer ==
  /\ rpc.at = "command" /\ rpc.for # "query" /\ Accepted("rpc")
  /\ heaterOn' = (rpc.power > 0) /\ doomed' = FALSE /\ Believed(rpc.power)
  /\ Return
  /\ UNCHANGED <<opened, timer, turnOff, heater>>

(* The timer of a burst is started last.                                   *)
PowerIsSet ==
  /\ rpc.at = "command" /\ rpc.for # "query" /\ Accepted("rpc")
  /\ heaterOn' = (rpc.power > 0) /\ doomed' = FALSE /\ Believed(rpc.power)
  /\ IF rpc.for = "burst" /\ rpc.power > 0
       THEN RpcAt("start") /\ UNCHANGED wanted
       ELSE Return
  /\ UNCHANGED <<opened, timer, turnOff, heater>>

StartTimer ==
  /\ rpc.at = "start" /\ timer = "none"
  /\ timer' = "waiting"
  /\ Return
  /\ UNCHANGED <<opened, heaterOn, turnOff, cmdVars, heater, doomed, misled>>

\* Mutant of PowerIsRefused: the heater is left as it is.
PowerIsRefused_Leaves ==
  /\ rpc.at = "command" /\ rpc.for # "query" /\ Refused("rpc")
  /\ Raise
  /\ UNCHANGED <<opened, heaterOn, timer, turnOff, heater, doomed, misled>>

(* A failed setting may have been carried out: the heater is turned off. *)
PowerIsRefused ==
  /\ rpc.at = "command" /\ rpc.for # "query" /\ Refused("rpc")
  /\ RpcAt("off")
  /\ UNCHANGED <<opened, heaterOn, timer, turnOff, heater, wanted, doomed, misled>>

SettingBreaks ==
  /\ rpc.at = "command" /\ rpc.for # "query" /\ Broken("rpc")
  /\ Raise
  /\ doomed' = TRUE
  /\ UNCHANGED <<opened, heaterOn, timer, turnOff, heater, misled>>

(* close() goes on to close the instrument; after a failed setting the     *)
(* original exception is raised.  release_rpc_object() ends in the same    *)
(* way as close(): the object is gone.                                     *)
RpcHeaterIsOff ==
  /\ NothingToTurnOff("rpc") \/ TurnedOff("rpc")
  /\ IF rpc.for = "close" THEN opened' = FALSE /\ Return ELSE Raise /\ UNCHANGED opened
  /\ UNCHANGED timer

RpcGivesUp == GiveUp("rpc") /\ Raise /\ UNCHANGED <<opened, timer>>

-----------------------------------------------------------------------------
(* The timer thread                                                        *)

TimerFires ==
  /\ timer = "waiting"
  /\ timer' = "off"
  /\ UNCHANGED <<opened, heaterOn, rpc, turnOff, cmdVars, heater, wanted, doomed, misled>>

TimerEnds ==
  /\ NothingToTurnOff("timer") \/ TurnedOff("timer") \/ GiveUp("timer")
  /\ timer' = "ended"
  /\ UNCHANGED <<opened, rpc, wanted>>

-----------------------------------------------------------------------------
RpcStep ==
  \/ CancelTimer \/ SendCommand \/ QueryEnds
  \/ PowerIsSet \/ StartTimer \/ PowerIsRefused \/ SettingBreaks
  \/ SendOff("rpc") \/ RetryOff("rpc") \/ RpcHeaterIsOff \/ RpcGivesUp
TimerStep == TimerFires \/ SendOff("timer") \/ RetryOff("timer") \/ TimerEnds

Next == Open \/ Begin \/ RpcStep \/ TimerStep

Spec == Init /\ [][Next]_vars

(* Both threads go on with what they do: read() has a timeout, the timer a *)
(* duration, and a thread that waits for the command lock gets it although *)
(* the other takes it again and again.                                     *)
Fairness == WF_vars(RpcStep) /\ SF_vars(TimerStep)

FairSpec == Spec /\ Fairness

-----------------------------------------------------------------------------
TypeOK ==
  /\ opened \in BOOLEAN /\ heaterOn \in BOOLEAN /\ doomed \in BOOLEAN
  /\ timer \in {"none", "waiting", "off", "ended"}
  /\ rpc \in [for : {"none", "power", "burst", "close", "query"}, power : Powers,
              at : {"idle", "cancel", "command", "start", "off"}]
  /\ turnOff \in [Users -> 0 .. TurnOffHeaterRetry - 1]
  /\ talking \in Users \cup {Nobody} /\ done \in {"yes", "no"}
  /\ answers \in Seq({"ok", "other"})
  /\ heater \in Powers /\ wanted \in Powers \cup {Unknown} /\ misled \in BOOLEAN

(* The heater is on only while the instrument is open, and above the safe  *)
(* level only while something is about to end it: a timer that runs or     *)
(* turns it off, or a call that sets the power.  This holds whatever the   *)
(* cryostat refuses, answers late or does not answer, and whenever the     *)
(* timer fires, but for two cases: the driver has given up with an         *)
(* exception, or it was misled by a late answer (see NoBurstForgotten).    *)
HeaterIsWatched ==
  /\ heater > 0 => opened \/ misled
  /\ heater = Burst =>
       \/ timer \in {"waiting", "off"}
       \/ rpc.for \in {"power", "burst", "close"}
       \/ doomed \/ misled

(* "Discard any pending response that was meant for a previous command",   *)
(* "Turn the heater off to ensure a safe situation": a burst that nothing  *)
(* will end is one that the driver has given up on ("We are doomed.        *)
(* Report the error"), and never one that it believes to have turned off.  *)
NoBurstForgotten ==
  heater = Burst =>
    \/ timer \in {"waiting", "off"}
    \/ rpc.for \in {"power", "burst", "close"}
    \/ doomed

(* "to make sure the timer will not interfere": a power that a call has    *)
(* set for good stays until the next call that sets it, although the timer *)
(* of an earlier burst may fire during the call; unless the call never set *)
(* it, misled by a late answer.                                            *)
SettingStands ==
  rpc.for \in {"none", "query"} /\ wanted # Unknown => heater = wanted \/ misled

(* A burst ends without another call, unless the driver gives up or is     *)
(* misled by a late answer.                                                *)
BurstEnds == (heater = Burst) ~> (heater # Burst \/ doomed \/ misled \/ rpc.for = "burst")
=============================================================================
