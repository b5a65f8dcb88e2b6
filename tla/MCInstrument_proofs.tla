------------------------- MODULE MCInstrument_proofs -------------------------
(***************************************************************************)
(* Proofs about the threads that work for instruments: the timer of the    *)
(* platform heater of the Cryostation, whatever the cryostat does with its *)
(* commands, the writer of the HDF5 recorder, for any data sets and any    *)
(* number of calls, and the events of a time tagger, for any filter.  And  *)
(* about the drivers, for any table of them that keeps to DriverRules:     *)
(* what they leave behind when a method stops, and that they read what     *)
(* they ask for; a read of a stream that times out keeps what came in,     *)
(* whatever the table.                                                     *)
(***************************************************************************)
EXTENDS MCInstrument, EventFetcher_proofs

-----------------------------------------------------------------------------
(* The platform heater                                                     *)

(* What a call in the RPC thread is for says what it has still to do.      *)
HeaterCallInv ==
  /\ rpc.at = "idle" => rpc = Heater!Idle
  /\ rpc.for = "none" => rpc.at = "idle"
  /\ rpc.for = "query" => rpc.at = "command"
  /\ rpc.for = "power" => rpc.power # Heater!Burst /\ rpc.at # "start"
  /\ rpc.for = "close" => rpc.power = 0 /\ rpc.at \in {"cancel", "off"}
  /\ rpc.at = "start" => rpc.power > 0
  /\ rpc.at # "idle" => opened

(* A call that sets the power has no timer beside it once it has joined    *)
(* the thread, and no timer is left of a power that was set for good.      *)
HeaterTimerInv ==
  /\ rpc.for # "query" /\ rpc.at \in {"command", "start", "off"} => timer = "none"
  /\ rpc.for \in {"none", "query"} /\ wanted # Heater!Unknown => timer = "none"
  /\ timer # "none" => opened

(* Only a thread that has sent a command holds the lock; what it has sent  *)
(* is the power of the heater when the cryostat has carried it out.        *)
HeaterLockInv ==
  /\ talking = "rpc" => rpc.at \in {"command", "off"}
  /\ talking = "timer" => timer = "off"
  /\ talking = Heater!Nobody => done = "no"
  /\ talking = "rpc" /\ rpc.for = "query" => done = "no"
  /\ talking = "rpc" /\ done = "yes" => heater = IF rpc.at = "off" THEN 0 ELSE rpc.power
  /\ talking = "timer" /\ done = "yes" => heater = 0

(* The driver takes a heater that is on for one that is off, or for one    *)
(* that it has set, only when it is misled by a late answer.               *)
HeaterKnownInv ==
  /\ heater > 0 => heaterOn \/ misled
  /\ rpc.at = "start" => heater = rpc.power \/ misled

HeaterInv ==
  /\ Heater!TypeOK
  /\ HeaterCallInv /\ HeaterTimerInv /\ HeaterLockInv /\ HeaterKnownInv
  /\ HeaterIsWatched /\ SettingStands

-----------------------------------------------------------------------------
(* The answers on the way, which the rest of the proof does not look into. *)

Answers == Seq({"ok", "other"})

LEMMA AfterType ==
  ASSUME answers \in Answers, NEW k \in Nat PROVE Heater!After(k) \in Answers
<1>1. Len(answers) \in Nat  BY LenProperties DEF Answers
<1>2. \A i \in (k + 1) .. Len(answers) : answers[i] \in {"ok", "other"}
  <2>1. \A i \in (k + 1) .. Len(answers) : i \in 1 .. Len(answers)  BY <1>1
  <2> QED BY <2>1, ElementOfSeq DEF Answers
<1>3. k + 1 \in Int /\ Len(answers) \in Int  BY <1>1
<1> QED BY <1>2, <1>3, SubSeqProperties DEF Answers, Heater!After

LEMMA SendType ==
  ASSUME answers \in Answers, NEW u, NEW answer \in {"ok", "other"}, Heater!Send(u, answer)
  PROVE  answers' \in Answers /\ talking = Heater!Nobody /\ talking' = u
<1>1. Len(answers) \in Nat  BY LenProperties DEF Answers
<1>2. PICK k \in 0 .. Len(answers) :
        answers' = Heater!After(k) \/ answers' = Append(Heater!After(k), answer)
  BY DEF Heater!Send
<1>3. Heater!After(k) \in Answers  BY <1>1, AfterType
<1>4. Append(Heater!After(k), answer) \in Answers  BY <1>3, AppendProperties DEF Answers
<1> QED BY <1>2, <1>3, <1>4 DEF Heater!Send

LEMMA AcceptedType ==
  ASSUME answers \in Answers, NEW u, Heater!Accepted(u)
  PROVE  answers' \in Answers /\ Heater!Ends(u)
BY AfterType DEF Heater!Accepted

LEMMA FailsType ==
  ASSUME answers \in Answers, NEW u, Heater!Fails(u)
  PROVE  answers' \in Answers /\ Heater!Ends(u)
BY AfterType DEF Heater!Fails

-----------------------------------------------------------------------------

(* Everything the steps below need to see of the invariant and of a step.  *)
USE DEF HeaterInv, HeaterCallInv, HeaterTimerInv, HeaterLockInv, HeaterKnownInv,
        HeaterIsWatched, SettingStands, Heater!HeaterIsWatched, Heater!SettingStands,
        Heater!Idle, Heater!Powers, Heater!Safe, Heater!Burst, Heater!Users, Heater!Nobody,
        Heater!Unknown, Heater!TurnOffHeaterRetry, Heater!RpcAt, Heater!Call, Heater!cmdVars

(* The initial state.                                                      *)
LEMMA HeaterInit == Heater!Init => HeaterInv
<1> SUFFICES ASSUME Heater!Init PROVE HeaterInv OBVIOUS
<1> USE DEF Heater!Init
<1>1. Heater!TypeOK
  <2>1. rpc \in [for : {"none", "power", "burst", "close", "query"}, power : Heater!Powers,
                 at : {"idle", "cancel", "command", "start", "off"}]
    OBVIOUS
  <2>2. turnOff \in [Heater!Users -> 0 .. Heater!TurnOffHeaterRetry - 1]
    OBVIOUS
  <2>3. answers \in Seq({"ok", "other"})
    OBVIOUS
  <2> QED BY <2>1, <2>2, <2>3 DEF Heater!TypeOK
<1>2. HeaterCallInv /\ HeaterTimerInv  OBVIOUS
<1>3. HeaterLockInv /\ HeaterKnownInv  OBVIOUS
<1>4. HeaterIsWatched /\ SettingStands  OBVIOUS
<1> QED BY <1>1, <1>2, <1>3, <1>4

(* The calls begin.                                                        *)
LEMMA HeaterOpen == HeaterInv /\ Heater!Open => HeaterInv'
BY DEF Heater!TypeOK, Heater!Open

LEMMA HeaterBegin == HeaterInv /\ Heater!Begin => HeaterInv'
BY DEF Heater!TypeOK, Heater!Begin

(* The RPC thread: cancel() and join() leave no timer behind.              *)
LEMMA HeaterCancelTimer == HeaterInv /\ Heater!CancelTimer => HeaterInv'
BY DEF Heater!TypeOK, Heater!CancelTimer

(* Either thread sends a command only when it gets the lock.               *)
LEMMA HeaterSendCommand == HeaterInv /\ Heater!SendCommand => HeaterInv'
<1> SUFFICES ASSUME HeaterInv, Heater!SendCommand PROVE HeaterInv' OBVIOUS
<1>0. answers' \in Answers /\ talking = Heater!Nobody /\ talking' = "rpc"
  <2>1. answers \in Answers  BY DEF Answers, Heater!TypeOK
  <2> QED BY <2>1, SendType DEF Heater!SendCommand, Heater!SendQuery, Heater!SendPower
<1> USE <1>0 DEF Answers, Heater!TypeOK, Heater!SendCommand, Heater!SendQuery, Heater!SendPower
<1>1. Heater!TypeOK'    OBVIOUS
<1>2. HeaterCallInv'     OBVIOUS
<1>3. HeaterTimerInv'    OBVIOUS
<1>4. HeaterLockInv'     OBVIOUS
<1>5. HeaterKnownInv'    OBVIOUS
<1>6. HeaterIsWatched'   OBVIOUS
<1>7. SettingStands'     OBVIOUS
<1> QED BY <1>1, <1>2, <1>3, <1>4, <1>5, <1>6, <1>7

LEMMA HeaterRpcSendOff == HeaterInv /\ Heater!SendOff("rpc") => HeaterInv'
<1> SUFFICES ASSUME HeaterInv, Heater!SendOff("rpc") PROVE HeaterInv' OBVIOUS
<1>0. answers' \in Answers /\ talking = Heater!Nobody /\ talking' = "rpc"
  <2>1. answers \in Answers  BY DEF Answers, Heater!TypeOK
  <2> QED BY <2>1, SendType DEF Heater!SendOff, Heater!SendPower
<1> USE <1>0 DEF Answers, Heater!TypeOK, Heater!SendOff, Heater!TurnOffAt, Heater!SendPower
<1>1. Heater!TypeOK'
  <2>1. opened' = opened /\ timer' = timer /\ rpc' = rpc /\ turnOff' = turnOff
        /\ wanted' = wanted /\ doomed' = doomed
    OBVIOUS
  <2>2. heaterOn' \in BOOLEAN
    OBVIOUS
  <2>3. misled' \in BOOLEAN
    OBVIOUS
  <2>4. heater' \in Heater!Powers /\ done' \in {"yes", "no"}
    OBVIOUS
  <2> HIDE DEF Heater!SendOff, Heater!SendPower, Heater!TurnOffAt
  <2> QED BY <2>1, <2>2, <2>3, <2>4
<1>2. HeaterCallInv'     OBVIOUS
<1>3. HeaterTimerInv'    OBVIOUS
<1>4. HeaterLockInv'     OBVIOUS
<1>5. HeaterKnownInv'    OBVIOUS
<1>6. HeaterIsWatched'   OBVIOUS
<1>7. SettingStands'     OBVIOUS
<1> QED BY <1>1, <1>2, <1>3, <1>4, <1>5, <1>6, <1>7

LEMMA HeaterTimerSendOff == HeaterInv /\ Heater!SendOff("timer") => HeaterInv'
<1> SUFFICES ASSUME HeaterInv, Heater!SendOff("timer") PROVE HeaterInv' OBVIOUS
<1>0. answers' \in Answers /\ talking = Heater!Nobody /\ talking' = "timer"
  <2>1. answers \in Answers  BY DEF Answers, Heater!TypeOK
  <2> QED BY <2>1, SendType DEF Heater!SendOff, Heater!SendPower
<1> USE <1>0 DEF Answers, Heater!TypeOK, Heater!SendOff, Heater!TurnOffAt, Heater!SendPower
<1>1. Heater!TypeOK'
  <2>1. opened' = opened /\ timer' = timer /\ rpc' = rpc /\ turnOff' = turnOff
        /\ wanted' = wanted /\ doomed' = doomed
    OBVIOUS
  <2>2. heaterOn' \in BOOLEAN
    OBVIOUS
  <2>3. misled' \in BOOLEAN
    OBVIOUS
  <2>4. heater' \in Heater!Powers /\ done' \in {"yes", "no"}
    OBVIOUS
  <2> HIDE DEF Heater!SendOff, Heater!SendPower, Heater!TurnOffAt
  <2> QED BY <2>1, <2>2, <2>3, <2>4
<1>2. HeaterCallInv'     OBVIOUS
<1>3. HeaterTimerInv'    OBVIOUS
<1>4. HeaterLockInv'     OBVIOUS
<1>5. HeaterKnownInv'    OBVIOUS
<1>6. HeaterIsWatched'   OBVIOUS
<1>7. SettingStands'     OBVIOUS
<1> QED BY <1>1, <1>2, <1>3, <1>4, <1>5, <1>6, <1>7

(* The answers to a command.                                               *)
LEMMA HeaterQueryEnds == HeaterInv /\ Heater!QueryEnds => HeaterInv'
<1> SUFFICES ASSUME HeaterInv, Heater!QueryEnds PROVE HeaterInv' OBVIOUS
<1>0. answers' \in Answers
  <2>1. answers \in Answers  BY DEF Answers, Heater!TypeOK
  <2> QED BY <2>1, AfterType DEF Heater!QueryEnds
<1> USE <1>0 DEF Answers, Heater!TypeOK, Heater!QueryEnds, Heater!Ends, Heater!Return
<1>1. Heater!TypeOK'    OBVIOUS
<1>2. HeaterCallInv'     OBVIOUS
<1>3. HeaterTimerInv'    OBVIOUS
<1>4. HeaterLockInv'     OBVIOUS
<1>5. HeaterKnownInv'    OBVIOUS
<1>6. HeaterIsWatched'   OBVIOUS
<1>7. SettingStands'     OBVIOUS
<1> QED BY <1>1, <1>2, <1>3, <1>4, <1>5, <1>6, <1>7

LEMMA HeaterPowerIsSet == HeaterInv /\ Heater!PowerIsSet => HeaterInv'
<1> SUFFICES ASSUME HeaterInv, Heater!PowerIsSet PROVE HeaterInv' OBVIOUS
<1>0. answers' \in Answers /\ Heater!Ends("rpc")
  <2>1. answers \in Answers  BY DEF Answers, Heater!TypeOK
  <2> QED BY <2>1, AcceptedType DEF Heater!PowerIsSet
<1> USE <1>0 DEF Answers, Heater!TypeOK, Heater!PowerIsSet, Heater!Ends, Heater!Believed,
            Heater!Return
<1>1. Heater!TypeOK'
  <2>1. rpc' \in [for : {"none", "power", "burst", "close", "query"}, power : Heater!Powers,
                  at : {"idle", "cancel", "command", "start", "off"}]
    OBVIOUS
  <2>2. wanted' \in Heater!Powers \cup {Heater!Unknown}
    OBVIOUS
  <2>3. turnOff' = turnOff /\ timer' = timer /\ opened' = opened /\ heater' = heater
    OBVIOUS
  <2>4. heaterOn' \in BOOLEAN /\ doomed' = FALSE /\ talking' = Heater!Nobody /\ done' = "no"
    OBVIOUS
  <2>5. misled' \in BOOLEAN
    OBVIOUS
  <2> HIDE DEF Heater!PowerIsSet, Heater!Return, Heater!Ends, Heater!Believed
  <2> QED BY <2>1, <2>2, <2>3, <2>4, <2>5
<1>2. HeaterCallInv'     OBVIOUS
<1>3. HeaterTimerInv'    OBVIOUS
<1>4. HeaterLockInv'     OBVIOUS
<1>5. HeaterKnownInv'
  <2>1. heater' = heater /\ heater \in Heater!Powers /\ rpc.power \in Heater!Powers
    OBVIOUS
  <2>2. (heaterOn' = TRUE) <=> rpc.power > 0
    OBVIOUS
  <2>3. (misled' = TRUE) <=> (done = "no" /\ heater # rpc.power)
    OBVIOUS
  <2>4. done = "no" \/ heater = rpc.power
    OBVIOUS
  <2>5. rpc'.power = rpc.power \/ rpc'.at = "idle"
    OBVIOUS
  <2>6. CASE heater = rpc.power
    BY <2>1, <2>2, <2>5, <2>6
  <2>7. CASE heater # rpc.power
    <3>1. misled' = TRUE  BY <2>3, <2>4, <2>7
    <3> QED BY <3>1
  <2> QED BY <2>6, <2>7
<1>6. HeaterIsWatched'   OBVIOUS
<1>7. SettingStands'     OBVIOUS
<1> QED BY <1>1, <1>2, <1>3, <1>4, <1>5, <1>6, <1>7

LEMMA HeaterStartTimer == HeaterInv /\ Heater!StartTimer => HeaterInv'
BY DEF Heater!TypeOK, Heater!StartTimer, Heater!Return

LEMMA HeaterPowerIsRefused == HeaterInv /\ Heater!PowerIsRefused => HeaterInv'
<1> SUFFICES ASSUME HeaterInv, Heater!PowerIsRefused PROVE HeaterInv' OBVIOUS
<1>0. answers' \in Answers /\ Heater!Ends("rpc")
  <2>1. answers \in Answers  BY DEF Answers, Heater!TypeOK
  <2> QED BY <2>1, FailsType DEF Heater!PowerIsRefused, Heater!Refused
<1> USE <1>0 DEF Answers, Heater!TypeOK, Heater!PowerIsRefused, Heater!Ends
<1>1. Heater!TypeOK'    OBVIOUS
<1>2. HeaterCallInv'     OBVIOUS
<1>3. HeaterTimerInv'    OBVIOUS
<1>4. HeaterLockInv'     OBVIOUS
<1>5. HeaterKnownInv'    OBVIOUS
<1>6. HeaterIsWatched'   OBVIOUS
<1>7. SettingStands'     OBVIOUS
<1> QED BY <1>1, <1>2, <1>3, <1>4, <1>5, <1>6, <1>7

LEMMA HeaterSettingBreaks == HeaterInv /\ Heater!SettingBreaks => HeaterInv'
<1> SUFFICES ASSUME HeaterInv, Heater!SettingBreaks PROVE HeaterInv' OBVIOUS
<1>0. answers' \in Answers /\ Heater!Ends("rpc")
  <2>1. answers \in Answers  BY DEF Answers, Heater!TypeOK
  <2> QED BY <2>1, FailsType DEF Heater!SettingBreaks, Heater!Broken
<1> USE <1>0 DEF Answers, Heater!TypeOK, Heater!SettingBreaks, Heater!Ends, Heater!Raise
<1>1. Heater!TypeOK'    OBVIOUS
<1>2. HeaterCallInv'     OBVIOUS
<1>3. HeaterTimerInv'    OBVIOUS
<1>4. HeaterLockInv'     OBVIOUS
<1>5. HeaterKnownInv'    OBVIOUS
<1>6. HeaterIsWatched'   OBVIOUS
<1>7. SettingStands'     OBVIOUS
<1> QED BY <1>1, <1>2, <1>3, <1>4, <1>5, <1>6, <1>7

(* Turning the heater off, in either thread.                               *)
LEMMA HeaterRpcRetryOff == HeaterInv /\ Heater!RetryOff("rpc") => HeaterInv'
<1> SUFFICES ASSUME HeaterInv, Heater!RetryOff("rpc") PROVE HeaterInv' OBVIOUS
<1>0. answers' \in Answers /\ Heater!Ends("rpc")
  <2>1. answers \in Answers  BY DEF Answers, Heater!TypeOK
  <2> QED BY <2>1, FailsType DEF Heater!RetryOff, Heater!Refused
<1> USE <1>0 DEF Answers, Heater!TypeOK, Heater!RetryOff, Heater!TurnOffAt, Heater!Ends
<1>1. Heater!TypeOK'    OBVIOUS
<1>2. HeaterCallInv'     OBVIOUS
<1>3. HeaterTimerInv'    OBVIOUS
<1>4. HeaterLockInv'     OBVIOUS
<1>5. HeaterKnownInv'    OBVIOUS
<1>6. HeaterIsWatched'   OBVIOUS
<1>7. SettingStands'     OBVIOUS
<1> QED BY <1>1, <1>2, <1>3, <1>4, <1>5, <1>6, <1>7

LEMMA HeaterTimerRetryOff == HeaterInv /\ Heater!RetryOff("timer") => HeaterInv'
<1> SUFFICES ASSUME HeaterInv, Heater!RetryOff("timer") PROVE HeaterInv' OBVIOUS
<1>0. answers' \in Answers /\ Heater!Ends("timer")
  <2>1. answers \in Answers  BY DEF Answers, Heater!TypeOK
  <2> QED BY <2>1, FailsType DEF Heater!RetryOff, Heater!Refused
<1> USE <1>0 DEF Answers, Heater!TypeOK, Heater!RetryOff, Heater!TurnOffAt, Heater!Ends
<1>1. Heater!TypeOK'    OBVIOUS
<1>2. HeaterCallInv'     OBVIOUS
<1>3. HeaterTimerInv'    OBVIOUS
<1>4. HeaterLockInv'     OBVIOUS
<1>5. HeaterKnownInv'    OBVIOUS
<1>6. HeaterIsWatched'   OBVIOUS
<1>7. SettingStands'     OBVIOUS
<1> QED BY <1>1, <1>2, <1>3, <1>4, <1>5, <1>6, <1>7

LEMMA HeaterRpcHeaterIsOff == HeaterInv /\ Heater!RpcHeaterIsOff => HeaterInv'
<1> SUFFICES ASSUME HeaterInv, Heater!RpcHeaterIsOff PROVE HeaterInv' OBVIOUS
<1>0. answers' \in Answers /\ (Heater!TurnedOff("rpc") => Heater!Ends("rpc"))
  <2>1. answers \in Answers  BY DEF Answers, Heater!TypeOK
  <2>2. CASE Heater!NothingToTurnOff("rpc")
    BY <2>1, <2>2 DEF Heater!NothingToTurnOff, Heater!TurnedOff, Heater!Accepted
  <2>3. CASE Heater!TurnedOff("rpc")  BY <2>1, <2>3, AcceptedType DEF Heater!TurnedOff
  <2> QED BY <2>2, <2>3 DEF Heater!RpcHeaterIsOff
<1> USE <1>0 DEF Answers, Heater!TypeOK, Heater!RpcHeaterIsOff, Heater!NothingToTurnOff,
            Heater!TurnedOff, Heater!TurnOffAt, Heater!Ends, Heater!Believed,
            Heater!Return, Heater!Raise
<1>1. Heater!TypeOK'
  <2>1. opened' \in BOOLEAN /\ heaterOn' \in BOOLEAN /\ doomed' \in BOOLEAN
    OBVIOUS
  <2>2. turnOff' \in [Heater!Users -> 0 .. Heater!TurnOffHeaterRetry - 1]
    OBVIOUS
  <2>3. talking' = Heater!Nobody /\ done' = "no" /\ heater' = heater /\ misled' \in BOOLEAN
    OBVIOUS
  <2>4. timer' \in {"none", "waiting", "off", "ended"}
    OBVIOUS
  <2>5. rpc' \in [for : {"none", "power", "burst", "close", "query"}, power : Heater!Powers,
                  at : {"idle", "cancel", "command", "start", "off"}]
    OBVIOUS
  <2>6. wanted' \in Heater!Powers \cup {Heater!Unknown}
    OBVIOUS
  <2> HIDE DEF Heater!RpcHeaterIsOff, Heater!NothingToTurnOff, Heater!TurnedOff
  <2> QED BY <2>1, <2>2, <2>3, <2>4, <2>5, <2>6
<1>2. HeaterCallInv'     OBVIOUS
<1>3. HeaterTimerInv'    OBVIOUS
<1>4. HeaterLockInv'     OBVIOUS
<1>5. HeaterKnownInv'    OBVIOUS
<1>6. HeaterIsWatched'   OBVIOUS
<1>7. SettingStands'     OBVIOUS
<1> QED BY <1>1, <1>2, <1>3, <1>4, <1>5, <1>6, <1>7

LEMMA HeaterRpcGivesUp == HeaterInv /\ Heater!RpcGivesUp => HeaterInv'
<1> SUFFICES ASSUME HeaterInv, Heater!RpcGivesUp PROVE HeaterInv' OBVIOUS
<1>0. answers' \in Answers /\ Heater!Ends("rpc")
  <2>1. answers \in Answers  BY DEF Answers, Heater!TypeOK
  <2> QED BY <2>1, FailsType DEF Heater!RpcGivesUp, Heater!GiveUp, Heater!Broken, Heater!Refused
<1> USE <1>0 DEF Answers, Heater!TypeOK, Heater!RpcGivesUp, Heater!GiveUp, Heater!TurnOffAt,
            Heater!Ends, Heater!Raise
<1>1. Heater!TypeOK'    OBVIOUS
<1>2. HeaterCallInv'     OBVIOUS
<1>3. HeaterTimerInv'    OBVIOUS
<1>4. HeaterLockInv'     OBVIOUS
<1>5. HeaterKnownInv'    OBVIOUS
<1>6. HeaterIsWatched'   OBVIOUS
<1>7. SettingStands'     OBVIOUS
<1> QED BY <1>1, <1>2, <1>3, <1>4, <1>5, <1>6, <1>7

LEMMA HeaterTimerFires == HeaterInv /\ Heater!TimerFires => HeaterInv'
BY DEF Heater!TypeOK, Heater!TimerFires

LEMMA HeaterTimerEnds == HeaterInv /\ Heater!TimerEnds => HeaterInv'
<1> SUFFICES ASSUME HeaterInv, Heater!TimerEnds PROVE HeaterInv' OBVIOUS
<1>0. /\ answers' \in Answers
      /\ Heater!TurnedOff("timer") \/ Heater!GiveUp("timer") => Heater!Ends("timer")
  <2>1. answers \in Answers  BY DEF Answers, Heater!TypeOK
  <2>2. CASE Heater!TurnedOff("timer")  BY <2>1, <2>2, AcceptedType DEF Heater!TurnedOff
  <2>3. CASE Heater!GiveUp("timer")
    BY <2>1, <2>3, FailsType DEF Heater!GiveUp, Heater!Broken, Heater!Refused
  <2>4. CASE ~Heater!TurnedOff("timer") /\ ~Heater!GiveUp("timer")
    BY <2>1, <2>4 DEF Heater!TimerEnds, Heater!NothingToTurnOff, Heater!cmdVars
  <2> QED BY <2>2, <2>3, <2>4
<1> USE <1>0 DEF Answers, Heater!TypeOK, Heater!TimerEnds, Heater!NothingToTurnOff,
            Heater!TurnedOff, Heater!GiveUp, Heater!TurnOffAt, Heater!Believed, Heater!Ends
<1>1. Heater!TypeOK'
  <2>1. opened' \in BOOLEAN /\ heaterOn' \in BOOLEAN /\ doomed' \in BOOLEAN
    OBVIOUS
  <2>2. turnOff' \in [Heater!Users -> 0 .. Heater!TurnOffHeaterRetry - 1]
    OBVIOUS
  <2>3. talking' \in Heater!Users \cup {Heater!Nobody} /\ done' \in {"yes", "no"} /\ heater' = heater
        /\ misled' \in BOOLEAN
    OBVIOUS
  <2>4. timer' \in {"none", "waiting", "off", "ended"}
    OBVIOUS
  <2>5. rpc' \in [for : {"none", "power", "burst", "close", "query"}, power : Heater!Powers,
                  at : {"idle", "cancel", "command", "start", "off"}]
    OBVIOUS
  <2>6. wanted' \in Heater!Powers \cup {Heater!Unknown}
    OBVIOUS
  <2> HIDE DEF Heater!TimerEnds, Heater!NothingToTurnOff, Heater!TurnedOff, Heater!GiveUp
  <2> QED BY <2>1, <2>2, <2>3, <2>4, <2>5, <2>6
<1>2. HeaterCallInv'     OBVIOUS
<1>3. HeaterTimerInv'    OBVIOUS
<1>4. HeaterLockInv'     OBVIOUS
<1>5. HeaterKnownInv'    OBVIOUS
<1>6. HeaterIsWatched'   OBVIOUS
<1>7. SettingStands'     OBVIOUS
<1> QED BY <1>1, <1>2, <1>3, <1>4, <1>5, <1>6, <1>7

(* Every step of the two threads.                                          *)
LEMMA HeaterStep == HeaterInv /\ Heater!Next => HeaterInv'
<1> SUFFICES ASSUME HeaterInv, Heater!Next PROVE HeaterInv' OBVIOUS
<1>1. CASE Heater!Open \/ Heater!Begin  BY <1>1, HeaterOpen, HeaterBegin
<1>2. CASE Heater!RpcStep
  BY <1>2, HeaterCancelTimer, HeaterSendCommand, HeaterQueryEnds, HeaterPowerIsSet,
     HeaterStartTimer, HeaterPowerIsRefused, HeaterSettingBreaks, HeaterRpcSendOff,
     HeaterRpcRetryOff, HeaterRpcHeaterIsOff, HeaterRpcGivesUp
  DEF Heater!RpcStep
<1>3. CASE Heater!TimerStep
  BY <1>3, HeaterTimerFires, HeaterTimerSendOff, HeaterTimerRetryOff, HeaterTimerEnds
  DEF Heater!TimerStep
<1> QED BY <1>1, <1>2, <1>3 DEF Heater!Next

(* The rest of the instruments leaves the heater alone.                    *)
LEMMA HeaterUnchanged == HeaterInv /\ UNCHANGED heaterVars => HeaterInv'
BY DEF heaterVars, Heater!TypeOK

HIDE DEF HeaterInv, HeaterCallInv, HeaterTimerInv, HeaterLockInv, HeaterKnownInv,
         HeaterIsWatched, SettingStands, Heater!HeaterIsWatched, Heater!SettingStands,
         Heater!Idle, Heater!Powers, Heater!Safe, Heater!Burst, Heater!Users, Heater!Nobody,
         Heater!Unknown, Heater!TurnOffHeaterRetry, Heater!RpcAt, Heater!Call, Heater!cmdVars

LEMMA HeaterInvariant == MCSpec => []HeaterInv
<1>1. MCInit => HeaterInv
  BY HeaterInit DEF MCInit
<1>2. HeaterInv /\ [MCNext]_allVars => HeaterInv'
  BY HeaterStep, HeaterUnchanged DEF MCNext, allVars
<1> QED BY <1>1, <1>2, PTL DEF MCSpec

(* The heater is on only while the instrument is open, and above the safe  *)
(* level only while something is about to end it, unless the driver has    *)
(* given up, or has taken the late OK of an earlier command for that of    *)
(* one that was refused (_execute_command() of the Montana Cryostation).   *)
THEOREM BurstsAreWatched == MCSpec => []HeaterIsWatched
<1>1. HeaterInv => HeaterIsWatched  BY DEF HeaterInv
<1> QED BY <1>1, HeaterInvariant, PTL

(* A power set for good stays, whenever the timer of an earlier burst      *)
(* fires, unless the driver was misled in the same way.                    *)
THEOREM PowerStands == MCSpec => []SettingStands
<1>1. HeaterInv => SettingStands  BY DEF HeaterInv
<1> QED BY <1>1, HeaterInvariant, PTL

-----------------------------------------------------------------------------
(* The recorder                                                            *)

RecorderTypeOK ==
  /\ recordings \in [DataSets -> Seq(Nat)] /\ taken \in [DataSets -> Seq(Nat)]
  /\ file \in [DataSets -> Seq(Nat)] /\ recorded \in [DataSets -> Seq(Nat)]
  /\ attributes \in [Recorder!Owners -> Nat] /\ newAttributes \in [Recorder!Owners -> Nat]
  /\ pendingAttributes \in [Recorder!Owners -> Nat]
  /\ fileAttributes \in [Recorder!Owners -> Nat] /\ lastSet \in [Recorder!Owners -> Nat]
  /\ writer \in {"waiting", "writing", "ended", "died"}
  /\ quitflag \in BOOLEAN /\ shutdown \in BOOLEAN
  /\ left \subseteq DataSets /\ calls \in Nat

(* The buffers the writer gives back to the callers are empty, and what it *)
(* takes after close() is the last there is.                               *)
WriterInv ==
  /\ writer = "waiting" => taken = Recorder!NoData /\ newAttributes = Recorder!NoAttributes
  /\ writer \in {"waiting", "ended"} => left = {}
  /\ \A d \in left : taken[d] # <<>>
  /\ quitflag => /\ shutdown
                 /\ recordings = Recorder!NoData /\ attributes = Recorder!NoAttributes
  /\ writer = "ended" => quitflag /\ newAttributes = Recorder!NoAttributes

(* Attributes wait only for a data set that is not there.                  *)
PendingInv == \A d \in Recorder!Owners : pendingAttributes[d] # 0 => ~Recorder!Exists(d)

(* AttributesAreKept, one owner at a time: the value in the last place.    *)
Standing(d) ==
  IF attributes[d] # 0 THEN attributes[d]
  ELSE IF newAttributes[d] # 0 THEN newAttributes[d]
  ELSE IF pendingAttributes[d] # 0 THEN pendingAttributes[d] ELSE fileAttributes[d]
StandingInv == \A d \in Recorder!Owners : lastSet[d] = Standing(d)

RecorderInv ==
  RecorderTypeOK /\ WriterInv /\ PendingInv /\ StandingInv /\ Recorder!DataIsKept

(* Concatenation as the buffers use it.                                    *)
LEMMA Buffers ==
  ASSUME NEW s \in Seq(Nat), NEW t \in Seq(Nat), NEW n \in Nat
  PROVE  /\ s \o t \in Seq(Nat) /\ s \o <<>> = s
         /\ Append(s \o t, n) = s \o Append(t, n)
         /\ t # <<>> => s \o t # <<>>
<1>1. s \o t \in Seq(Nat) /\ s \o <<>> = s  OBVIOUS
<1>2. Append(s \o t, n) = s \o Append(t, n)
  <2>1. Append(s \o t, n) = (s \o t) \o <<n>> /\ Append(t, n) = t \o <<n>>
    BY <1>1, AppendIsConcat
  <2> QED BY <2>1, ConcatAssociative
<1>3. t # <<>> => s \o t # <<>>  OBVIOUS
<1> QED BY <1>1, <1>2, <1>3

LEMMA RecorderInit == Recorder!Init => RecorderInv
<1> SUFFICES ASSUME Recorder!Init PROVE RecorderInv OBVIOUS
<1> USE DEF Recorder!Init, Recorder!NoData, Recorder!NoAttributes
<1>1. RecorderTypeOK
  <2>1. <<>> \in Seq(Nat)  OBVIOUS
  <2>2. Recorder!NoData \in [DataSets -> Seq(Nat)]  BY <2>1
  <2>3. Recorder!NoAttributes \in [Recorder!Owners -> Nat]  OBVIOUS
  <2> HIDE DEF Recorder!NoData, Recorder!NoAttributes
  <2> QED BY <2>2, <2>3 DEF RecorderTypeOK
<1>2. WriterInv  BY DEF WriterInv
<1>3. PendingInv  BY DEF PendingInv
<1>4. StandingInv  BY DEF StandingInv, Standing
<1>5. Recorder!DataIsKept
  BY Buffers DEF Recorder!DataIsKept
<1> QED BY <1>1, <1>2, <1>3, <1>4, <1>5 DEF RecorderInv

LEMMA RecorderRecord ==
  ASSUME NEW e \in DataSets, RecorderInv, Recorder!Record(e) PROVE RecorderInv'
<1> USE DEF RecorderInv, Recorder!Record, Recorder!writerVars, Recorder!fileVars
<1>1. RecorderTypeOK'  BY DEF RecorderTypeOK
<1>2. WriterInv'  BY DEF RecorderTypeOK, WriterInv
<1>3. PendingInv'  BY DEF PendingInv, Recorder!Exists
<1>4. StandingInv'  BY DEF StandingInv, Standing
<1>5. Recorder!DataIsKept'
  <2> SUFFICES ASSUME NEW d \in DataSets
               PROVE  recorded'[d] = file[d] \o (IF d \in left THEN taken[d] ELSE <<>>) \o recordings'[d]
    BY DEF Recorder!DataIsKept
  <2>1. file[d] \o (IF d \in left THEN taken[d] ELSE <<>>) \in Seq(Nat)
    BY Buffers DEF RecorderTypeOK
  <2>2. recorded[d] = file[d] \o (IF d \in left THEN taken[d] ELSE <<>>) \o recordings[d]
    BY DEF Recorder!DataIsKept
  <2>3. recordings[d] \in Seq(Nat) /\ calls' \in Nat  BY DEF RecorderTypeOK
  <2>4. CASE d = e
    <3>1. recordings'[d] = Append(recordings[d], calls') /\ recorded'[d] = Append(recorded[d], calls')
      BY <2>4 DEF RecorderTypeOK
    <3> DEFINE front == file[d] \o (IF d \in left THEN taken[d] ELSE <<>>)
    <3>2. front \in Seq(Nat) /\ recorded'[d] = Append(front \o recordings[d], calls')
      BY <2>1, <2>2, <3>1
    <3> HIDE DEF front, RecorderInv, Recorder!Record
    <3>3. Append(front \o recordings[d], calls') = front \o Append(recordings[d], calls')
      <4>1. \A s, t \in Seq(Nat), n \in Nat : Append(s \o t, n) = s \o Append(t, n)
        BY Buffers
      <4>2. front \in Seq(Nat)  BY <3>2
      <4> QED BY <2>3, <4>1, <4>2, Zenon
    <3>4. recorded'[d] = front \o recordings'[d]
      BY <3>1, <3>2, <3>3
    <3> QED BY <3>4 DEF front
  <2>5. CASE d # e
    <3>1. recordings'[d] = recordings[d] /\ recorded'[d] = recorded[d]
      BY <2>5 DEF RecorderTypeOK
    <3> QED BY <2>2, <3>1
  <2> QED BY <2>4, <2>5
<1> QED BY <1>1, <1>2, <1>3, <1>4, <1>5

LEMMA RecorderSetAttribute ==
  ASSUME NEW e \in Recorder!Owners, RecorderInv, Recorder!SetAttribute(e) PROVE RecorderInv'
<1> USE DEF RecorderInv, Recorder!SetAttribute, Recorder!writerVars, Recorder!fileVars
<1>1. RecorderTypeOK'  BY DEF RecorderTypeOK
<1>2. WriterInv'  BY DEF RecorderTypeOK, WriterInv
<1>3. PendingInv'  BY DEF PendingInv, Recorder!Exists
<1>4. StandingInv'  BY DEF RecorderTypeOK, StandingInv, Standing
<1>5. Recorder!DataIsKept'  BY DEF Recorder!DataIsKept
<1> QED BY <1>1, <1>2, <1>3, <1>4, <1>5

(* close() and a writer that dies.                                         *)
LEMMA RecorderEnds ==
  ASSUME RecorderInv, Recorder!Close \/ Recorder!WriteFails PROVE RecorderInv'
<1> USE DEF RecorderInv, Recorder!Close, Recorder!WriteFails, Recorder!sharedVars,
            Recorder!writerVars, Recorder!fileVars, Recorder!ghostVars
<1>1. RecorderTypeOK'  BY DEF RecorderTypeOK
<1>2. WriterInv'  BY DEF WriterInv
<1>3. PendingInv'  BY DEF PendingInv, Recorder!Exists
<1>4. StandingInv'  BY DEF StandingInv, Standing
<1>5. Recorder!DataIsKept'  BY DEF Recorder!DataIsKept
<1> QED BY <1>1, <1>2, <1>3, <1>4, <1>5

LEMMA RecorderSwap ==
  ASSUME RecorderInv, Recorder!Swap PROVE RecorderInv'
<1> USE DEF RecorderInv, Recorder!Swap, Recorder!fileVars, Recorder!ghostVars
<1>1. RecorderTypeOK'  BY DEF RecorderTypeOK
<1>2. WriterInv'  BY DEF WriterInv
<1>3. PendingInv'  BY DEF PendingInv, Recorder!Exists
<1>4. StandingInv'
  BY DEF WriterInv, StandingInv, Standing, Recorder!NoAttributes
<1>5. Recorder!DataIsKept'
  <2> SUFFICES ASSUME NEW d \in DataSets
               PROVE  recorded[d] = file[d] \o (IF d \in left' THEN recordings[d] ELSE <<>>) \o taken[d]
    BY DEF Recorder!DataIsKept
  <2>1. recorded[d] = file[d] \o <<>> \o recordings[d] /\ taken[d] = <<>>
    BY DEF Recorder!DataIsKept, WriterInv, Recorder!NoData
  <2>2. d \notin left' => recordings[d] = <<>>  OBVIOUS
  <2>3. file[d] \in Seq(Nat) /\ recordings[d] \in Seq(Nat)  BY DEF RecorderTypeOK
  <2> QED BY <2>1, <2>2, <2>3, Buffers
<1> QED BY <1>1, <1>2, <1>3, <1>4, <1>5

LEMMA RecorderWriteDataSet ==
  ASSUME NEW e \in DataSets, RecorderInv, Recorder!WriteDataSet(e) PROVE RecorderInv'
<1> USE DEF RecorderInv, Recorder!WriteDataSet, Recorder!sharedVars, Recorder!ghostVars
<1>0. e \in Recorder!Owners  BY DEF Recorder!Owners
<1>1. RecorderTypeOK'
  <2>1. file' \in [DataSets -> Seq(Nat)]  BY Buffers DEF RecorderTypeOK
  <2>2. Recorder!AttributesOfDataSet(e) \in Nat
    BY <1>0 DEF RecorderTypeOK, Recorder!AttributesOfDataSet, Recorder!Updated
  <2> QED BY <2>1, <2>2 DEF RecorderTypeOK
<1>2. WriterInv'  BY DEF WriterInv
<1>3. PendingInv'
  <2> SUFFICES ASSUME NEW d \in Recorder!Owners, pendingAttributes'[d] # 0
               PROVE  ~Recorder!Exists(d)'
    BY DEF PendingInv
  <2>1. d # e /\ ~Recorder!Exists(d)  BY DEF RecorderTypeOK, PendingInv
  <2> QED BY <2>1 DEF RecorderTypeOK, Recorder!Exists
<1>4. StandingInv'
  <2> SUFFICES ASSUME NEW d \in Recorder!Owners PROVE lastSet[d] = Standing(d)'
    BY DEF StandingInv
  <2>1. lastSet[d] = Standing(d)  BY DEF StandingInv
  <2>2. CASE d # e  BY <2>1, <2>2 DEF RecorderTypeOK, Standing
  <2>3. CASE d = e
    BY <1>0, <2>1, <2>3 DEF RecorderTypeOK, Standing, Recorder!AttributesOfDataSet, Recorder!Updated
  <2> QED BY <2>2, <2>3
<1>5. Recorder!DataIsKept'
  <2> SUFFICES ASSUME NEW d \in DataSets
               PROVE  recorded[d] = file'[d] \o (IF d \in left' THEN taken[d] ELSE <<>>) \o recordings[d]
    BY DEF Recorder!DataIsKept
  <2>1. recorded[d] = file[d] \o (IF d \in left THEN taken[d] ELSE <<>>) \o recordings[d]
    BY DEF Recorder!DataIsKept
  <2>2. CASE d = e
    <3>1. file'[d] = file[d] \o taken[d] /\ file'[d] \in Seq(Nat) /\ d \notin left' /\ d \in left
      BY <1>1, <2>2 DEF RecorderTypeOK
    <3> QED BY <2>1, <3>1, Buffers
  <2>3. CASE d # e  BY <2>1, <2>3 DEF RecorderTypeOK
  <2> QED BY <2>2, <2>3
<1> QED BY <1>1, <1>2, <1>3, <1>4, <1>5

LEMMA RecorderFinishWriting ==
  ASSUME RecorderInv, Recorder!FinishWriting PROVE RecorderInv'
<1> USE DEF RecorderInv, Recorder!FinishWriting, Recorder!sharedVars, Recorder!ghostVars
<1>1. RecorderTypeOK'
  BY DEF RecorderTypeOK, Recorder!Updated, Recorder!NoData, Recorder!NoAttributes
<1>2. WriterInv'  BY DEF RecorderTypeOK, WriterInv, Recorder!Quits
<1>3. PendingInv'  BY DEF PendingInv, Recorder!Exists
<1>4. StandingInv'
  BY DEF RecorderTypeOK, PendingInv, StandingInv, Standing, Recorder!Updated, Recorder!NoAttributes
<1>5. Recorder!DataIsKept'  BY DEF Recorder!DataIsKept
<1> QED BY <1>1, <1>2, <1>3, <1>4, <1>5

LEMMA RecorderUnchanged ==
  ASSUME RecorderInv, UNCHANGED recorderVars PROVE RecorderInv'
BY DEF RecorderInv, recorderVars, RecorderTypeOK, WriterInv, PendingInv, StandingInv, Standing,
       Recorder!DataIsKept, Recorder!Exists

LEMMA RecorderInvariant == MCSpec => []RecorderInv
<1>1. MCInit => RecorderInv
  BY RecorderInit DEF MCInit
<1>2. RecorderInv /\ Recorder!Next => RecorderInv'
  BY RecorderRecord, RecorderSetAttribute, RecorderEnds, RecorderSwap, RecorderWriteDataSet,
     RecorderFinishWriting
  DEF Recorder!Next
<1>3. RecorderInv /\ [MCNext]_allVars => RecorderInv'
  BY <1>2, RecorderUnchanged DEF MCNext, allVars
<1> QED BY <1>1, <1>3, PTL DEF MCSpec

(* What is recorded is in the buffers of the callers, in those of the      *)
(* writer or in the file, once and in order; after close() it is in the    *)
(* file, with the last value of every attribute.                           *)
THEOREM NothingRecordedIsLost == MCSpec => []RecorderLosesNothing
<1>1. RecorderInv => RecorderLosesNothing
  <2> SUFFICES ASSUME RecorderInv PROVE RecorderLosesNothing OBVIOUS
  <2> USE DEF RecorderInv
  <2>1. Recorder!AttributesAreKept
    <3> DEFINE all == Recorder!Updated(Recorder!Updated(Recorder!Updated(fileAttributes,
                        pendingAttributes), newAttributes), attributes)
    <3>1. \A d \in Recorder!Owners : all[d] = Standing(d)
      BY DEF RecorderTypeOK, Recorder!Updated, Standing
    <3>2. all = [d \in Recorder!Owners |-> all[d]]  BY DEF Recorder!Updated
    <3>3. lastSet = [d \in Recorder!Owners |-> lastSet[d]]  BY DEF RecorderTypeOK
    <3> HIDE DEF all
    <3>4. all = lastSet  BY <3>1, <3>2, <3>3 DEF StandingInv
    <3> QED BY <3>4 DEF Recorder!AttributesAreKept, all
  <2>2. Recorder!ClosedIsComplete
    <3> SUFFICES ASSUME writer = "ended"
                 PROVE  /\ file = recorded
                        /\ \A d \in Recorder!Owners : Recorder!Exists(d) => fileAttributes[d] = lastSet[d]
      BY DEF Recorder!ClosedIsComplete
    <3>1. /\ left = {} /\ recordings = Recorder!NoData
          /\ attributes = Recorder!NoAttributes /\ newAttributes = Recorder!NoAttributes
      BY DEF WriterInv
    <3>2. ASSUME NEW d \in DataSets PROVE file[d] = recorded[d]
      <4>1. file[d] \in Seq(Nat)  BY DEF RecorderTypeOK
      <4>2. recorded[d] = file[d] \o <<>> \o <<>>
        BY <3>1 DEF Recorder!DataIsKept, Recorder!NoData
      <4> QED BY <4>1, <4>2, Buffers
    <3>3. file = recorded  BY <3>2 DEF RecorderTypeOK
    <3>4. ASSUME NEW d \in Recorder!Owners, Recorder!Exists(d) PROVE fileAttributes[d] = lastSet[d]
      BY <3>1, <3>4 DEF PendingInv, StandingInv, Standing, Recorder!NoAttributes
    <3> QED BY <3>3, <3>4
  <2> QED BY <2>1, <2>2 DEF RecorderLosesNothing, Recorder!RecorderLosesNothing
<1> QED BY <1>1, RecorderInvariant, PTL

-----------------------------------------------------------------------------
(* The events of a time tagger                                             *)

LEMMA FetcherInvariant == MCSpec => []FetcherInv
<1>1. MCInit => FetcherInv
  BY FetcherStarts DEF MCInit
<1>2. FetcherInv /\ [MCNext]_allVars => FetcherInv'
  BY FetcherStep DEF MCNext, allVars
<1> QED BY <1>1, <1>2, PTL DEF MCSpec

(* A measurement returns exactly the events that pass by the rule of       *)
(* process_events(), wherever the thread and get_events() cut them, or     *)
(* tells that some were lost; of strays nothing is claimed.                *)
THEOREM MeasurementIsExact == MCSpec => []EventsAreExact
BY ExactSuffices, FetcherInvariant, PTL

-----------------------------------------------------------------------------
(* The transports that are a stream of bytes                               *)

(* The end of a stream of replies: no body without its terminator.         *)
Whole(s) == \A i \in 1 .. Len(s) :
              s[i] = "body" => i + 1 \in 1 .. Len(s) /\ s[i + 1] = "end"

(* What is in the buffer and on the line ends with a whole reply, whatever *)
(* was read of it.                                                         *)
Wire(r, l) == r \in Seq(Bytes) /\ l \in Seq(Bytes) /\ Whole(r \o l)
WireInv == Kind \in ByteStreams => Wire(rbuf, line)

(* A read that invents no byte and loses none: it returns the first bytes  *)
(* of r and l, or none when it gives up, and leaves the others in order.   *)
Keeps(o, r, l) ==
  /\ o.how \in {"ok", "timeout"} /\ (o.how = "timeout" => o.got = <<>>)
  /\ o.got \in Seq(Bytes) /\ o.rbuf \in Seq(Bytes) /\ o.line \in Seq(Bytes)
  /\ o.got \o (o.rbuf \o o.line) = r \o l

LEMMA FirstEndIsEnd ==
  ASSUME NEW s \in Seq(Bytes), Finished(s)
  PROVE  /\ FirstEnd(s) \in 1 .. Len(s) /\ s[FirstEnd(s)] = "end"
         /\ \A i \in 1 .. FirstEnd(s) - 1 : s[i] # "end"
<1>1. Ends(s) \in SUBSET Nat /\ Ends(s) # {}  BY DEF Ends, Finished
<1>2. FirstEnds(s) # {}  BY <1>1, Smallest DEF FirstEnds
<1>3. FirstEnd(s) \in FirstEnds(s)  BY <1>2 DEF FirstEnd
<1>4. \A e \in FirstEnds(s) :
        e \in 1 .. Len(s) /\ s[e] = "end" /\ \A i \in 1 .. e - 1 : s[i] # "end"
  <2> TAKE e \in FirstEnds(s)
  <2>1. e \in 1 .. Len(s) /\ s[e] = "end" /\ \A j \in Ends(s) : e <= j
    BY DEF FirstEnds, Ends
  <2>2. ASSUME NEW i \in 1 .. e - 1 PROVE s[i] # "end"
    <3>1. i \in 1 .. Len(s) /\ ~(e <= i)  BY <2>1, LenProperties
    <3> QED BY <2>1, <3>1 DEF Ends
  <2> QED BY <2>1, <2>2
<1> QED BY <1>3, <1>4

LEMMA TakeDrop ==
  ASSUME NEW s \in Seq(Bytes), NEW n \in 0 .. Len(s)
  PROVE  /\ Take(s, n) \in Seq(Bytes) /\ Drop(s, n) \in Seq(Bytes)
         /\ Len(Take(s, n)) = n /\ Len(Drop(s, n)) = Len(s) - n
         /\ \A i \in 1 .. n : Take(s, n)[i] = s[i]
         /\ Take(s, n) \o Drop(s, n) = s
<1>1. Len(s) \in Nat /\ \A i \in 1 .. Len(s) : s[i] \in Bytes
  BY LenProperties, ElementOfSeq
<1>2. /\ Take(s, n) \in Seq(Bytes) /\ Len(Take(s, n)) = n
      /\ \A i \in 1 .. n : Take(s, n)[i] = s[i]
  BY <1>1, SubSeqProperties DEF Take
<1>3. Drop(s, n) \in Seq(Bytes) /\ Len(Drop(s, n)) = Len(s) - n
  BY <1>1, SubSeqProperties DEF Drop
<1>4. Take(s, n) \o Drop(s, n) = SubSeq(s, 1, Len(s))
  <2>1. 1 \in 1 .. Len(s) + 1 /\ n \in 1 - 1 .. Len(s) /\ Len(s) \in n .. Len(s)
    BY <1>1
  <2> QED BY <2>1, ConcatAdjacentSubSeq DEF Take, Drop
<1> QED BY <1>2, <1>3, <1>4, SubSeqFull

(* A line: it ends in its only terminator.                                 *)
OneLine(s) == Finished(s) /\ \A i \in 1 .. Len(s) - 1 : s[i] # "end"

LEMMA LineTaken ==
  ASSUME NEW s \in Seq(Bytes), Finished(s) PROVE OneLine(Take(s, FirstEnd(s)))
<1> DEFINE e == FirstEnd(s)
<1>1. /\ e \in 1 .. Len(s) /\ s[e] = "end"
      /\ \A i \in 1 .. e - 1 : s[i] # "end"
  BY FirstEndIsEnd
<1> HIDE DEF e
<1>2. Len(s) \in Nat  BY LenProperties
<1>3. e \in 0 .. Len(s)  BY <1>1, <1>2
<1>4. Len(Take(s, e)) = e /\ \A i \in 1 .. e : Take(s, e)[i] = s[i]  BY <1>3, TakeDrop
<1>5. Finished(Take(s, e))
  <2>1. e \in 1 .. Len(Take(s, e)) /\ Take(s, e)[e] = "end"  BY <1>1, <1>3, <1>4
  <2> QED BY <2>1 DEF Finished, Ends
<1>6. \A i \in 1 .. Len(Take(s, e)) - 1 : Take(s, e)[i] # "end"  BY <1>1, <1>3, <1>4
<1>7. OneLine(Take(s, e))  BY <1>5, <1>6 DEF OneLine
<1> QED BY <1>7 DEF e

LEMMA Associative ==
  ASSUME NEW s \in Seq(Bytes), NEW t \in Seq(Bytes), NEW u \in Seq(Bytes)
  PROVE  (s \o t) \o u = s \o (t \o u)
BY ConcatAssociative

(* A sequence is cut in two and another one joins its end.                 *)
LEMMA CutAndJoined ==
  ASSUME NEW s \in Seq(Bytes), NEW rest \in Seq(Bytes), NEW n \in 0 .. Len(s)
  PROVE  /\ Take(s, n) \in Seq(Bytes) /\ Drop(s, n) \in Seq(Bytes)
         /\ Take(s, n) \o (Drop(s, n) \o rest) = s \o rest
<1>1. /\ Take(s, n) \in Seq(Bytes) /\ Drop(s, n) \in Seq(Bytes)
      /\ Take(s, n) \o Drop(s, n) = s
  BY TakeDrop
<1>2. \A a, b, c \in Seq(Bytes) : (a \o b) \o c = a \o (b \o c)
  BY Associative
<1>3. (Take(s, n) \o Drop(s, n)) \o rest = Take(s, n) \o (Drop(s, n) \o rest)
  BY <1>1, <1>2, Zenon
<1> QED BY <1>1, <1>3

(* The first k bytes of the line come in, and n of all are returned.       *)
LEMMA Splitting ==
  ASSUME NEW r \in Seq(Bytes), NEW l \in Seq(Bytes), NEW k \in 0 .. Len(l)
  PROVE  /\ r \o Take(l, k) \in Seq(Bytes) /\ Drop(l, k) \in Seq(Bytes)
         /\ Len(r \o Take(l, k)) = Len(r) + k
         /\ (r \o Take(l, k)) \o Drop(l, k) = r \o l
         /\ \A n \in 0 .. Len(r) + k :
              /\ Take(r \o Take(l, k), n) \in Seq(Bytes)
              /\ Drop(r \o Take(l, k), n) \in Seq(Bytes)
              /\ Take(r \o Take(l, k), n) \o (Drop(r \o Take(l, k), n) \o Drop(l, k)) = r \o l
<1> DEFINE have == r \o Take(l, k)
<1>1. /\ Take(l, k) \in Seq(Bytes) /\ Drop(l, k) \in Seq(Bytes) /\ Len(Take(l, k)) = k
      /\ Take(l, k) \o Drop(l, k) = l
  BY TakeDrop
<1>2. have \in Seq(Bytes) /\ Len(have) = Len(r) + k
  BY <1>1, ConcatProperties
<1>3. have \o Drop(l, k) = r \o l
  <2>1. have \o Drop(l, k) = r \o (Take(l, k) \o Drop(l, k))
    BY <1>1, Associative
  <2> QED BY <1>1, <2>1
<1> HIDE DEF have
<1>4. ASSUME NEW n \in 0 .. Len(r) + k
      PROVE  /\ Take(have, n) \in Seq(Bytes) /\ Drop(have, n) \in Seq(Bytes)
             /\ Take(have, n) \o (Drop(have, n) \o Drop(l, k)) = r \o l
  <2>1. n \in 0 .. Len(have)  BY <1>2
  <2>2. /\ Take(have, n) \in Seq(Bytes) /\ Drop(have, n) \in Seq(Bytes)
        /\ Take(have, n) \o (Drop(have, n) \o Drop(l, k)) = have \o Drop(l, k)
    BY <1>1, <1>2, <2>1, CutAndJoined
  <2> QED BY <1>3, <2>2
<1> QED BY <1>1, <1>2, <1>3, <1>4 DEF have

LEMMA WholeRest ==
  ASSUME NEW s \in Seq(Bytes), NEW t \in Seq(Bytes), Whole(s \o t) PROVE Whole(t)
<1> SUFFICES ASSUME NEW i \in 1 .. Len(t), t[i] = "body"
             PROVE  i + 1 \in 1 .. Len(t) /\ t[i + 1] = "end"
  BY DEF Whole
<1>1. Len(s) \in Nat /\ Len(t) \in Nat /\ Len(s \o t) = Len(s) + Len(t)
  BY LenProperties, ConcatProperties
<1>2. \A j \in 1 .. Len(t) : (s \o t)[Len(s) + j] = t[j] /\ Len(s) + j \in 1 .. Len(s \o t)
  BY <1>1, ConcatProperties
<1>3. (Len(s) + i) + 1 \in 1 .. Len(s \o t) /\ (s \o t)[(Len(s) + i) + 1] = "end"
  BY <1>2 DEF Whole
<1>4. i + 1 \in 1 .. Len(t)  BY <1>1, <1>3
<1> QED BY <1>1, <1>2, <1>3, <1>4

LEMMA WholeReply ==
  ASSUME NEW s \in Seq(Bytes), Whole(s) PROVE s \o Reply \in Seq(Bytes) /\ Whole(s \o Reply)
<1>1. Reply \in Seq(Bytes) /\ Len(Reply) = 2 /\ Reply[1] = "body" /\ Reply[2] = "end"
  BY DEF Reply, Bytes
<1>2. /\ Len(s) \in Nat /\ s \o Reply \in Seq(Bytes) /\ Len(s \o Reply) = Len(s) + 2
      /\ \A i \in 1 .. Len(s) + 2 : (s \o Reply)[i] = IF i <= Len(s) THEN s[i] ELSE Reply[i - Len(s)]
  <2>1. Len(s) \in Nat  BY LenProperties
  <2>2. s \o Reply \in Seq(Bytes) /\ Len(s \o Reply) = Len(s) + Len(Reply)
    BY <1>1, ConcatProperties
  <2>3. \A i \in 1 .. Len(s) + Len(Reply) :
          (s \o Reply)[i] = IF i <= Len(s) THEN s[i] ELSE Reply[i - Len(s)]
    BY <1>1, ConcatProperties
  <2> QED BY <1>1, <2>1, <2>2, <2>3
<1>3. Whole(s \o Reply)
  <2> SUFFICES ASSUME NEW i \in 1 .. Len(s) + 2, (s \o Reply)[i] = "body"
               PROVE  i + 1 \in 1 .. Len(s) + 2 /\ (s \o Reply)[i + 1] = "end"
    BY <1>2 DEF Whole
  <2>1. CASE i <= Len(s)
    <3>1. i \in 1 .. Len(s) /\ s[i] = "body"  BY <1>2, <2>1
    <3> QED BY <1>2, <3>1 DEF Whole
  <2>2. CASE i = Len(s) + 1  BY <1>1, <1>2, <2>2
  <2>3. CASE i = Len(s) + 2  BY <1>1, <1>2, <2>3
  <2> QED BY <1>2, <2>1, <2>2, <2>3
<1> QED BY <1>2, <1>3

LEMMA NoBytes ==
  /\ <<>> \in Seq(Bytes)
  /\ \A s \in Seq(Bytes) : <<>> \o s = s
BY ConcatEmptySeq

LEMMA FromBufferKeeps ==
  ASSUME NEW r \in Seq(Bytes), NEW l \in Seq(Bytes), NEW n \in Nat, Len(r) >= n,
         NEW o \in FromBuffer(n, r, l)
  PROVE  Keeps(o, r, l) /\ o.how = "ok" /\ Len(o.got) = n
<1>1. n \in 0 .. Len(r)  BY LenProperties
<1>2. /\ Take(r, n) \in Seq(Bytes) /\ Drop(r, n) \in Seq(Bytes)
      /\ Len(Take(r, n)) = n /\ Take(r, n) \o Drop(r, n) = r
  BY <1>1, TakeDrop
<1>3. (Take(r, n) \o Drop(r, n)) \o l = Take(r, n) \o (Drop(r, n) \o l)
  BY <1>2, Associative
<1>4. o = Outcome("ok", Take(r, n), Drop(r, n), l)  BY DEF FromBuffer
<1> QED BY <1>2, <1>3, <1>4 DEF Outcome, Keeps

(* What a read that waits leaves when it has got the first k bytes of the  *)
(* line: nothing taken, everything taken, or the first n bytes taken.      *)
LEMMA StopKeeps ==
  ASSUME NEW r \in Seq(Bytes), NEW l \in Seq(Bytes), NEW k \in 0 .. Len(l),
         NEW n \in 0 .. Len(r) + k
  PROVE  LET have == r \o Take(l, k) IN
         /\ Keeps(Outcome("timeout", <<>>, have, Drop(l, k)), r, l)
         /\ Keeps(Outcome("ok", have, <<>>, Drop(l, k)), r, l)
         /\ Keeps(Outcome("ok", Take(have, n), Drop(have, n), Drop(l, k)), r, l)
         /\ have \in Seq(Bytes) /\ Len(have) = Len(r) + k /\ Len(Take(have, n)) = n
<1> DEFINE have == r \o Take(l, k)
<1>1. /\ have \in Seq(Bytes) /\ Drop(l, k) \in Seq(Bytes) /\ Len(have) = Len(r) + k
      /\ have \o Drop(l, k) = r \o l
      /\ Take(have, n) \in Seq(Bytes) /\ Drop(have, n) \in Seq(Bytes)
      /\ Take(have, n) \o (Drop(have, n) \o Drop(l, k)) = r \o l
  BY Splitting
<1> HIDE DEF have
<1>2. have \o Drop(l, k) \in Seq(Bytes)  BY <1>1, ConcatProperties
<1>3. <<>> \o (have \o Drop(l, k)) = r \o l /\ have \o (<<>> \o Drop(l, k)) = r \o l
  BY <1>1, <1>2, NoBytes
<1>4. Len(Take(have, n)) = n  BY <1>1, TakeDrop
<1>5. Keeps(Outcome("timeout", <<>>, have, Drop(l, k)), r, l)
  BY <1>1, <1>3, NoBytes DEF Keeps, Outcome
<1>6. Keeps(Outcome("ok", have, <<>>, Drop(l, k)), r, l)
  BY <1>1, <1>3, NoBytes DEF Keeps, Outcome
<1>7. Keeps(Outcome("ok", Take(have, n), Drop(have, n), Drop(l, k)), r, l)
  BY <1>1 DEF Keeps, Outcome
<1> QED BY <1>1, <1>4, <1>5, <1>6, <1>7 DEF have

(* read(n) of the streams returns exactly n bytes, or keeps them all.      *)
LEMMA ReadBytesKeeps ==
  ASSUME NEW kind \in ByteStreams, NEW r \in Seq(Bytes), NEW l \in Seq(Bytes), NEW n \in Nat,
         NEW o \in ReadBytes(kind, n, r, l)
  PROVE  Keeps(o, r, l) /\ (o.how = "ok" => Len(o.got) = n)
<1>0. Len(r) \in Nat /\ Len(l) \in Nat  BY LenProperties
<1>1. CASE Len(r) >= n
  <2>1. o \in FromBuffer(n, r, l)
    BY <1>1 DEF ByteStreams, ReadBytes, SerialRead, SocketRead
  <2> QED BY <1>1, <2>1, FromBufferKeeps
<1>2. CASE ~(Len(r) >= n) /\ kind = "serial"
  <2>1. PICK k \in 0 .. Len(l) :
          /\ Len(r) + k <= n
          /\ o = IF Len(r \o Take(l, k)) = n
                 THEN Outcome("ok", r \o Take(l, k), <<>>, Drop(l, k))
                 ELSE Outcome("timeout", <<>>, r \o Take(l, k), Drop(l, k))
    BY <1>2 DEF ReadBytes, SerialRead
  <2>2. 0 \in 0 .. Len(r) + k  BY <1>0
  <2> QED BY <2>1, <2>2, StopKeeps DEF Outcome
<1>3. CASE ~(Len(r) >= n) /\ kind \in {"tcp", "udp"}
  <2>1. PICK k \in 0 .. Len(l) :
          \/ o = Outcome("timeout", <<>>, r \o Take(l, k), Drop(l, k))
          \/ /\ Len(r) + k >= n
             /\ o = Outcome("ok", Take(r \o Take(l, k), n), Drop(r \o Take(l, k), n), Drop(l, k))
    BY <1>3 DEF ReadBytes, SocketRead, Arrived
  <2>2. CASE o = Outcome("timeout", <<>>, r \o Take(l, k), Drop(l, k))
    <3>1. 0 \in 0 .. Len(r) + k  BY <1>0
    <3> QED BY <2>2, <3>1, StopKeeps DEF Outcome
  <2>3. CASE /\ Len(r) + k >= n
             /\ o = Outcome("ok", Take(r \o Take(l, k), n), Drop(r \o Take(l, k), n), Drop(l, k))
    <3>1. n \in 0 .. Len(r) + k  BY <1>0, <2>3
    <3> QED BY <2>3, <3>1, StopKeeps DEF Outcome
  <2> QED BY <2>1, <2>2, <2>3
<1> QED BY <1>1, <1>2, <1>3 DEF ByteStreams

(* read_until() returns a terminated message, or keeps everything.         *)
LEMMA ReadUntilKeeps ==
  ASSUME NEW kind \in ByteStreams, NEW r \in Seq(Bytes), NEW l \in Seq(Bytes),
         NEW o \in ReadUntil(kind, r, l)
  PROVE  Keeps(o, r, l) /\ (o.how = "ok" => OneLine(o.got))
<1>0. Len(r) \in Nat /\ Len(l) \in Nat  BY LenProperties
<1>1. PICK k \in 0 .. Len(l) :
        o = IF Finished(r \o Take(l, k))
            THEN Outcome("ok", Take(r \o Take(l, k), FirstEnd(r \o Take(l, k))),
                         Drop(r \o Take(l, k), FirstEnd(r \o Take(l, k))), Drop(l, k))
            ELSE Outcome("timeout", <<>>, r \o Take(l, k), Drop(l, k))
  BY <1>0 DEF ByteStreams, ReadUntil, StreamReadUntil, Arrived
<1> DEFINE have == r \o Take(l, k)
           e == FirstEnd(have)
<1>2. CASE Finished(have)
  <2>1. have \in Seq(Bytes) /\ Len(have) = Len(r) + k  BY Splitting
  <2>2. e \in 1 .. Len(have) /\ have[e] = "end"  BY <1>2, <2>1, FirstEndIsEnd
  <2>3. e \in 0 .. Len(r) + k /\ e \in 0 .. Len(have)  BY <1>0, <2>1, <2>2
  <2>4. o = Outcome("ok", Take(have, e), Drop(have, e), Drop(l, k))  BY <1>1, <1>2
  <2>5. Keeps(o, r, l)  BY <2>3, <2>4, StopKeeps
  <2>6. OneLine(Take(have, e))  BY <1>2, <2>1, LineTaken
  <2> QED BY <2>4, <2>5, <2>6 DEF Outcome
<1>3. CASE ~Finished(have)
  <2>1. 0 \in 0 .. Len(r) + k  BY <1>0
  <2> QED BY <1>1, <1>3, <2>1, StopKeeps DEF Outcome
<1> QED BY <1>2, <1>3

(* The reads of a driver over a stream of bytes, read_until_timeout() too. *)
LEMMA ReadOutcomesKeep ==
  ASSUME WireInv, Kind \in ByteStreams, NEW step, NEW o \in ReadOutcomes(step)
  PROVE  /\ Keeps(o, rbuf, line)
         /\ step \in {"read1", "header"} /\ o.how = "ok" => Len(o.got) = 1
         /\ step = "read2" /\ o.how = "ok" => Len(o.got) = 2
         /\ step \in Lines /\ o.how = "ok" => OneLine(o.got)
<1>0. rbuf \in Seq(Bytes) /\ line \in Seq(Bytes)  BY DEF WireInv, Wire
<1>1. CASE step \in {"read1", "header", "tail"}
  <2>1. o \in ReadBytes(Kind, 1, rbuf, line)  BY <1>1 DEF ReadOutcomes
  <2>2. Keeps(o, rbuf, line) /\ (o.how = "ok" => Len(o.got) = 1)
    <3>1. PICK n \in Nat : n = 1  OBVIOUS
    <3>2. Keeps(o, rbuf, line) /\ (o.how = "ok" => Len(o.got) = n)
      <4>1. o \in ReadBytes(Kind, n, rbuf, line)  BY <2>1, <3>1
      <4> QED BY <1>0, <4>1, ReadBytesKeeps
    <3> QED BY <3>1, <3>2
  <2> QED BY <1>1, <2>2 DEF Lines
<1>2. CASE step = "read2"
  <2>1. o \in ReadBytes(Kind, 2, rbuf, line)  BY <1>2 DEF ReadOutcomes
  <2>2. Keeps(o, rbuf, line) /\ (o.how = "ok" => Len(o.got) = 2)
    <3>1. PICK n \in Nat : n = 2  OBVIOUS
    <3>2. Keeps(o, rbuf, line) /\ (o.how = "ok" => Len(o.got) = n)
      <4>1. o \in ReadBytes(Kind, n, rbuf, line)  BY <2>1, <3>1
      <4> QED BY <1>0, <4>1, ReadBytesKeeps
    <3> QED BY <3>1, <3>2
  <2> QED BY <1>2, <2>2 DEF Lines
<1>3. CASE step = "collect"
  <2>1. PICK x \in ReadBytes(Kind, MaxLine + 1, rbuf, line) :
          o = IF x.how = "timeout" THEN Outcome("ok", x.rbuf, <<>>, x.line) ELSE x
    BY <1>3 DEF ReadOutcomes, ReadUntilTimeout, ByteStreams, StreamKinds
  <2>2. Keeps(x, rbuf, line)
    BY <1>0, <2>1, MaxLineAssumption, ReadBytesKeeps
  <2>3. ASSUME x.how = "timeout" PROVE Keeps(o, rbuf, line)
    <3>1. x.rbuf \in Seq(Bytes) /\ x.line \in Seq(Bytes)
          /\ <<>> \o (x.rbuf \o x.line) = rbuf \o line
      BY <2>2, <2>3 DEF Keeps
    <3>2. <<>> \o (x.rbuf \o x.line) = x.rbuf \o x.line /\ <<>> \o x.line = x.line
      BY <3>1, NoBytes, ConcatProperties
    <3> QED BY <2>1, <2>3, <3>1, <3>2, NoBytes DEF Keeps, Outcome
  <2> QED BY <1>3, <2>1, <2>2, <2>3 DEF Lines
<1>4. CASE step \notin {"read1", "header", "tail", "read2", "collect"}
  <2>1. o \in ReadUntil(Kind, rbuf, line)  BY <1>4 DEF ReadOutcomes
  <2> QED BY <1>0, <1>4, <2>1, ReadUntilKeeps
<1> QED BY <1>1, <1>2, <1>3, <1>4 DEF Lines

(* Two bytes on the line in a row have a terminator between them.          *)
LEMMA TwoBytesAreFinished ==
  ASSUME NEW g \in Seq(Bytes), NEW t \in Seq(Bytes), Whole(g \o t), Len(g) = 2
  PROVE  Finished(g)
<1>1. g[1] \in Bytes /\ g[2] \in Bytes
  <2>1. 1 \in 1 .. Len(g) /\ 2 \in 1 .. Len(g)  OBVIOUS
  <2> QED BY <2>1, ElementOfSeq
<1>2. /\ Len(t) \in Nat /\ Len(g \o t) = 2 + Len(t)
      /\ (g \o t)[1] = g[1] /\ (g \o t)[2] = g[2]
  <2>1. Len(t) \in Nat  BY LenProperties
  <2>2. /\ Len(g \o t) = Len(g) + Len(t)
        /\ \A i \in 1 .. Len(g) + Len(t) : (g \o t)[i] = IF i <= Len(g) THEN g[i] ELSE t[i - Len(g)]
    BY ConcatProperties
  <2> QED BY <2>1, <2>2
<1>3. CASE g[1] = "end"  BY <1>3 DEF Finished, Ends
<1>4. CASE g[1] = "body"
  <2>1. 1 \in 1 .. Len(g \o t)  BY <1>2
  <2>2. g[2] = "end"  BY <1>2, <1>4, <2>1 DEF Whole
  <2> QED BY <2>2 DEF Finished, Ends
<1> QED BY <1>1, <1>3, <1>4 DEF Bytes

(* A read that ends well has got what the step asked for; any other has    *)
(* left the bytes where they were.                                         *)
LEMMA ReadIsFullOrKeeps ==
  ASSUME WireInv, Kind \in ByteStreams, NEW step \in Reads \ {"collect", "tail"},
         NEW o \in ReadOutcomes(step)
  PROVE  \/ o.how = "ok" /\ Full(step, o.got)
         \/ o.rbuf \o o.line = rbuf \o line
<1>1. /\ rbuf \in Seq(Bytes) /\ line \in Seq(Bytes) /\ Whole(rbuf \o line)
  BY DEF WireInv, Wire
<1>2. Keeps(o, rbuf, line)  BY ReadOutcomesKeep
<1>3. CASE o.how = "timeout"
  <2>1. o.rbuf \o o.line \in Seq(Bytes)  BY <1>2, ConcatProperties DEF Keeps
  <2> QED BY <1>2, <1>3, <2>1, NoBytes DEF Keeps
<1>4. CASE o.how = "ok"
  <2>1. CASE step \in {"read1", "header"}
    <3>1. Len(o.got) = 1  BY <1>4, <2>1, ReadOutcomesKeep
    <3>2. Len(<<>>) # 1  BY EmptySeq
    <3>3. o.got # <<>>  BY <3>1, <3>2, Zenon
    <3> QED BY <1>4, <2>1, <3>3 DEF Full
  <2>2. CASE step = "read2"
    <3>1. Len(o.got) = 2  BY <1>4, <2>2, ReadOutcomesKeep
    <3>2. /\ o.got \in Seq(Bytes) /\ o.rbuf \o o.line \in Seq(Bytes)
          /\ Whole(o.got \o (o.rbuf \o o.line))
      BY <1>1, <1>2, ConcatProperties DEF Keeps
    <3>3. Finished(o.got)  BY <3>1, <3>2, TwoBytesAreFinished
    <3> QED BY <1>4, <2>2, <3>3 DEF Full
  <2>3. CASE step \in {"line", "forever", "scpi"}
    BY <1>4, <2>3, ReadOutcomesKeep DEF Full, Lines, OneLine
  <2> QED BY <2>1, <2>2, <2>3 DEF Reads
<1> QED BY <1>2, <1>3, <1>4 DEF Keeps

(* A read that keeps the bytes in order leaves whole replies.              *)
LEMMA KeptIsWhole ==
  ASSUME NEW r, NEW l, Wire(r, l), NEW o, Keeps(o, r, l) PROVE Wire(o.rbuf, o.line)
<1>1. o.rbuf \o o.line \in Seq(Bytes)  BY ConcatProperties DEF Keeps
<1> QED BY <1>1, WholeRest DEF Keeps, Wire

(* So does dropping the buffer and the first bytes of the line.            *)
LEMMA DroppedIsWhole ==
  ASSUME NEW r, NEW l, Wire(r, l), NEW k \in 0 .. Len(l) PROVE Wire(<<>>, Drop(l, k))
<1>1. /\ r \o Take(l, k) \in Seq(Bytes) /\ Drop(l, k) \in Seq(Bytes)
      /\ (r \o Take(l, k)) \o Drop(l, k) = r \o l
  BY Splitting DEF Wire
<1>2. Whole(Drop(l, k))  BY <1>1, WholeRest DEF Wire
<1> QED BY <1>1, <1>2, NoBytes DEF Wire

LEMMA EmptyIsWhole ==
  /\ Wire(<<>>, <<>>)
  /\ \A r, l : Wire(r, l) => Wire(<<>>, l)
<1>1. Wire(<<>>, <<>>)
  <2>1. <<>> \o <<>> = <<>> /\ Len(<<>>) = 0  BY NoBytes
  <2> QED BY <2>1, NoBytes DEF Wire, Whole
<1>2. ASSUME NEW r, NEW l, Wire(r, l) PROVE Wire(<<>>, l)
  BY <1>2, NoBytes, WholeRest DEF Wire
<1> QED BY <1>1, <1>2

LEMMA RepliedIsWhole ==
  ASSUME NEW r, NEW l, Wire(r, l) PROVE Wire(r, l \o Reply)
<1>1. Reply \in Seq(Bytes)  BY DEF Reply, Bytes
<1>2. r \o l \in Seq(Bytes) /\ l \o Reply \in Seq(Bytes)  BY <1>1, ConcatProperties DEF Wire
<1>3. Whole((r \o l) \o Reply)  BY <1>2, WholeReply DEF Wire
<1>4. (r \o l) \o Reply = r \o (l \o Reply)  BY <1>1, Associative DEF Wire
<1> QED BY <1>2, <1>3, <1>4 DEF Wire

(* Every step of a driver.                                                 *)
LEMMA WireStep ==
  ASSUME WireInv, Next, Kind \in ByteStreams
  PROVE  driver' = driver /\ Wire(rbuf', line')
<1> USE DEF openVars, wireVars, modeVars
<1>0. Wire(rbuf, line)  BY DEF WireInv
<1>1. CASE CallOpen \/ CallClose \/ CallMethod
  BY <1>0, <1>1 DEF CallOpen, CallClose, CallMethod, Start
<1>2. CASE CheckOpen \/ MarkOpen \/ MarkClosed \/ CloseTransport
  BY <1>0, <1>2 DEF CheckOpen, MarkOpen, MarkClosed, CloseTransport
<1>3. CASE Tell \/ Await \/ Check \/ Choose \/ Enter \/ Leave \/ Block
  BY <1>0, <1>3 DEF Tell, Await, Check, Choose, Enter, Leave, Block
<1>4. CASE OpenTransport
  <2>1. CASE UNCHANGED <<rbuf, line>>  BY <1>0, <1>4, <2>1 DEF OpenTransport
  <2>2. CASE rbuf' = OpenBuffer(Kind, rbuf) /\ line' = OpenLine(Kind, line)
    BY <1>0, <1>4, <2>2, EmptyIsWhole DEF OpenTransport, OpenBuffer, OpenLine, ByteStreams
  <2> QED BY <1>4, <2>1, <2>2 DEF OpenTransport
<1>5. CASE Query \/ SecondReply
  BY <1>0, <1>5, RepliedIsWhole DEF Query, SecondReply, Replies
<1>6. CASE Read
  <2>1. driver' = driver  BY <1>6 DEF Read
  <2>2. CASE UNCHANGED <<rbuf, line>>  BY <1>0, <2>1, <2>2
  <2>3. CASE \E o \in ReadOutcomes(Step) : rbuf' = o.rbuf /\ line' = o.line
    <3>1. PICK step : step = Step  OBVIOUS
    <3>2. PICK o \in ReadOutcomes(step) : rbuf' = o.rbuf /\ line' = o.line  BY <2>3, <3>1
    <3>3. Keeps(o, rbuf, line)  BY ReadOutcomesKeep
    <3> QED BY <1>0, <2>1, <3>2, <3>3, KeptIsWhole
  <2> QED BY <1>6, <2>2, <2>3 DEF Read, ReadFails
<1>7. CASE Poll
  <2>1. driver' = driver  BY <1>7 DEF Poll
  <2>2. CASE UNCHANGED <<rbuf, line>>  BY <1>0, <2>1, <2>2
  <2>3. CASE \E o \in ReadOutcomes("line") : rbuf' = o.rbuf /\ line' = o.line
    <3>1. PICK o \in ReadOutcomes("line") : rbuf' = o.rbuf /\ line' = o.line  BY <2>3
    <3>2. Keeps(o, rbuf, line)  BY ReadOutcomesKeep
    <3> QED BY <1>0, <2>1, <3>1, <3>2, KeptIsWhole
  <2> QED BY <1>7, <2>2, <2>3 DEF Poll, ReadFails
<1>8. CASE Flush
  <2>1. driver' = driver  BY <1>8 DEF Flush
  <2>2. CASE UNCHANGED <<rbuf, line>>  BY <1>0, <2>1, <2>2
  <2>3. CASE \E o \in Discard(Kind, rbuf, line) : rbuf' = o.rbuf /\ line' = o.line
    <3>1. PICK k \in 0 .. Len(line) : rbuf' = <<>> /\ line' = Drop(line, k)
      BY <2>3 DEF Discard, Arrived, Outcome, ByteStreams, StreamKinds
    <3> QED BY <1>0, <2>1, <3>1, DroppedIsWhole
  <2> QED BY <1>8, <2>2, <2>3 DEF Flush
<1>9. CASE Drain
  <2>1. driver' = driver  BY <1>9 DEF Drain
  <2>2. CASE UNCHANGED <<rbuf, line>>  BY <1>0, <2>1, <2>2
  <2>3. CASE \E k \in 1 .. Len(line) : rbuf' = <<>> /\ line' = Drop(line, k)
    <3>1. PICK k \in 1 .. Len(line) : rbuf' = <<>> /\ line' = Drop(line, k)  BY <2>3
    <3>2. k \in 0 .. Len(line)  OBVIOUS
    <3> QED BY <1>0, <2>1, <3>1, <3>2, DroppedIsWhole
  <2> QED BY <1>9, <2>2, <2>3 DEF Drain
<1> QED BY <1>1, <1>2, <1>3, <1>4, <1>5, <1>6, <1>7, <1>8, <1>9 DEF Next

LEMMA WireInvariant == MCSpec => []WireInv
<1>1. MCInit => WireInv
  BY EmptyIsWhole DEF MCInit, Init, WireInv
<1>2. WireInv /\ [MCNext]_allVars => WireInv'
  <2> SUFFICES ASSUME WireInv, [MCNext]_allVars, Kind' \in ByteStreams
               PROVE  Wire(rbuf', line')
    BY DEF WireInv
  <2>1. CASE UNCHANGED vars
    BY <2>1 DEF WireInv, vars, openVars, wireVars, Kind
  <2>2. CASE Next
    <3>1. driver' = driver  BY <2>2 DEF Next, CallOpen, CallClose, CallMethod, Start,
      CheckOpen, MarkOpen, MarkClosed, CloseTransport, Tell, Await, Check, Choose, Enter, Leave,
      Block, OpenTransport, Query, SecondReply, Read, Poll, Flush, Drain, openVars
    <3>2. Kind \in ByteStreams  BY <3>1 DEF Kind
    <3> QED BY <2>2, <3>2, WireStep
  <2> QED BY <2>1, <2>2 DEF MCNext, allVars
<1> QED BY <1>1, <1>2, PTL DEF MCSpec

(* A read of a stream that raises, or gives less than it was asked for,    *)
(* leaves every byte for the next read: for any driver, whatever is on the *)
(* line and whenever it comes in.                                          *)
THEOREM BytesAreKept == MCSpec => FailedReadKeepsBytes
<1> DEFINE Fails == /\ ~Idle /\ Step \in Reads \ {"collect", "tail"}
                    /\ Kind \in {"serial", "tcp", "udp"}
                    /\ clean /\ ~clean'
           Kept == rbuf' \o line' = rbuf \o line
<1>1. ASSUME WireInv, Next, Fails PROVE Kept
  <2>1. Read
    BY <1>1 DEF Next, CallOpen, CallClose, CallMethod, Start, CheckOpen, MarkOpen, MarkClosed,
      OpenTransport, CloseTransport, Tell, Query, SecondReply, Await, Poll, Flush, Drain, Check,
      Choose, Enter, Leave, Block, At, Reads, wireVars
  <2>2. CASE UNCHANGED <<rbuf, line>>  BY <2>2
  <2>3. CASE \E o \in ReadOutcomes(Step) :
               /\ rbuf' = o.rbuf /\ line' = o.line
               /\ clean' = (clean /\ o.how = "ok" /\ Full(Step, o.got))
    <3>1. PICK step \in Reads \ {"collect", "tail"} : step = Step  BY <1>1
    <3>2. PICK o \in ReadOutcomes(step) :
            /\ rbuf' = o.rbuf /\ line' = o.line
            /\ clean' = (clean /\ o.how = "ok" /\ Full(step, o.got))
      BY <2>3, <3>1
    <3>3. Kind \in ByteStreams  BY <1>1 DEF ByteStreams
    <3>4. \/ o.how = "ok" /\ Full(step, o.got)
          \/ o.rbuf \o o.line = rbuf \o line
      BY <1>1, <3>3, ReadIsFullOrKeeps
    <3> QED BY <1>1, <3>2, <3>4
  <2> QED BY <2>1, <2>2, <2>3 DEF Read, ReadFails
<1>2. WireInv /\ [MCNext]_allVars => [Fails => Kept]_vars
  <2> HIDE DEF Fails, Kept
  <2> QED BY <1>1 DEF MCNext, allVars
<1> QED BY <1>2, WireInvariant, PTL DEF MCSpec, FailedReadKeepsBytes

-----------------------------------------------------------------------------
(* The calls of a driver: where they may stop                              *)

(* The steps left of a call, and of its except block. *)
StepsInv ==
  /\ todo \in Seq(Steps) /\ Nested(todo)
  /\ handler.steps \in Seq(Steps) /\ Nested(handler.steps)
  /\ handler.catches \subseteq Faults /\ handler.reraise \subseteq Faults
  /\ failing \in BOOLEAN /\ (failing => ~Idle /\ handler = NoExcept)
  /\ driver \in DOMAIN Table /\ instOpen \in BOOLEAN /\ tOpen \in BOOLEAN /\ config \in BOOLEAN
  /\ atCall \in [inst : BOOLEAN, transport : BOOLEAN, config : BOOLEAN]
  /\ calling \in {"open", "close", "method"} /\ outcome \in Outcomes

(* While the instrument is open its transport is.                          *)
Regular == driver \notin HalfOpen \cup Unclosable
TransportInv == Regular /\ instOpen => tOpen
(* Only open() and close() open and close.                                 *)
MethodInv == calling = "method" /\ Regular =>
               Without(todo, OpenSteps) /\ Without(handler.steps, OpenSteps)

(* Both are as they were when the call came in.                            *)
AsAtCall == instOpen = atCall.inst /\ tOpen = atCall.transport
(* close(): nothing has happened yet, or the transport alone is left.      *)
ClosingInv ==
  ~Idle /\ calling = "close" /\ driver \notin Unclosable =>
    /\ Kind # "library"
    /\ \/ /\ EndsClosed(todo) /\ (handler.catches # {} => EndsClosed(handler.steps))
          /\ AsAtCall
       \/ /\ todo = <<"tclose">> /\ ~instOpen /\ atCall.inst /\ tOpen = atCall.transport

(* open(): nothing has happened yet; or the transport is open, and what is *)
(* left marks the instrument open, or closes the transport and raises.     *)
OpeningInv ==
  ~Idle /\ calling = "open" /\ driver \notin HalfOpen =>
    /\ config = atCall.config
    /\ \/ /\ Unopened(driver, todo, handler, driver \notin Unclosable \/ ~instOpen)
          /\ ~failing /\ AsAtCall
       \/ /\ ~instOpen /\ ~atCall.inst /\ tOpen /\ ~atCall.transport
          /\ \/ Opened(driver, todo, handler, 0) /\ ~failing
             \/ todo = <<"tclose">> /\ failing /\ Kind # "library"

(* A call that has entered the CONFIGURATION state has still to leave it,  *)
(* or will raise.                                                          *)
LeavingInv ==
  ~Idle /\ ~atCall.config =>
    \/ ~config /\ Without(todo, {"enter"}) /\ Without(handler.steps, {"enter"})
    \/ failing
    \/ /\ handler.catches \subseteq handler.reraise /\ Without(todo, {"poll"})
       /\ Tidy(todo) /\ (config => Leaves(todo))

-----------------------------------------------------------------------------
(* What is left of a sequence of steps                                     *)

(* u is t without its first k steps.                                       *)
Left(u, t, k) ==
  /\ t \in Seq(Steps) /\ u \in Seq(Steps) /\ k \in 0 .. Len(t) /\ Len(u) = Len(t) - k
  /\ \A i \in 1 .. Len(t) - k : u[i] = t[i + k]

LEMMA RestIsLeft ==
  ASSUME NEW t \in Seq(Steps), NEW k \in 0 .. Len(t)
  PROVE  Left(Rest(t, k + 1), t, k)
<1>1. Len(t) \in Nat /\ \A i \in 1 .. Len(t) : t[i] \in Steps
  BY LenProperties, ElementOfSeq
<1>2. \A i \in k + 1 .. Len(t) : t[i] \in Steps  BY <1>1
<1>3. /\ Rest(t, k + 1) \in Seq(Steps)
      /\ Len(Rest(t, k + 1)) = IF k + 1 <= Len(t) THEN Len(t) - (k + 1) + 1 ELSE 0
      /\ \A i \in 1 .. Len(t) - (k + 1) + 1 : Rest(t, k + 1)[i] = t[k + 1 + i - 1]
  BY <1>1, <1>2, SubSeqProperties DEF Rest
<1> QED BY <1>1, <1>3 DEF Left

LEMMA TailIsLeft ==
  ASSUME NEW t \in Seq(Steps), t # <<>>
  PROVE  Left(Tail(t), t, 1)
BY HeadTailProperties, LenProperties, EmptySeq DEF Left

LEMMA LeftIs ==
  ASSUME NEW u, NEW v, NEW t, NEW k, Left(u, t, k), Left(v, t, k)
  PROVE  u = v
<1>1. u \in Seq(Steps) /\ v \in Seq(Steps) /\ Len(u) = Len(v) /\ Len(u) \in Nat
  BY LenProperties DEF Left
<1>2. \A i \in 1 .. Len(u) : u[i] = v[i]  BY DEF Left
<1> QED BY <1>1, <1>2, SeqEqual

LEMMA LeftOfLeft ==
  ASSUME NEW u, NEW v, NEW t, NEW k, NEW j, Left(u, t, k), Left(v, u, j)
  PROVE  Left(v, t, j + k)
<1>1. Len(t) \in Nat /\ Len(u) \in Nat /\ Len(v) \in Nat  BY LenProperties DEF Left
<1>2. /\ k \in 0 .. Len(t) /\ Len(u) = Len(t) - k /\ j \in 0 .. Len(u) /\ Len(v) = Len(u) - j
      /\ t \in Seq(Steps) /\ v \in Seq(Steps)
      /\ \A i \in 1 .. Len(t) - k : u[i] = t[i + k]
      /\ \A i \in 1 .. Len(u) - j : v[i] = u[i + j]
  BY DEF Left
<1>3. \A i \in 1 .. Len(t) - (j + k) : v[i] = t[i + (j + k)]
  <2> TAKE i \in 1 .. Len(t) - (j + k)
  <2>1. i \in 1 .. Len(u) - j /\ i + j \in 1 .. Len(t) - k /\ (i + j) + k = i + (j + k)
    BY <1>1, <1>2
  <2>2. v[i] = u[i + j] /\ u[i + j] = t[(i + j) + k]  BY <1>2, <2>1
  <2> QED BY <2>1, <2>2
<1> QED BY <1>1, <1>2, <1>3 DEF Left

LEMMA RestOfLeft ==
  ASSUME NEW u, NEW t, NEW k, Left(u, t, k), NEW i \in 1 .. Len(u)
  PROVE  i + k \in 1 .. Len(t) /\ u[i] = t[i + k] /\ Rest(u, i) = Rest(t, i + k)
<1>1. /\ Len(t) \in Nat /\ Len(u) \in Nat /\ k \in 0 .. Len(t) /\ Len(u) = Len(t) - k
      /\ t \in Seq(Steps) /\ u \in Seq(Steps)
  BY LenProperties DEF Left
<1>2. i - 1 \in 0 .. Len(u) /\ (i - 1) + 1 = i  BY <1>1
<1>3. (i - 1) + k \in 0 .. Len(t) /\ ((i - 1) + k) + 1 = i + k  BY <1>1
<1> DEFINE a == i - 1
           b == a + k
<1> HIDE DEF a, b
<1>4. Left(Rest(u, a + 1), u, a)  BY <1>1, <1>2, RestIsLeft DEF a
<1>5. Left(Rest(t, b + 1), t, b)  BY <1>1, <1>3, RestIsLeft DEF a, b
<1>6. Left(Rest(u, a + 1), t, b)  BY <1>4, LeftOfLeft DEF b
<1>7. Rest(u, a + 1) = Rest(t, b + 1)  BY <1>5, <1>6, LeftIs
<1>8. a + 1 = i /\ b + 1 = i + k  BY <1>2, <1>3 DEF a, b
<1>9. i + k \in 1 .. Len(t) /\ u[i] = t[i + k]  BY <1>1 DEF Left
<1> QED BY <1>7, <1>8, <1>9

LEMMA WithoutLeft ==
  ASSUME NEW u, NEW t, NEW k, Left(u, t, k), NEW S, Without(t, S)
  PROVE  Without(u, S)
<1> SUFFICES ASSUME NEW i \in 1 .. Len(u) PROVE u[i] \notin S
  BY DOMAIN u = 1 .. Len(u), LenProperties DEF Without, Left
<1>1. i + k \in 1 .. Len(t) /\ u[i] = t[i + k]  BY RestOfLeft
<1>2. DOMAIN t = 1 .. Len(t)  BY LenProperties DEF Left
<1> QED BY <1>1, <1>2 DEF Without

LEMMA NestedLeft ==
  ASSUME NEW u, NEW t, NEW k, Left(u, t, k), Nested(t)
  PROVE  Nested(u)
<1>1. DOMAIN t = 1 .. Len(t) /\ DOMAIN u = 1 .. Len(u)  BY LenProperties DEF Left
<1> SUFFICES ASSUME NEW i \in 1 .. Len(u), u[i] = "if" PROVE IfEnds(Rest(u, i)) # {}
  BY <1>1 DEF Nested
<1>2. i + k \in 1 .. Len(t) /\ u[i] = t[i + k] /\ Rest(u, i) = Rest(t, i + k)  BY RestOfLeft
<1> QED BY <1>1, <1>2 DEF Nested

LEMMA EndsClosedLeft ==
  ASSUME NEW u, NEW t, NEW k, Left(u, t, k), EndsClosed(t), k <= Len(t) - 2
  PROVE  EndsClosed(u)
<1>1. Len(t) \in Nat /\ Len(u) \in Nat /\ k \in 0 .. Len(t) /\ Len(u) = Len(t) - k
  BY LenProperties DEF Left
<1>2. \A i \in 1 .. Len(u) : u[i] = t[i + k]  BY <1>1 DEF Left
<1>3. u[Len(u) - 1] = t[Len(t) - 1] /\ u[Len(u)] = t[Len(t)]  BY <1>1, <1>2
<1>4. \A i \in 1 .. Len(u) - 2 : i + k \in 1 .. Len(t) - 2 /\ u[i] = t[i + k]  BY <1>1, <1>2
<1> QED BY <1>1, <1>3, <1>4 DEF EndsClosed

LEMMA LeavesLeft ==
  ASSUME NEW u, NEW t, NEW k, Left(u, t, k), Leaves(t),
         t[1] # "leave", k = 1 \/ (t[1] = "if" /\ k \in IfEnds(t))
  PROVE  Leaves(u)
<1>1. /\ Len(t) \in Nat /\ Len(u) \in Nat /\ k \in 0 .. Len(t) /\ Len(u) = Len(t) - k
      /\ t \in Seq(Steps) /\ u \in Seq(Steps)
      /\ DOMAIN t = 1 .. Len(t) /\ DOMAIN u = 1 .. Len(u)
  BY LenProperties DEF Left
<1>2. PICK n \in 1 .. Len(t) :
        /\ t[n] = "leave" /\ \A i \in n .. Len(t) : t[i] # "enter"
        /\ \A i \in 1 .. n : t[i] = "if" => \A j \in IfEnds(Rest(t, i)) : i + j <= n
  BY <1>1 DEF Leaves
<1>3. n > k
  <2>1. CASE k = 1  BY <1>2, <2>1
  <2>2. CASE t[1] = "if" /\ k \in IfEnds(t)
    <3>1. 0 \in 0 .. Len(t)  BY <1>1
    <3>2. Left(Rest(t, 0 + 1), t, 0)  BY <1>1, <3>1, RestIsLeft
    <3>3. Left(t, t, 0)  BY <1>1 DEF Left
    <3>4. Rest(t, 1) = t  BY <3>2, <3>3, LeftIs
    <3>5. 1 + k <= n  BY <1>2, <2>2, <3>4
    <3> QED BY <1>1, <3>5
  <2> QED BY <2>1, <2>2
<1>4. n - k \in 1 .. Len(u) /\ u[n - k] = "leave"
  <2>1. n - k \in 1 .. Len(u) /\ (n - k) + k = n  BY <1>1, <1>3
  <2> QED BY <1>2, <2>1, RestOfLeft
<1>5. \A i \in n - k .. Len(u) : u[i] # "enter"
  <2> TAKE i \in n - k .. Len(u)
  <2>1. i \in 1 .. Len(u) /\ i + k \in n .. Len(t)  BY <1>1, <1>3
  <2> QED BY <1>2, <2>1, RestOfLeft
<1>6. \A i \in 1 .. n - k : u[i] = "if" => \A j \in IfEnds(Rest(u, i)) : i + j <= n - k
  <2> SUFFICES ASSUME NEW i \in 1 .. n - k, u[i] = "if", NEW j \in IfEnds(Rest(u, i))
               PROVE  i + j <= n - k
    OBVIOUS
  <2>1. i \in 1 .. Len(u) /\ i + k \in 1 .. n  BY <1>1, <1>3
  <2>2. u[i] = t[i + k] /\ Rest(u, i) = Rest(t, i + k)  BY <2>1, RestOfLeft
  <2>3. (i + k) + j <= n  BY <1>2, <2>1, <2>2
  <2>4. j \in Int
    <3>1. i + k - 1 \in 0 .. Len(t)  BY <1>1, <2>1
    <3>2. Left(Rest(u, i), t, i + k - 1)
      <4>1. (i + k - 1) + 1 = i + k  BY <1>1, <2>1
      <4>2. Left(Rest(t, (i + k - 1) + 1), t, i + k - 1)  BY <1>1, <3>1, RestIsLeft
      <4> QED BY <2>2, <4>1, <4>2
    <3>3. Rest(u, i) \in Seq(Steps)  BY <3>2 DEF Left
    <3>4. j \in 1 .. Len(Rest(u, i))  BY <3>3, LenProperties DEF IfEnds
    <3> QED BY <3>4
  <2> QED BY <1>1, <1>2, <2>1, <2>3, <2>4
<1> QED BY <1>1, <1>4, <1>5, <1>6 DEF Leaves

LEMMA TidyLeft ==
  ASSUME NEW u, NEW t, NEW k, Left(u, t, k), Tidy(t)
  PROVE  Tidy(u)
<1>1. DOMAIN t = 1 .. Len(t) /\ DOMAIN u = 1 .. Len(u)  BY LenProperties DEF Left
<1> SUFFICES ASSUME NEW i \in 1 .. Len(u), u[i] = "enter" PROVE Leaves(Rest(u, i))
  BY <1>1 DEF Tidy
<1>2. i + k \in 1 .. Len(t) /\ u[i] = t[i + k] /\ Rest(u, i) = Rest(t, i + k)  BY RestOfLeft
<1> QED BY <1>1, <1>2 DEF Tidy

(* A method of RohdeSchwarz_Base that finds a result asks for errors.      *)
LEMMA AskLeft ==
  ASSUME NEW v \in Seq(Steps)
  PROVE  /\ Ask \o v \in Seq(Steps) /\ Left(v, Ask \o v, 2) /\ Ask \o v # <<>>
         /\ (Ask \o v)[1] = "query" /\ (Ask \o v)[2] = "scpi"
<1>1. Ask \in Seq(Steps) /\ Len(Ask) = 2 /\ Ask[1] = "query" /\ Ask[2] = "scpi"
  BY DEF Ask, Steps, Reads
<1> HIDE DEF Ask
<1>2. Len(v) \in Nat  BY LenProperties
<1>3. /\ Ask \o v \in Seq(Steps) /\ Len(Ask \o v) = 2 + Len(v)
      /\ \A i \in 1 .. 2 + Len(v) : (Ask \o v)[i] = IF i <= 2 THEN Ask[i] ELSE v[i - 2]
  <2> DEFINE a == Ask
  <2> HIDE DEF a
  <2>1. a \in Seq(Steps) /\ Len(a) = 2  BY <1>1 DEF a
  <2>2. /\ a \o v \in Seq(Steps) /\ Len(a \o v) = Len(a) + Len(v)
        /\ \A i \in 1 .. Len(a) + Len(v) : (a \o v)[i] = IF i <= Len(a) THEN a[i] ELSE v[i - Len(a)]
    BY <2>1, ConcatProperties
  <2> QED BY <2>1, <2>2 DEF a
<1> DEFINE w == Ask \o v
<1> HIDE DEF w
<1>4. w \in Seq(Steps) /\ Len(w) = 2 + Len(v) /\ w[1] = "query" /\ w[2] = "scpi"
      /\ \A i \in 1 .. Len(v) : v[i] = w[i + 2]
  BY <1>1, <1>2, <1>3 DEF w
<1>5. Left(v, w, 2) /\ w # <<>>  BY <1>2, <1>4 DEF Left
<1> QED BY <1>4, <1>5 DEF w

LEMMA AskNested ==
  ASSUME NEW v \in Seq(Steps), Nested(v) PROVE Nested(Ask \o v)
<1> DEFINE w == Ask \o v
<1>1. w \in Seq(Steps) /\ Left(v, w, 2) /\ w[1] = "query" /\ w[2] = "scpi"  BY AskLeft
<1> HIDE DEF w
<1>2. DOMAIN v = 1 .. Len(v) /\ DOMAIN w = 1 .. Len(w) /\ Len(v) \in Nat /\ Len(w) = Len(v) + 2
  BY <1>1, LenProperties DEF Left
<1>3. ASSUME NEW i \in 1 .. Len(w), w[i] = "if" PROVE IfEnds(Rest(w, i)) # {}
  <2>1. i # 1 /\ i # 2  BY <1>1, <1>3
  <2>2. i - 2 \in 1 .. Len(v) /\ (i - 2) + 2 = i  BY <1>2, <2>1
  <2>3. v[i - 2] = w[i] /\ Rest(v, i - 2) = Rest(w, i)  BY <1>1, <2>2, RestOfLeft
  <2> QED BY <1>2, <1>3, <2>2, <2>3 DEF Nested
<1>4. Nested(w)  BY <1>2, <1>3 DEF Nested
<1> QED BY <1>4 DEF w

LEMMA AskWithout ==
  ASSUME NEW v \in Seq(Steps), NEW S, Without(v, S), "query" \notin S, "scpi" \notin S
  PROVE  Without(Ask \o v, S)
<1> DEFINE w == Ask \o v
<1>1. w \in Seq(Steps) /\ Left(v, w, 2) /\ w[1] = "query" /\ w[2] = "scpi"  BY AskLeft
<1> HIDE DEF w
<1>2. DOMAIN v = 1 .. Len(v) /\ DOMAIN w = 1 .. Len(w) /\ Len(v) \in Nat /\ Len(w) = Len(v) + 2
  BY <1>1, LenProperties DEF Left
<1>3. ASSUME NEW i \in 1 .. Len(w) PROVE w[i] \notin S
  <2>1. CASE i = 1 \/ i = 2  BY <1>1, <2>1
  <2>2. CASE i # 1 /\ i # 2
    <3>1. i - 2 \in 1 .. Len(v) /\ (i - 2) + 2 = i  BY <1>2, <2>2
    <3>2. v[i - 2] = w[i]  BY <1>1, <3>1, RestOfLeft
    <3> QED BY <1>2, <3>1, <3>2 DEF Without
  <2> QED BY <2>1, <2>2
<1>4. Without(w, S)  BY <1>2, <1>3 DEF Without
<1> QED BY <1>4 DEF w

-----------------------------------------------------------------------------
(* What a step does                                                        *)

(* It goes on with these steps, or it raises.                              *)
GoesOn(u) ==
  /\ Left(u, todo, 1) \/ (Step = "if" /\ \E k \in IfEnds(todo) : Left(u, todo, k))
     \/ /\ Step = "poll"
        /\ \E v : u = Ask \o v /\ (Left(v, todo, 1) \/ (Left(v, todo, 2) /\ todo[2] = "done"))
  /\ GoOn(u)
Raises == \E f \in Faults : RaiseAs(f)

LEMMA ReadEnds ==
  ASSUME NEW step, NEW o \in ReadOutcomes(step) PROVE o.how \in {"ok", "timeout", "error"}
<1>1. \A r, l, n : \A x \in FromBuffer(n, r, l) : x.how = "ok"  BY DEF FromBuffer, Outcome
<1>2. \A r, l, n : \A x \in SerialRead(n, r, l) : x.how \in {"ok", "timeout"}
  BY <1>1 DEF SerialRead, Outcome
<1>3. \A k, r, l, n : \A x \in SocketRead(k, n, r, l) : x.how \in {"ok", "timeout"}
  BY <1>1 DEF SocketRead, Outcome
<1>4. \A r, l, n : \A x \in Vxi11Read(n, r, l) : x.how \in {"ok", "timeout"}
  <2> TAKE r, l, n
  <2>1. ASSUME NEW y \in SocketRead("vxi11", n, r, l),
               NEW x, x = IF y.how = "ok" THEN Outcome("ok", y.got \o y.rbuf, <<>>, y.line) ELSE y
        PROVE  x.how \in {"ok", "timeout"}
    <3>1. y.how \in {"ok", "timeout"}  BY <1>3
    <3>2. CASE y.how = "ok"
      <4>1. x = Outcome("ok", y.got \o y.rbuf, <<>>, y.line)  BY <2>1, <3>2
      <4> QED BY <4>1 DEF Outcome
    <3>3. CASE y.how # "ok"  BY <2>1, <3>1, <3>3
    <3> QED BY <3>2, <3>3
  <2>2. ASSUME NEW x \in Vxi11Read(n, r, l) PROVE x.how \in {"ok", "timeout"}
    <3>1. CASE Len(r) >= n  BY <1>1, <2>2, <3>1 DEF Vxi11Read
    <3>2. CASE ~(Len(r) >= n)
      <4>1. \E y \in SocketRead("vxi11", n, r, l) :
              x = IF y.how = "ok" THEN Outcome("ok", y.got \o y.rbuf, <<>>, y.line) ELSE y
        BY <2>2, <3>2 DEF Vxi11Read
      <4> QED BY <2>1, <4>1
    <3> QED BY <3>1, <3>2
  <2> QED BY <2>2
<1>5. \A r, l, n : \A x \in MessageRead(n, r, l) : x.how \in {"ok", "timeout", "error"}
  BY DEF MessageRead, Outcome
<1>6. \A k, r, l, n : \A x \in ReadBytes(k, n, r, l) : x.how \in {"ok", "timeout", "error"}
  BY <1>2, <1>3, <1>4, <1>5 DEF ReadBytes
<1>7. \A r, l : \A x \in MessageReadUntil(r, l) : x.how = "ok"
  BY DEF MessageReadUntil, Outcome
<1>8. \A k, r, l : \A x \in StreamReadUntil(k, r, l) : x.how \in {"ok", "timeout"}
  BY DEF StreamReadUntil, Outcome
<1>9. \A r, l : \A x \in Vxi11ReadUntil(r, l) : x.how \in {"ok", "timeout"}
  BY DEF Vxi11ReadUntil, Outcome
<1>10. \A k, r, l : \A x \in ReadUntil(k, r, l) : x.how \in {"ok", "timeout"}
  BY <1>7, <1>8, <1>9 DEF ReadUntil
<1>11. \A k, r, l, n : \A x \in ReadUntilTimeout(k, n, r, l) : x.how \in {"ok", "timeout", "error"}
  BY <1>6, <1>7 DEF ReadUntilTimeout, Outcome
<1> QED BY <1>6, <1>10, <1>11 DEF ReadOutcomes

LEMMA ProceedGoes ==
  ASSUME StepsInv, ~Idle, Proceed PROVE GoesOn(Tail(todo))
BY TailIsLeft DEF StepsInv, Idle, Proceed, GoesOn

LEMMA PastTryGoes ==
  ASSUME StepsInv, ~Idle, Step = "poll", GoOn(Ask \o PastTry(Tail(todo)))
  PROVE  GoesOn(Ask \o PastTry(Tail(todo)))
<1>1. /\ Left(Tail(todo), todo, 1) /\ Tail(todo) \in Seq(Steps)
      /\ Len(todo) \in Nat /\ Len(todo) >= 1
  BY TailIsLeft, EmptySeq, LenProperties DEF StepsInv, Idle, Left
<1>2. CASE Tail(todo) # <<>> /\ Head(Tail(todo)) = "done"
  <2>1. Left(Tail(Tail(todo)), Tail(todo), 1)  BY <1>1, <1>2, TailIsLeft
  <2>2. Left(Tail(Tail(todo)), todo, 1 + 1)  BY <1>1, <2>1, LeftOfLeft
  <2>3. Len(Tail(todo)) = Len(todo) - 1 /\ 1 <= Len(todo) - 1
    BY <1>1, <1>2, EmptySeq, LenProperties DEF Left
  <2>4. Tail(todo)[1] = todo[1 + 1]  BY <1>1, <2>3 DEF Left
  <2>5. Head(Tail(todo)) = Tail(todo)[1]  BY <1>1, <1>2
  <2>6. Left(Tail(Tail(todo)), todo, 2) /\ todo[2] = "done"  BY <1>2, <2>2, <2>4, <2>5
  <2>7. PastTry(Tail(todo)) = Tail(Tail(todo))  BY <1>2 DEF PastTry
  <2> QED BY <2>6, <2>7 DEF GoesOn
<1>3. CASE ~(Tail(todo) # <<>> /\ Head(Tail(todo)) = "done")
  <2>1. PastTry(Tail(todo)) = Tail(todo)  BY <1>3 DEF PastTry
  <2> QED BY <1>1, <2>1 DEF GoesOn
<1> QED BY <1>2, <1>3

LEMMA SkipGoes ==
  ASSUME StepsInv, ~Idle, Step = "if", GoOn(SubSeq(todo, EndIf + 1, Len(todo)))
  PROVE  \E u : GoesOn(u)
<1>1. /\ todo \in Seq(Steps) /\ Len(todo) \in Nat /\ DOMAIN todo = 1 .. Len(todo)
      /\ 1 \in 1 .. Len(todo) /\ todo[1] = "if"
  BY EmptySeq, LenProperties DEF StepsInv, Idle, Step
<1>2. Rest(todo, 1) = todo
  <2>1. Left(Rest(todo, 0 + 1), todo, 0)  BY <1>1, RestIsLeft
  <2>2. Left(todo, todo, 0)  BY <1>1 DEF Left
  <2> QED BY <2>1, <2>2, LeftIs
<1>3. EndIf \in IfEnds(todo)  BY <1>1, <1>2 DEF StepsInv, Nested, EndIf
<1>4. EndIf \in 0 .. Len(todo)  BY <1>1, <1>3 DEF IfEnds
<1>5. Left(Rest(todo, EndIf + 1), todo, EndIf)  BY <1>1, <1>4, RestIsLeft
<1> QED BY <1>3, <1>5 DEF GoesOn, Rest

(* The steps of each action.                                               *)
LEMMA ActionOfStep ==
  ASSUME Next, ~Idle
  PROVE  \/ Step \in {"isOpen", "isClosed"} /\ CheckOpen
         \/ Step = "markOpen" /\ MarkOpen
         \/ Step = "markClosed" /\ MarkClosed
         \/ Step = "topen" /\ OpenTransport
         \/ Step = "tclose" /\ CloseTransport
         \/ Step = "tell" /\ Tell
         \/ Step = "query" /\ Query
         \/ Step = "reply" /\ SecondReply
         \/ Step = "await" /\ Await
         \/ Step \in Reads /\ Read
         \/ Step = "poll" /\ Poll
         \/ Step = "flush" /\ Flush
         \/ Step = "drain" /\ Drain
         \/ Step \in {"valid", "verify", "lib", "fail"} /\ Check
         \/ Step = "if" /\ Choose
         \/ Step = "enter" /\ Enter
         \/ Step = "leave" /\ Leave
         \/ Step \in {"try", "done", "fi"} /\ Block
<1>1. ~(CallOpen \/ CallClose \/ CallMethod)  BY DEF CallOpen, CallClose, CallMethod, Start
<1>2. CheckOpen => Step \in {"isOpen", "isClosed"}  BY DEF CheckOpen, At
<1>3. MarkOpen => Step = "markOpen"  BY DEF MarkOpen, At
<1>4. MarkClosed => Step = "markClosed"  BY DEF MarkClosed, At
<1>5. OpenTransport => Step = "topen"  BY DEF OpenTransport, At
<1>6. CloseTransport => Step = "tclose"  BY DEF CloseTransport, At
<1>7. Tell => Step = "tell"  BY DEF Tell, At
<1>8. Query => Step = "query"  BY DEF Query, At
<1>9. SecondReply => Step = "reply"  BY DEF SecondReply, At
<1>10. Await => Step = "await"  BY DEF Await, At
<1>11. Read => Step \in Reads  BY DEF Read
<1>12. Poll => Step = "poll"  BY DEF Poll, At
<1>13. Flush => Step = "flush"  BY DEF Flush, At
<1>14. Drain => Step = "drain"  BY DEF Drain, At
<1>15. Check => Step \in {"valid", "verify", "lib", "fail"}  BY DEF Check, At
<1>16. Choose => Step = "if"  BY DEF Choose, At
<1>17. Enter => Step = "enter"  BY DEF Enter, At
<1>18. Leave => Step = "leave"  BY DEF Leave, At
<1>19. Block => Step \in {"try", "done", "fi"}  BY DEF Block, At
<1> QED BY <1>1, <1>2, <1>3, <1>4, <1>5, <1>6, <1>7, <1>8, <1>9, <1>10, <1>11, <1>12, <1>13, <1>14, <1>15, <1>16, <1>17, <1>18, <1>19 DEF Next

(* What a step says of the state: it goes on or raises, and the steps that *)
(* open and close are the only ones to change what is open.                *)
Goes == (\E u : GoesOn(u)) \/ Raises
(* What a step of a method may change at all.                              *)
Stays ==
  /\ driver' = driver /\ calling' = calling /\ atCall' = atCall
  /\ instOpen' = instOpen \/ Step \in {"markOpen", "markClosed"}
  /\ tOpen' = tOpen \/ Step \in {"topen", "tclose"}
  /\ config' = config \/ Step \in {"enter", "leave"}

LEMMA StepStays == ASSUME Next, ~Idle PROVE Stays
BY ActionOfStep
   DEF Stays, openVars, modeVars, CheckOpen, MarkOpen, MarkClosed,
       OpenTransport, CloseTransport, Tell, Query, SecondReply, Await, Read, Poll, Flush,
       Drain, Check, Choose, Enter, Leave, Block

LEMMA StepGoes == ASSUME StepsInv, Next, ~Idle PROVE Goes
<1>1. Proceed => Goes  BY ProceedGoes DEF Goes
<1>2. Raise \/ RaiseAs("timeout") \/ RaiseAs("os") \/ RaiseAs("error") => Goes
  BY DEF Goes, Raises, Raise, Faults
<1>3. WriteFails => Goes  BY <1>2 DEF WriteFails
<1>4. ReadFails => Goes  BY <1>2 DEF ReadFails
<1>5. CASE Step \in {"isOpen", "isClosed"} /\ CheckOpen
  BY <1>5, <1>1, <1>2 DEF CheckOpen
<1>6. CASE Step = "markOpen" /\ MarkOpen  BY <1>6, <1>1, <1>2 DEF MarkOpen
<1>7. CASE Step = "markClosed" /\ MarkClosed  BY <1>7, <1>1, <1>2 DEF MarkClosed
<1>8. CASE Step = "topen" /\ OpenTransport  BY <1>8, <1>1, <1>2 DEF OpenTransport
<1>9. CASE Step = "tclose" /\ CloseTransport  BY <1>9, <1>1, <1>2 DEF CloseTransport
<1>10. CASE Step = "tell" /\ Tell  BY <1>10, <1>1, <1>3 DEF Tell
<1>11. CASE Step = "query" /\ Query  BY <1>11, <1>1, <1>3 DEF Query
<1>12. CASE Step = "reply" /\ SecondReply  BY <1>12, <1>1 DEF SecondReply
<1>13. CASE Step = "await" /\ Await  BY <1>13, <1>1 DEF Await
<1>14. CASE Step \in Reads /\ Read
  <2>1. CASE ReadFails  BY <2>1, <1>4
  <2>2. CASE \E o \in ReadOutcomes(Step) :
               CASE o.how # "ok" -> RaiseAs(o.how)
                 [] o.how = "ok" /\ Accepted(Step, o.got) -> Proceed
                 [] o.how = "ok" /\ ~Accepted(Step, o.got) -> Raise
    <3>1. PICK o \in ReadOutcomes(Step) :
               CASE o.how # "ok" -> RaiseAs(o.how)
                 [] o.how = "ok" /\ Accepted(Step, o.got) -> Proceed
                 [] o.how = "ok" /\ ~Accepted(Step, o.got) -> Raise
      BY <2>2
    <3>2. o.how \in {"ok", "timeout", "error"}  BY ReadEnds
    <3>3. CASE o.how = "timeout"  BY <3>1, <3>3, <1>2
    <3>4. CASE o.how = "error"  BY <3>1, <3>4, <1>2
    <3>5. CASE o.how = "ok" /\ Accepted(Step, o.got)  BY <3>1, <3>5, <1>1
    <3>6. CASE o.how = "ok" /\ ~Accepted(Step, o.got)  BY <3>1, <3>6, <1>2
    <3> QED BY <3>2, <3>3, <3>4, <3>5, <3>6
  <2> QED BY <1>14, <2>1, <2>2 DEF Read
<1>15. CASE Step = "poll" /\ Poll
  <2>1. CASE ReadFails  BY <2>1, <1>4
  <2>2. CASE Proceed  BY <2>2, <1>1
  <2>3. CASE \E o \in ReadOutcomes("line") :
               IF o.how = "ok" THEN GoOn(Ask \o PastTry(Tail(todo))) \/ Proceed ELSE RaiseAs(o.how)
    <3>1. PICK o \in ReadOutcomes("line") :
               IF o.how = "ok" THEN GoOn(Ask \o PastTry(Tail(todo))) \/ Proceed ELSE RaiseAs(o.how)
      BY <2>3
    <3>2. o.how \in {"ok", "timeout", "error"}  BY ReadEnds
    <3>3. CASE o.how = "timeout"  BY <3>1, <3>3, <1>2
    <3>4. CASE o.how = "error"  BY <3>1, <3>4, <1>2
    <3>5. CASE o.how = "ok" /\ GoOn(Ask \o PastTry(Tail(todo)))
      <4>1. GoesOn(Ask \o PastTry(Tail(todo)))  BY <1>15, <3>5, PastTryGoes
      <4> QED BY <4>1 DEF Goes
    <3>6. CASE o.how = "ok" /\ Proceed  BY <3>6, <1>1
    <3> QED BY <3>1, <3>2, <3>3, <3>4, <3>5, <3>6
  <2> QED BY <1>15, <2>1, <2>2, <2>3 DEF Poll
<1>16. CASE Step = "flush" /\ Flush  BY <1>16, <1>1, <1>2 DEF Flush
<1>17. CASE Step = "drain" /\ Drain  BY <1>17, <1>1, <1>2 DEF Drain
<1>18. CASE Step \in {"valid", "verify", "lib", "fail"} /\ Check
  BY <1>18, <1>1, <1>2 DEF Check
<1>19. CASE Step = "if" /\ Choose
  BY <1>19, <1>1, SkipGoes DEF Choose, Goes
<1>20. CASE Step = "enter" /\ Enter  BY <1>20, <1>1, <1>3 DEF Enter
<1>21. CASE Step = "leave" /\ Leave  BY <1>21, <1>1, <1>3 DEF Leave
<1>22. CASE Step \in {"try", "done", "fi"} /\ Block  BY <1>22, <1>1 DEF Block
<1> QED BY ActionOfStep, <1>5, <1>6, <1>7, <1>8, <1>9, <1>10, <1>11, <1>12, <1>13, <1>14,
           <1>15, <1>16, <1>17, <1>18, <1>19, <1>20, <1>21, <1>22

(* The steps it goes on with.                                              *)
LEMMA StepsAfter ==
  ASSUME StepsInv, ~Idle, NEW u, GoesOn(u)
  PROVE  /\ u \in Seq(Steps) /\ Nested(u)
         /\ \A S : Without(todo, S) /\ "query" \notin S /\ "scpi" \notin S => Without(u, S)
         /\ Step \notin {"if", "poll"} => Left(u, todo, 1)
         /\ Step # "poll" => \E k \in {1} \cup IfEnds(todo) :
                                Left(u, todo, k) /\ (k # 1 => Step = "if")
<1>1. todo \in Seq(Steps) /\ todo # <<>> /\ Nested(todo)  BY DEF StepsInv, Idle
<1>2. ASSUME NEW k, Left(u, todo, k)
      PROVE  /\ u \in Seq(Steps) /\ Nested(u)
             /\ \A S : Without(todo, S) => Without(u, S)
  BY <1>1, <1>2, NestedLeft, WithoutLeft DEF Left
<1>3. ASSUME NEW v, NEW j, Left(v, todo, j), u = Ask \o v
      PROVE  /\ u \in Seq(Steps) /\ Nested(u)
             /\ \A S : Without(todo, S) /\ "query" \notin S /\ "scpi" \notin S => Without(u, S)
  <2>1. v \in Seq(Steps) /\ Nested(v)  BY <1>1, <1>3, NestedLeft DEF Left
  <2>2. \A S : Without(todo, S) => Without(v, S)  BY <1>3, WithoutLeft
  <2>3. u \in Seq(Steps)  BY <1>3, <2>1, AskLeft
  <2>4. Nested(u)  BY <1>3, <2>1, AskNested
  <2>5. \A S : Without(v, S) /\ "query" \notin S /\ "scpi" \notin S => Without(u, S)
    BY <1>3, <2>1, AskWithout
  <2> QED BY <2>2, <2>3, <2>4, <2>5
<1>4. CASE Left(u, todo, 1)
  <2>1. \E k \in {1} \cup IfEnds(todo) : Left(u, todo, k) /\ (k # 1 => Step = "if")
    BY <1>4
  <2>2. /\ u \in Seq(Steps) /\ Nested(u) /\ \A S : Without(todo, S) => Without(u, S)
    BY <1>2, <1>4
  <2> QED BY <1>4, <2>1, <2>2
<1>5. CASE Step = "if" /\ \E k \in IfEnds(todo) : Left(u, todo, k)
  <2>1. PICK k \in IfEnds(todo) : Left(u, todo, k)  BY <1>5
  <2>2. /\ u \in Seq(Steps) /\ Nested(u) /\ \A S : Without(todo, S) => Without(u, S)
    BY <1>2, <2>1
  <2>3. \E j \in {1} \cup IfEnds(todo) : Left(u, todo, j) /\ (j # 1 => Step = "if")
    BY <1>5, <2>1
  <2> QED BY <1>5, <2>2, <2>3
<1>6. CASE Step = "poll" /\ \E v, j : Left(v, todo, j) /\ u = Ask \o v
  BY <1>3, <1>6
<1> QED BY <1>4, <1>5, <1>6 DEF GoesOn

(* The step before it, and where it stands.                                *)
LEMMA StepIsFirst ==
  ASSUME StepsInv, ~Idle
  PROVE  /\ todo \in Seq(Steps) /\ Len(todo) \in Nat /\ Len(todo) >= 1
         /\ DOMAIN todo = 1 .. Len(todo) /\ todo[1] = Step /\ Step \in Steps
BY EmptySeq, LenProperties, ElementOfSeq DEF StepsInv, Idle, Step

(* What raising does.                                                      *)
LEMMA RaiseEffects ==
  ASSUME StepsInv, NEW f \in Faults, RaiseAs(f)
  PROVE  \/ /\ todo' = <<>> /\ handler' = NoExcept /\ failing' = FALSE
            /\ \/ outcome' = "raised"
               \/ /\ outcome' = "returned" /\ InTry /\ f \in handler.catches
                  /\ handler.steps = <<>> /\ f \notin handler.reraise
         \/ /\ todo' = handler.steps /\ todo' # <<>> /\ handler' = NoExcept
            /\ InTry /\ f \in handler.catches
            /\ failing' = (f \in handler.reraise) /\ outcome' = outcome
BY DEF RaiseAs, Finish

(* What going on does.                                                     *)
LEMMA GoOnEffects ==
  ASSUME NEW u, GoesOn(u)
  PROVE  \/ /\ u # <<>> /\ todo' = u
            /\ handler' = handler /\ failing' = failing /\ outcome' = outcome
         \/ /\ u = <<>> /\ todo' = <<>> /\ handler' = NoExcept /\ failing' = FALSE
            /\ outcome' = IF failing THEN "raised" ELSE "returned"
BY DEF GoesOn, GoOn, Finish

LEMMA NoSteps ==
  <<>> \in Seq(Steps) /\ Nested(<<>>) /\ \A S : Without(<<>>, S)
<1>1. <<>> \in Seq(Steps) /\ DOMAIN <<>> = 1 .. 0  BY EmptySeq, LenProperties
<1> QED BY <1>1 DEF Nested, Without

LEMMA NoneLeft ==
  ASSUME NEW u, NEW t, NEW k, Left(u, t, k) PROVE u = <<>> <=> k = Len(t)
BY EmptySeq, LenProperties DEF Left

LEMMA OneLeft ==
  ASSUME NEW u, NEW t, NEW k, Left(u, t, k), k = Len(t) - 1
  PROVE  u = <<t[Len(t)]>>
<1>1. /\ Len(t) \in Nat /\ k \in 0 .. Len(t) /\ u \in Seq(Steps) /\ Len(u) = 1
      /\ u[1] = t[1 + k]
  BY LenProperties DEF Left
<1>2. 1 + k = Len(t)  BY <1>1
<1>3. u[1] \in Steps /\ u[1] = t[Len(t)]
  <2>1. 1 \in 1 .. Len(u)  BY <1>1
  <2>2. u[1] \in Steps  BY <1>1, <2>1, ElementOfSeq
  <2> QED BY <1>1, <1>2, <2>2
<1> DEFINE x == t[Len(t)]
           w == <<x>>
<1>4. w \in Seq(Steps) /\ Len(w) = 1 /\ w[1] = u[1]  BY <1>3
<1> HIDE DEF w
<1>5. \A i \in 1 .. 1 : u[i] = w[i]  BY <1>4
<1>6. u = w  BY <1>1, <1>4, <1>5, SeqEqual
<1> QED BY <1>6 DEF w

(* The last step of a method is followed by none.                          *)
LEMMA LastStep ==
  ASSUME StepsInv, ~Idle, Len(todo) = 1, Step \notin {"if", "poll"},
         NEW u, GoesOn(u)
  PROVE  u = <<>>
BY StepsAfter, NoneLeft

LEMMA NotInTry == ASSUME Without(todo, {"done"}) PROVE ~InTry
BY DEF Without, InTry

LEMMA OpenIsBoolean ==
  ASSUME StepsInv, Next, ~Idle
  PROVE  instOpen' \in BOOLEAN /\ tOpen' \in BOOLEAN /\ config' \in BOOLEAN
<1>1. instOpen \in BOOLEAN /\ tOpen \in BOOLEAN /\ config \in BOOLEAN  BY DEF StepsInv
<1> QED
  BY <1>1, ActionOfStep
     DEF openVars, modeVars, CheckOpen, MarkOpen, MarkClosed,
         OpenTransport, CloseTransport, Tell, Query, SecondReply, Await, Read, Poll, Flush,
         Drain, Check, Choose, Enter, Leave, Block

LEMMA StepsStep == ASSUME StepsInv, ~Idle, Next PROVE StepsInv'
<1>1. Stays  BY StepStays
<1>2. instOpen' \in BOOLEAN /\ tOpen' \in BOOLEAN /\ config' \in BOOLEAN  BY OpenIsBoolean
<1>3. NoExcept.steps = <<>> /\ NoExcept.catches = {} /\ NoExcept.reraise = {}
  BY DEF NoExcept, Except
<1>4. /\ driver' \in DOMAIN Table /\ calling' \in {"open", "close", "method"}
      /\ atCall' \in [inst : BOOLEAN, transport : BOOLEAN, config : BOOLEAN]
  BY <1>1 DEF StepsInv, Stays
<1>5. CASE \E u : GoesOn(u)
  <2>1. PICK u : GoesOn(u)  BY <1>5
  <2>2. u \in Seq(Steps) /\ Nested(u)  BY <2>1, StepsAfter
  <2>3. CASE /\ u # <<>> /\ todo' = u
             /\ handler' = handler /\ failing' = failing /\ outcome' = outcome
    BY <2>2, <2>3, <1>2, <1>4 DEF StepsInv, Idle
  <2>4. CASE /\ u = <<>> /\ todo' = <<>> /\ handler' = NoExcept /\ failing' = FALSE
             /\ outcome' = IF failing THEN "raised" ELSE "returned"
    BY <2>4, <1>2, <1>3, <1>4, NoSteps DEF StepsInv, Outcomes
  <2> QED BY <2>1, <2>3, <2>4, GoOnEffects
<1>6. CASE Raises
  <2>1. PICK f \in Faults : RaiseAs(f)  BY <1>6 DEF Raises
  <2>2. CASE /\ todo' = <<>> /\ handler' = NoExcept /\ failing' = FALSE
             /\ outcome' \in {"raised", "returned"}
    BY <2>2, <1>2, <1>3, <1>4, NoSteps DEF StepsInv, Outcomes
  <2>3. CASE /\ todo' = handler.steps /\ todo' # <<>> /\ handler' = NoExcept
             /\ failing' = (f \in handler.reraise) /\ outcome' = outcome
    <3>1. failing' \in BOOLEAN /\ outcome' \in Outcomes /\ todo' \in Seq(Steps) /\ Nested(todo')
      BY <2>3 DEF StepsInv
    <3> QED BY <2>3, <3>1, <1>2, <1>3, <1>4, NoSteps DEF StepsInv, Idle
  <2> QED BY <2>1, <2>2, <2>3, RaiseEffects
<1> QED BY <1>5, <1>6, StepGoes DEF Goes

-----------------------------------------------------------------------------
(* Methods neither open nor close                                          *)

LEMMA MethodStep == ASSUME StepsInv, MethodInv, ~Idle, Next PROVE MethodInv'
<1> SUFFICES ASSUME calling' = "method", Regular'
             PROVE  Without(todo', OpenSteps) /\ Without(handler'.steps, OpenSteps)
  BY DEF MethodInv
<1>1. Stays  BY StepStays
<1>2. Without(todo, OpenSteps) /\ Without(handler.steps, OpenSteps)
  BY <1>1 DEF Stays, MethodInv, Regular
<1>3. Without(NoExcept.steps, OpenSteps) /\ Without(<<>>, OpenSteps)
  BY NoSteps DEF NoExcept, Except
<1>4. "query" \notin OpenSteps /\ "scpi" \notin OpenSteps  BY DEF OpenSteps
<1>5. ASSUME NEW u, GoesOn(u)
      PROVE  Without(todo', OpenSteps) /\ Without(handler'.steps, OpenSteps)
  <2>1. Without(u, OpenSteps)  BY <1>2, <1>4, <1>5, StepsAfter
  <2> QED BY <1>2, <1>3, <1>5, <2>1, GoOnEffects
<1>6. ASSUME NEW f \in Faults, RaiseAs(f)
      PROVE  Without(todo', OpenSteps) /\ Without(handler'.steps, OpenSteps)
  BY <1>2, <1>3, <1>6, RaiseEffects
<1> QED BY <1>5, <1>6, StepGoes DEF Goes, Raises

-----------------------------------------------------------------------------
(* close()                                                                 *)

(* A method that is not yet at its last two steps.                         *)
LEMMA ClosingGoesOn ==
  ASSUME StepsInv, ~Idle, EndsClosed(todo), Len(todo) > 2, NEW u, GoesOn(u)
  PROVE  EndsClosed(u) /\ u # <<>>
<1>1. Len(todo) \in Nat /\ todo[1] = Step /\ DOMAIN todo = 1 .. Len(todo)  BY StepIsFirst
<1>2. Step # "poll"  BY <1>1 DEF EndsClosed
<1>3. PICK k \in {1} \cup IfEnds(todo) : Left(u, todo, k)  BY <1>2, StepsAfter
<1>4. k <= Len(todo) - 2
  <2>1. CASE k = 1
    <3>1. \A n \in Nat : n > 2 => 1 <= n - 2  OBVIOUS
    <3> QED BY <1>1, <2>1, <3>1
  <2>2. CASE k \in IfEnds(todo)
    <3>1. k \in 1 .. Len(todo) /\ todo[k] = "fi"  BY <1>1, <2>2 DEF IfEnds
    <3>2. k # Len(todo) /\ k # Len(todo) - 1  BY <3>1 DEF EndsClosed
    <3>3. \A n \in Nat : \A j \in 1 .. n : j # n /\ j # n - 1 => j <= n - 2  OBVIOUS
    <3> QED BY <1>1, <3>1, <3>2, <3>3
  <2> QED BY <1>3, <2>1, <2>2
<1>5. EndsClosed(u)  BY <1>3, <1>4, EndsClosedLeft
<1> QED BY <1>5, EmptySeq DEF EndsClosed

LEMMA ClosingStep ==
  ASSUME StepsInv, ClosingInv, ~Idle, Next, calling = "close", driver \notin Unclosable
  PROVE  ClosingInv' /\ CloseReleases'
<1>1. Stays  BY StepStays
<1>2. /\ todo \in Seq(Steps) /\ Len(todo) \in Nat /\ Len(todo) >= 1
      /\ DOMAIN todo = 1 .. Len(todo) /\ todo[1] = Step
  BY StepIsFirst
<1>3. Kind # "library"  BY DEF ClosingInv
<1>4. instOpen \in BOOLEAN /\ tOpen \in BOOLEAN
      /\ atCall \in [inst : BOOLEAN, transport : BOOLEAN, config : BOOLEAN]
  BY DEF StepsInv
<1>5. Kind' = Kind  BY <1>1 DEF Stays, Kind
<1>6. CASE todo = <<"tclose">> /\ ~instOpen /\ atCall.inst /\ tOpen = atCall.transport
  <2>1. Len(todo) = 1 /\ Step = "tclose"  BY <1>2, <1>6
  <2>2. CloseTransport  BY <2>1, ActionOfStep DEF Reads
  <2>3. instOpen' = FALSE  BY <1>1, <1>6, <2>1 DEF Stays
  <2>4. tOpen' = FALSE  BY <1>3, <1>4, <2>2 DEF CloseTransport
  <2>5. todo' = <<>> /\ outcome' \in {"returned", "raised"}
    <3>1. ASSUME NEW u, GoesOn(u) PROVE todo' = <<>> /\ outcome' \in {"returned", "raised"}
      <4>1. u = <<>>  BY <2>1, <3>1, LastStep
      <4> QED BY <3>1, <4>1, GoOnEffects
    <3>2. ASSUME NEW f \in Faults, RaiseAs(f)
          PROVE  todo' = <<>> /\ outcome' \in {"returned", "raised"}
      <4>1. Without(todo, {"done"})  BY <1>2, <2>1 DEF Without
      <4> QED BY <3>2, <4>1, NotInTry, RaiseEffects
    <3> QED BY <3>1, <3>2, StepGoes DEF Goes, Raises
  <2> QED BY <2>3, <2>4, <2>5 DEF ClosingInv, CloseReleases, Idle
<1>7. CASE /\ EndsClosed(todo) /\ (handler.catches # {} => EndsClosed(handler.steps))
           /\ AsAtCall
  <2>1. /\ Len(todo) >= 2 /\ todo[Len(todo) - 1] = "markClosed" /\ todo[Len(todo)] = "tclose"
        /\ \A i \in 1 .. Len(todo) - 2 : todo[i] \notin OpenSteps \cup {"poll"}
    BY <1>7 DEF EndsClosed
  <2>2. CASE Len(todo) = 2
    <3>1. Step = "markClosed"  BY <1>2, <2>1, <2>2
    <3>2. MarkClosed  BY <3>1, ActionOfStep DEF Reads
    <3>3. tOpen' = tOpen /\ instOpen' = FALSE  BY <3>2 DEF MarkClosed
    <3>4. CASE instOpen
      <4>1. Proceed  BY <3>2, <3>4 DEF MarkClosed
      <4>2. PICK u : GoesOn(u)  BY <4>1, ProceedGoes
      <4>3. Left(u, todo, 1)  BY <3>1, <4>2, StepsAfter
      <4>4. u = <<"tclose">>
        <5>1. 1 = Len(todo) - 1  BY <2>2
        <5>2. u = <<todo[Len(todo)]>>  BY <4>3, <5>1, OneLeft
        <5> QED BY <2>1, <5>2
      <4>5. todo' = <<"tclose">>  BY <4>2, <4>4, GoOnEffects
      <4>6. atCall.inst /\ tOpen = atCall.transport  BY <1>7, <3>4 DEF AsAtCall
      <4>7. ~Idle'  BY <4>5 DEF Idle
      <4>8. atCall'.inst /\ tOpen' = atCall'.transport  BY <1>1, <3>3, <4>6 DEF Stays
      <4> QED BY <1>3, <1>5, <3>3, <4>5, <4>7, <4>8 DEF ClosingInv, CloseReleases
    <3>5. CASE ~instOpen
      <4>1. RaiseAs("error")  BY <3>2, <3>5 DEF MarkClosed, Raise
      <4>2. Without(todo, {"done"})
        <5>1. \A i \in 1 .. Len(todo) : i = 1 \/ i = 2  BY <2>2
        <5>2. todo[1] = "markClosed" /\ todo[2] = "tclose"  BY <2>1, <2>2
        <5> QED BY <1>2, <5>1, <5>2 DEF Without
      <4>3. todo' = <<>> /\ outcome' = "raised"
        BY <4>1, <4>2, NotInTry, RaiseEffects DEF Faults
      <4>4. atCall.inst = atCall.transport => instOpen' = tOpen'
        BY <1>4, <1>7, <3>3, <3>5 DEF AsAtCall
      <4> QED BY <1>1, <4>3, <4>4 DEF ClosingInv, CloseReleases, Idle, Stays
    <3> QED BY <1>4, <3>4, <3>5
  <2>3. CASE Len(todo) > 2
    <3>1. Step \notin OpenSteps  BY <1>2, <2>1, <2>3
    <3>2. AsAtCall'  BY <1>1, <1>7, <3>1 DEF Stays, AsAtCall, OpenSteps
    <3>3. ASSUME NEW u, GoesOn(u) PROVE ClosingInv' /\ CloseReleases'
      <4>1. EndsClosed(u) /\ u # <<>>  BY <1>7, <2>3, <3>3, ClosingGoesOn
      <4>2. todo' = u /\ handler' = handler  BY <3>3, <4>1, GoOnEffects
      <4>3. ~Idle'  BY <4>1, <4>2 DEF Idle
      <4> QED BY <1>3, <1>5, <1>7, <3>2, <4>1, <4>2, <4>3 DEF ClosingInv, CloseReleases
    <3>4. ASSUME NEW f \in Faults, RaiseAs(f) PROVE ClosingInv' /\ CloseReleases'
      <4>1. CASE todo' = <<>> /\ outcome' = "raised"
        <5>1. atCall'.inst = atCall'.transport => instOpen' = tOpen'  BY <3>2 DEF AsAtCall
        <5> QED BY <4>1, <5>1 DEF ClosingInv, CloseReleases, Idle
      <4>2. CASE f \in handler.catches /\ handler.steps = <<>>
        <5>1. EndsClosed(handler.steps)  BY <1>7, <4>2
        <5> QED BY <4>2, <5>1, EmptySeq DEF EndsClosed
      <4>3. CASE /\ todo' = handler.steps /\ todo' # <<>> /\ handler' = NoExcept
                 /\ f \in handler.catches
        <5>1. EndsClosed(todo') /\ ~Idle'  BY <1>7, <4>3 DEF Idle
        <5>2. handler'.catches = {}  BY <4>3 DEF NoExcept, Except
        <5> QED BY <1>3, <1>5, <3>2, <5>1, <5>2 DEF ClosingInv, CloseReleases
      <4> QED BY <3>4, <4>1, <4>2, <4>3, RaiseEffects
    <3> QED BY <3>3, <3>4, StepGoes DEF Goes, Raises
  <2> QED BY <1>2, <2>1, <2>2, <2>3
<1> QED BY <1>6, <1>7 DEF ClosingInv

-----------------------------------------------------------------------------
(* open()                                                                  *)

LEMMA RaiseIsCaught ==
  ASSUME NEW f, RaiseAs(f), InTry, f \in handler.catches, handler.steps # <<>>
  PROVE  /\ todo' = handler.steps /\ handler' = NoExcept
         /\ failing' = (f \in handler.reraise)
BY DEF RaiseAs

(* The steps that cannot fail, and a write on an open transport.           *)
LEMMA NeverRaises ==
  ASSUME Next, ~Idle, Step \in {"reply", "try", "done"} PROVE Proceed
BY ActionOfStep DEF SecondReply, Block, Reads

LEMMA WriteRaises ==
  ASSUME Next, ~Idle, Step \in {"tell", "query"}, tOpen, Kind \notin {"vxi11", "gpib"}
  PROVE  Proceed \/ RaiseAs("os")
BY ActionOfStep DEF Tell, Query, WriteFails, Reads

(* The steps of Unopened, one by one.                                      *)
UnopenedAt(t) ==
  /\ t \in 1 .. Len(todo) - 1 /\ todo[t] = "topen"
  /\ \A i \in 1 .. t - 1 : todo[i] \in {"isClosed", "valid"}
  /\ Opened(driver, Rest(todo, t + 1), handler, 1)

LEMMA UnopenedIsAt ==
  ASSUME StepsInv, ~Idle, NEW checked, Unopened(driver, todo, handler, checked)
  PROVE  \E t : UnopenedAt(t) /\ (checked \/ \E i \in 1 .. t - 1 : todo[i] = "isClosed")
<1>1. todo \in Seq(Steps) /\ Len(todo) \in Nat /\ DOMAIN todo = 1 .. Len(todo)
  BY StepIsFirst
<1>2. PICK t \in 1 .. Len(todo) :
        /\ todo[t] = "topen" /\ \A i \in 1 .. t - 1 : todo[i] \in {"isClosed", "valid"}
        /\ checked \/ \E i \in 1 .. t - 1 : todo[i] = "isClosed"
        /\ Opened(driver, Rest(todo, t + 1), handler, 1)
  BY <1>1 DEF Unopened
<1>3. Left(Rest(todo, t + 1), todo, t)  BY <1>1, RestIsLeft
<1>4. t # Len(todo)
  <2>1. Rest(todo, t + 1) # <<>>  BY <1>2 DEF Opened
  <2> QED BY <1>3, <2>1, NoneLeft
<1>5. t \in 1 .. Len(todo) - 1
  <2>1. \A n \in Nat : \A j \in 1 .. n : j # n => j \in 1 .. n - 1  OBVIOUS
  <2> QED BY <1>1, <1>2, <1>4, <2>1
<1>6. UnopenedAt(t)  BY <1>2, <1>5 DEF UnopenedAt
<1> QED BY <1>2, <1>6

LEMMA UnopenedNotInTry ==
  ASSUME StepsInv, ~Idle, NEW t, UnopenedAt(t)
  PROVE  ~InTry
<1>1. todo \in Seq(Steps) /\ Len(todo) \in Nat /\ DOMAIN todo = 1 .. Len(todo)
  BY StepIsFirst
<1>2. t \in 1 .. Len(todo) - 1 /\ todo[t] = "topen"
      /\ \A i \in 1 .. t - 1 : todo[i] \in {"isClosed", "valid"}
  BY DEF UnopenedAt
<1> DEFINE s == Rest(todo, t + 1)
<1>3. Left(s, todo, t)  BY <1>1, <1>2, RestIsLeft
<1>4. Opened(driver, s, handler, 1)  BY DEF UnopenedAt
<1> HIDE DEF s
<1>5. Len(s) = Len(todo) - t /\ \A i \in 1 .. Len(s) : todo[i + t] = s[i]
  BY <1>3, <1>1, <1>2 DEF Left
<1>6. \A i \in t + 1 .. Len(todo) : i - t \in 1 .. Len(s) /\ todo[i] = s[i - t]
  <2> TAKE i \in t + 1 .. Len(todo)
  <2>1. i - t \in 1 .. Len(s) /\ (i - t) + t = i  BY <1>1, <1>2, <1>5
  <2> QED BY <1>5, <2>1
<1>7. ASSUME NEW i \in 1 .. Len(todo), todo[i] = "done", \A j \in 1 .. i : todo[j] # "try"
      PROVE  FALSE
  <2>1. i \in t + 1 .. Len(todo)  BY <1>1, <1>2, <1>7
  <2>2. i - t \in 1 .. Len(s) /\ s[i - t] = "done"  BY <1>6, <1>7, <2>1
  <2>3. s[Len(s)] = "markOpen" /\ (Len(s) = 1 \/ Trying(driver, s, handler, 1))
    BY <1>4 DEF Opened
  <2>4. Len(s) # 1  BY <2>2, <2>3
  <2>5. PICK j \in 1 .. Len(s) - 2 : s[j] = "try" /\ \A k \in 1 .. j - 1 : s[k] = "reply"
    <3>1. Trying(driver, s, handler, 1)  BY <2>3, <2>4
    <3>2. PICK j \in 1 .. Len(s) - 2 :
            /\ j > 0 => s[j] = "try" 
            /\ \A k \in 1 .. j - 1 : s[k] = "reply"
      BY <3>1 DEF Trying
    <3>3. s[j] = "try"  BY <3>2, <1>1, <1>2, <1>5
    <3> QED BY <3>2, <3>3
  <2>6. ~(i - t <= j - 1)  BY <2>2, <2>5
  <2>7. j + t \in 1 .. i  BY <1>1, <1>2, <1>5, <2>1, <2>2, <2>5, <2>6
  <2>8. todo[j + t] = "try"
    <3>1. j \in 1 .. Len(s)  BY <1>1, <1>2, <1>5
    <3> QED BY <1>5, <2>5, <3>1
  <2> QED BY <1>7, <2>7, <2>8
<1> QED BY <1>1, <1>7 DEF InTry

(* What holds of a call of open() that ends or goes on.                    *)
OpenHolds == OpeningInv' /\ OpenIsAllOrNothing'

LEMMA OpenRaised ==
  ASSUME StepsInv, ~Idle, Next, AsAtCall', config' = atCall'.config,
         todo' = <<>>, outcome' = "raised"
  PROVE  OpenHolds
<1>1. atCall' \in [inst : BOOLEAN, transport : BOOLEAN, config : BOOLEAN]
  BY StepsStep DEF StepsInv
<1>2. atCall' = [inst |-> atCall'.inst, transport |-> atCall'.transport, config |-> atCall'.config]
  BY <1>1
<1>3. Now' = atCall'  BY <1>2 DEF Now, AsAtCall
<1> QED BY <1>3 DEF OpenHolds, OpeningInv, OpenIsAllOrNothing, Idle

LEMMA BeforeOpen ==
  ASSUME StepsInv, TransportInv, OpeningInv, ~Idle, Next, calling = "open",
         driver \notin HalfOpen, ~failing, AsAtCall,
         Unopened(driver, todo, handler, driver \notin Unclosable \/ ~instOpen)
  PROVE  OpenHolds
<1>1. /\ todo \in Seq(Steps) /\ Len(todo) \in Nat /\ Len(todo) >= 1
      /\ DOMAIN todo = 1 .. Len(todo) /\ todo[1] = Step
  BY StepIsFirst
<1>2. Stays  BY StepStays
<1>3. config = atCall.config  BY DEF OpeningInv
<1> DEFINE checked == driver \notin Unclosable \/ ~instOpen
<1>4. PICK t : UnopenedAt(t) /\ (checked \/ \E i \in 1 .. t - 1 : todo[i] = "isClosed")
  BY UnopenedIsAt
<1>5. /\ t \in 1 .. Len(todo) - 1 /\ todo[t] = "topen"
      /\ \A i \in 1 .. t - 1 : todo[i] \in {"isClosed", "valid"}
      /\ Opened(driver, Rest(todo, t + 1), handler, 1)
  BY <1>4 DEF UnopenedAt
<1>6. ~InTry  BY <1>4, UnopenedNotInTry
<1>7. ASSUME NEW f \in Faults, RaiseAs(f) PROVE todo' = <<>> /\ outcome' = "raised"
  BY <1>6, <1>7, RaiseEffects
<1>8. instOpen \in BOOLEAN /\ tOpen \in BOOLEAN
      /\ atCall \in [inst : BOOLEAN, transport : BOOLEAN, config : BOOLEAN]
  BY DEF StepsInv
<1>9. CASE t = 1
  <2>1. Step = "topen" /\ OpenTransport  BY <1>1, <1>5, <1>9, ActionOfStep DEF Reads
  <2>2. instOpen' = instOpen /\ config' = config  BY <2>1 DEF Stays, OpenTransport
  <2>3. config' = atCall'.config  BY <1>2, <1>3, <2>2 DEF Stays
  <2>4. CASE Raise /\ tOpen' = tOpen
    <3>1. AsAtCall'  BY <1>2, <2>2, <2>4 DEF AsAtCall, Stays
    <3>2. todo' = <<>> /\ outcome' = "raised"  BY <2>4, <1>7 DEF Raise, Faults
    <3> QED BY <2>3, <3>1, <3>2, OpenRaised
  <2>5. CASE Proceed /\ ~tOpen /\ tOpen' = TRUE
    <3>1. ~instOpen
      <4>1. checked  BY <1>4, <1>9
      <4>2. CASE ~instOpen  BY <4>2
      <4>3. CASE driver \notin Unclosable  BY <4>3, <2>5 DEF TransportInv, Regular
      <4> QED BY <4>1, <4>2, <4>3
    <3>2. ~atCall.inst /\ ~atCall.transport  BY <1>8, <2>5, <3>1 DEF AsAtCall
    <3>3. PICK u : GoesOn(u)  BY <2>5, ProceedGoes
    <3>4. Left(u, todo, 1)  BY <2>1, <3>3, StepsAfter
    <3>5. u = Rest(todo, 2)
      <4>1. 1 \in 0 .. Len(todo) /\ 1 + 1 = 2  BY <1>1
      <4>2. Left(Rest(todo, 1 + 1), todo, 1)  BY <1>1, <4>1, RestIsLeft
      <4> QED BY <3>4, <4>1, <4>2, LeftIs
    <3>6. Opened(driver, u, handler, 1)  BY <1>5, <1>9, <3>5
    <3>7. Opened(driver, u, handler, 0)
      <4>1. Trying(driver, u, handler, 1) => Trying(driver, u, handler, 0)
        <5>1. Len(u) \in Nat  BY <3>4, LenProperties DEF Left
        <5>2. \A j \in 1 .. Len(u) - 2 : j \in 0 .. Len(u) - 2  BY <5>1
        <5> QED BY <5>2 DEF Trying
      <4> QED BY <3>6, <4>1 DEF Opened
    <3>8. todo' = u /\ handler' = handler /\ failing' = failing /\ u # <<>>
      BY <3>3, <3>6, GoOnEffects DEF Opened
    <3>9. Opened(driver, todo, handler, 0)'
      BY <3>7, <3>8, <1>2 DEF Stays, Opened, RollsBack, Trying, Caught
    <3>10. ~Idle'  BY <3>8 DEF Idle
    <3>11. ~instOpen' /\ ~atCall'.inst /\ tOpen' /\ ~atCall'.transport /\ ~failing'
      BY <1>2, <2>2, <2>5, <3>1, <3>2, <3>8 DEF Stays
    <3> QED BY <2>3, <3>9, <3>10, <3>11 DEF OpenHolds, OpeningInv, OpenIsAllOrNothing
  <2> QED BY <2>1, <2>4, <2>5 DEF OpenTransport
<1>10. CASE t > 1
  <2>1. Step \in {"isClosed", "valid"}  BY <1>1, <1>5, <1>10
  <2>2. AsAtCall' /\ config' = atCall'.config
    BY <1>2, <1>3, <2>1 DEF Stays, AsAtCall
  <2>3. instOpen' = instOpen  BY <1>2, <2>1 DEF Stays
  <2>4. ASSUME NEW f \in Faults, RaiseAs(f) PROVE OpenHolds
    BY <1>7, <2>2, <2>4, OpenRaised
  <2>5. ASSUME NEW u, GoesOn(u), Step = "isClosed" => ~instOpen PROVE OpenHolds
    <3>1. Left(u, todo, 1)  BY <2>1, <2>5, StepsAfter
    <3>2. Len(u) = Len(todo) - 1 /\ DOMAIN u = 1 .. Len(u)
          /\ \A i \in 1 .. Len(todo) - 1 : u[i] = todo[i + 1]
      BY <3>1, LenProperties DEF Left
    <3>3. t - 1 \in 1 .. Len(u) /\ t \in 1 .. Len(u) /\ (t - 1) + 1 = t
      BY <1>1, <1>5, <1>10, <3>2
    <3>4. u[t - 1] = "topen" /\ \A i \in 1 .. (t - 1) - 1 : u[i] \in {"isClosed", "valid"}
      <4>1. u[t - 1] = todo[t]  BY <3>2, <3>3
      <4>2. \A i \in 1 .. (t - 1) - 1 : i + 1 \in 1 .. t - 1 /\ i \in 1 .. Len(todo) - 1
        BY <1>1, <1>5, <1>10
      <4>3. \A i \in 1 .. (t - 1) - 1 : u[i] = todo[i + 1]  BY <3>2, <4>2
      <4> QED BY <1>5, <4>1, <4>2, <4>3
    <3>5. Rest(u, (t - 1) + 1) = Rest(todo, t + 1)  BY <3>1, <3>3, RestOfLeft
    <3>6. checked \/ \E i \in 1 .. (t - 1) - 1 : u[i] = "isClosed"
      <4>1. CASE checked  BY <4>1
      <4>2. CASE \E i \in 1 .. t - 1 : todo[i] = "isClosed"
        <5>1. PICK i \in 1 .. t - 1 : todo[i] = "isClosed"  BY <4>2
        <5>2. CASE i = 1  BY <1>1, <2>5, <5>1, <5>2
        <5>3. CASE i # 1
          <6>1. i - 1 \in 1 .. (t - 1) - 1 /\ i - 1 \in 1 .. Len(todo) - 1 /\ (i - 1) + 1 = i
            BY <1>1, <1>5, <5>1, <5>3
          <6>2. u[i - 1] = todo[i]  BY <3>2, <6>1
          <6> QED BY <5>1, <6>1, <6>2
        <5> QED BY <5>2, <5>3
      <4> QED BY <1>4, <4>1, <4>2
    <3>7. Unopened(driver, u, handler, checked)
      BY <1>5, <3>2, <3>3, <3>4, <3>5, <3>6 DEF Unopened
    <3>8. todo' = u /\ handler' = handler /\ failing' = failing /\ u # <<>>
      <4>1. u # <<>>  BY <3>2, <3>3, EmptySeq
      <4> QED BY <2>5, <4>1, GoOnEffects
    <3>9. Unopened(driver, todo, handler, driver \notin Unclosable \/ ~instOpen)'
      BY <3>7, <3>8, <2>3, <1>2
         DEF Stays, Unopened, Opened, RollsBack, Trying, Caught
    <3>10. ~Idle' /\ ~failing'  BY <3>8 DEF Idle
    <3> QED BY <2>2, <3>9, <3>10 DEF OpenHolds, OpeningInv, OpenIsAllOrNothing
  <2>6. CASE Step = "isClosed"
    <3>1. CheckOpen  BY <2>6, ActionOfStep DEF Reads
    <3>2. IF instOpen THEN Raise ELSE Proceed  BY <3>1, <2>6 DEF CheckOpen, At
    <3>3. CASE instOpen  BY <2>4, <3>2, <3>3 DEF Raise, Faults
    <3>4. CASE ~instOpen  BY <2>5, <3>2, <3>4, ProceedGoes
    <3> QED BY <3>3, <3>4
  <2>7. CASE Step = "valid"
    BY <2>4, <2>5, <2>7, StepGoes DEF Goes, Raises
  <2> QED BY <2>1, <2>6, <2>7
<1> QED BY <1>1, <1>5, <1>9, <1>10

(* From here on the transport is open and the instrument is not.           *)
Half ==
  /\ ~instOpen /\ ~atCall.inst /\ tOpen /\ ~atCall.transport
  /\ config = atCall.config

LEMMA OpenedGoesOn ==
  ASSUME StepsInv, ~Idle, Stays, Half, ~failing, NEW u, GoesOn(u), Left(u, todo, 1),
         Opened(driver, u, handler, 0), Step \notin OpenSteps \cup {"enter", "leave"}
  PROVE  OpenHolds
<1>1. todo' = u /\ handler' = handler /\ failing' = failing /\ u # <<>>
  BY GoOnEffects DEF Opened
<1>2. Opened(driver, todo, handler, 0)'
  BY <1>1 DEF Stays, Opened, RollsBack, Trying, Caught
<1>3. Half' /\ ~Idle'
  <2>1. instOpen' = instOpen /\ tOpen' = tOpen /\ config' = config /\ atCall' = atCall
    BY DEF Stays, OpenSteps
  <2> QED BY <1>1, <2>1 DEF Half, Idle
<1> QED BY <1>1, <1>2, <1>3 DEF OpenHolds, OpeningInv, OpenIsAllOrNothing, Half

LEMMA WhileOpen ==
  ASSUME StepsInv, ~Idle, Next, calling = "open", Half, ~failing,
         Opened(driver, todo, handler, 0)
  PROVE  OpenHolds
<1>1. /\ todo \in Seq(Steps) /\ Len(todo) \in Nat /\ Len(todo) >= 1
      /\ DOMAIN todo = 1 .. Len(todo) /\ todo[1] = Step
  BY StepIsFirst
<1>2. Stays  BY StepStays
<1>3. CASE Len(todo) = 1
  <2>1. Step = "markOpen"  BY <1>1, <1>3 DEF Opened
  <2>2. MarkOpen  BY <2>1, ActionOfStep DEF Reads
  <2>3. instOpen' = TRUE /\ tOpen' = tOpen /\ Proceed  BY <2>2 DEF MarkOpen, Half
  <2>4. PICK u : GoesOn(u)  BY <2>3, ProceedGoes
  <2>5. u = <<>>  BY <1>3, <2>1, <2>4, LastStep
  <2>6. todo' = <<>> /\ outcome' = "returned"  BY <2>4, <2>5, GoOnEffects
  <2> QED BY <2>3, <2>6 DEF OpenHolds, OpeningInv, OpenIsAllOrNothing, Idle, Half
<1>4. CASE Len(todo) # 1
  <2>1. RollsBack(driver, handler) /\ Trying(driver, todo, handler, 0)
        /\ todo[Len(todo)] = "markOpen"
    BY <1>4 DEF Opened
  <2>2. PICK j \in 0 .. Len(todo) - 2 :
          /\ j > 0 => todo[j] = "try"
          /\ \A i \in 1 .. j - 1 : todo[i] = "reply"
          /\ \A i \in j + 1 .. Len(todo) - 2 : todo[i] \in Caught(driver, handler)
          /\ todo[Len(todo) - 1] = "done"
    BY <2>1 DEF Trying
  <2>3. j \in Nat /\ j <= Len(todo) - 2 /\ Len(todo) >= 2  BY <1>1, <2>2
  <2>4. ASSUME NEW u, GoesOn(u), Left(u, todo, 1), Len(todo) > 2
        PROVE  Opened(driver, u, handler, 0)
    <3>1. /\ Len(u) = Len(todo) - 1 /\ u \in Seq(Steps)
          /\ \A i \in 1 .. Len(todo) - 1 : u[i] = todo[i + 1]
      BY <2>4 DEF Left
    <3>2. u # <<>>  BY <2>4, <3>1, EmptySeq
    <3>3. u[Len(u)] = "markOpen" /\ u[Len(u) - 1] = "done"
      <4>1. Len(u) \in 1 .. Len(todo) - 1 /\ Len(u) + 1 = Len(todo)
            /\ Len(u) - 1 \in 1 .. Len(todo) - 1 /\ (Len(u) - 1) + 1 = Len(todo) - 1
        BY <1>1, <2>4, <3>1
      <4> QED BY <2>1, <2>2, <3>1, <4>1
    <3>4. CASE j = 0
      <4>1. \A i \in 0 + 1 .. Len(u) - 2 : u[i] \in Caught(driver, handler)
        <5> TAKE i \in 0 + 1 .. Len(u) - 2
        <5>1. i \in 1 .. Len(todo) - 1 /\ i + 1 \in j + 1 .. Len(todo) - 2
          BY <1>1, <3>1, <3>4
        <5> QED BY <2>2, <3>1, <5>1
      <4>2. 0 \in 0 .. Len(u) - 2  BY <1>1, <2>4, <3>1
      <4>3. Trying(driver, u, handler, 0)
        <5>1. \A i \in 1 .. 0 - 1 : u[i] = "reply"  OBVIOUS
        <5> QED BY <3>3, <4>1, <4>2, <5>1 DEF Trying
      <4> QED BY <2>1, <3>2, <3>3, <4>3 DEF Opened
    <3>5. CASE j > 0
      <4>1. j - 1 \in 0 .. Len(u) - 2  BY <1>1, <2>2, <3>1, <3>5
      <4>2. j - 1 > 0 => u[j - 1] = "try"
        <5>1. j - 1 > 0 => j - 1 \in 1 .. Len(todo) - 1 /\ (j - 1) + 1 = j
          BY <1>1, <2>2
        <5> QED BY <2>2, <3>1, <3>5, <5>1
      <4>3. \A i \in 1 .. (j - 1) - 1 : u[i] = "reply"
        <5> TAKE i \in 1 .. (j - 1) - 1
        <5>1. i \in 1 .. Len(todo) - 1 /\ i + 1 \in 1 .. j - 1  BY <1>1, <2>2
        <5> QED BY <2>2, <3>1, <5>1
      <4>4. \A i \in (j - 1) + 1 .. Len(u) - 2 : u[i] \in Caught(driver, handler)
        <5> TAKE i \in (j - 1) + 1 .. Len(u) - 2
        <5>1. i \in 1 .. Len(todo) - 1 /\ i + 1 \in j + 1 .. Len(todo) - 2
          BY <1>1, <2>2, <3>1, <3>5
        <5> QED BY <2>2, <3>1, <5>1
      <4>5. Trying(driver, u, handler, 0)  BY <3>3, <4>1, <4>2, <4>3, <4>4 DEF Trying
      <4> QED BY <2>1, <3>2, <3>3, <4>5 DEF Opened
    <3> QED BY <2>3, <3>4, <3>5
  <2>5. ASSUME NEW u, GoesOn(u), Left(u, todo, 1), Len(todo) = 2
        PROVE  Opened(driver, u, handler, 0)
    <3>1. /\ Len(u) = 1 /\ u \in Seq(Steps) /\ u[1] = todo[1 + 1]
      BY <2>5 DEF Left
    <3>2. u # <<>> /\ u[Len(u)] = "markOpen"  BY <2>1, <2>5, <3>1, EmptySeq
    <3> QED BY <3>1, <3>2 DEF Opened
  <2>6. ASSUME NEW u, GoesOn(u), Step \notin {"if", "poll"},
               Step \notin OpenSteps \cup {"enter", "leave"}
        PROVE  OpenHolds
    <3>1. Left(u, todo, 1)  BY <2>6, StepsAfter
    <3>2. Opened(driver, u, handler, 0)  BY <1>1, <2>3, <2>4, <2>5, <2>6, <3>1
    <3> QED BY <1>2, <2>6, <3>1, <3>2, OpenedGoesOn
  <2>7. CASE j > 0 \/ Len(todo) = 2
    <3>1. Step \in {"try", "reply", "done"}
      <4>1. CASE j = 1  BY <1>1, <2>2, <4>1
      <4>2. CASE j > 1  BY <1>1, <2>2, <2>3, <4>2
      <4>3. CASE j = 0
        <5>1. Len(todo) - 1 = 1  BY <2>7, <4>3
        <5> QED BY <1>1, <2>2, <5>1
      <4> QED BY <2>3, <4>1, <4>2, <4>3
    <3>2. Proceed  BY <3>1, NeverRaises
    <3>3. PICK u : GoesOn(u)  BY <3>2, ProceedGoes
    <3> QED BY <2>6, <3>1, <3>3 DEF OpenSteps
  <2>8. CASE j = 0 /\ Len(todo) > 2
    <3>1. Step \in Caught(driver, handler)
      <4>1. 1 \in j + 1 .. Len(todo) - 2  BY <1>1, <2>8
      <4> QED BY <1>1, <2>2, <4>1
    <3>2. Step \in Tried  BY <3>1 DEF Caught
    <3>3. Step \notin {"if", "poll"} /\ Step \notin OpenSteps \cup {"enter", "leave"}
      BY <3>2 DEF Tried
    <3>4. InTry
      <4>1. \A i \in 1 .. Len(todo) - 1 : todo[i] # "try"
        <5> TAKE i \in 1 .. Len(todo) - 1
        <5>1. CASE i = Len(todo) - 1  BY <2>2, <5>1
        <5>2. CASE i # Len(todo) - 1
          <6>1. \A n \in Nat : \A k \in 1 .. n - 1 : k # n - 1 => k \in 1 .. n - 2  OBVIOUS
          <6>2. i \in 1 .. Len(todo) - 2  BY <1>1, <5>2, <6>1
          <6>3. i \in j + 1 .. Len(todo) - 2  BY <2>8, <6>2
          <6> QED BY <2>2, <6>3 DEF Caught, Tried
        <5> QED BY <5>1, <5>2
      <4>2. Len(todo) - 1 \in 1 .. Len(todo)  BY <1>1, <2>8
      <4> QED BY <1>1, <2>2, <4>1, <4>2 DEF InTry
    <3>5. ASSUME NEW f \in handler.catches, RaiseAs(f) PROVE OpenHolds
      <4>1. handler.steps = <<"tclose">> /\ f \in handler.reraise  BY <2>1 DEF RollsBack
      <4>2. todo' = <<"tclose">> /\ failing' = TRUE
        <5>1. handler.steps # <<>>  BY <4>1
        <5> QED BY <3>4, <3>5, <4>1, <5>1, RaiseIsCaught
      <4>3. Kind' # "library"  BY <1>2, <2>1 DEF Stays, Kind, RollsBack
      <4>4. Half' /\ ~Idle'
        <5>1. instOpen' = instOpen /\ tOpen' = tOpen /\ config' = config /\ atCall' = atCall
          BY <1>2, <3>3 DEF Stays, OpenSteps
        <5>2. <<"tclose">> # <<>>  OBVIOUS
        <5> QED BY <4>2, <5>1, <5>2 DEF Half, Idle
      <4> QED BY <4>2, <4>3, <4>4 DEF OpenHolds, OpeningInv, OpenIsAllOrNothing, Half
    <3>6. CASE handler.catches = Faults
      <4>1. ASSUME NEW u, GoesOn(u) PROVE OpenHolds  BY <2>6, <3>3, <4>1
      <4>2. ASSUME NEW f \in Faults, RaiseAs(f) PROVE OpenHolds  BY <3>5, <3>6, <4>2
      <4> QED BY <4>1, <4>2, StepGoes DEF Goes, Raises
    <3>7. CASE /\ Step \in {"tell", "query"} /\ Kind \notin {"vxi11", "gpib"}
               /\ "os" \in handler.catches
      <4>1. Proceed \/ RaiseAs("os")  BY <3>7, WriteRaises DEF Half
      <4>2. CASE Proceed
        <5>1. GoesOn(Tail(todo))  BY <4>2, ProceedGoes
        <5> QED BY <2>6, <3>3, <5>1
      <4>3. CASE RaiseAs("os")  BY <3>5, <3>7, <4>3
      <4> QED BY <4>1, <4>2, <4>3
    <3> QED BY <3>1, <3>6, <3>7 DEF Caught, Kind
  <2> QED BY <1>1, <2>3, <2>7, <2>8
<1> QED BY <1>3, <1>4

(* The except block closes the transport, whether that fails or not.       *)
LEMMA RollingBack ==
  ASSUME StepsInv, ~Idle, Next, calling = "open", Half, failing,
         todo = <<"tclose">>, Kind # "library"
  PROVE  OpenHolds
<1>1. /\ todo \in Seq(Steps) /\ Len(todo) = 1
      /\ DOMAIN todo = 1 .. Len(todo) /\ todo[1] = Step /\ Step = "tclose"
  BY StepIsFirst
<1>2. Stays  BY StepStays
<1>3. CloseTransport  BY <1>1, ActionOfStep DEF Reads
<1>4. tOpen' = FALSE /\ instOpen' = instOpen /\ config' = config
  BY <1>3 DEF CloseTransport, modeVars, Half
<1>5. ASSUME NEW u, GoesOn(u) PROVE todo' = <<>> /\ outcome' = "raised"
  <2>1. u = <<>>  BY <1>1, <1>5, LastStep
  <2> QED BY <1>5, <2>1, GoOnEffects
<1>6. ASSUME NEW f \in Faults, RaiseAs(f) PROVE todo' = <<>> /\ outcome' = "raised"
  <2>1. Without(todo, {"done"})  BY <1>1 DEF Without
  <2> QED BY <1>6, <2>1, NotInTry, RaiseEffects
<1>7. todo' = <<>> /\ outcome' = "raised"  BY <1>5, <1>6, StepGoes DEF Goes, Raises
<1>8. instOpen' = atCall'.inst /\ tOpen' = atCall'.transport /\ config' = atCall'.config
  <2>1. instOpen \in BOOLEAN /\ atCall.inst \in BOOLEAN /\ atCall.transport \in BOOLEAN
    BY DEF StepsInv
  <2> QED BY <1>2, <1>4, <2>1 DEF Stays, Half
<1> QED BY <1>7, <1>8, OpenRaised DEF AsAtCall

LEMMA OpeningStep ==
  ASSUME StepsInv, TransportInv, OpeningInv, ~Idle, Next, calling = "open",
         driver \notin HalfOpen
  PROVE  OpeningInv' /\ OpenIsAllOrNothing'
<1>1. CASE /\ Unopened(driver, todo, handler, driver \notin Unclosable \/ ~instOpen)
           /\ ~failing /\ AsAtCall
  BY <1>1, BeforeOpen DEF OpenHolds
<1>2. CASE Half /\ Opened(driver, todo, handler, 0) /\ ~failing
  BY <1>2, WhileOpen DEF OpenHolds
<1>3. CASE Half /\ todo = <<"tclose">> /\ failing /\ Kind # "library"
  BY <1>3, RollingBack DEF OpenHolds
<1> QED BY <1>1, <1>2, <1>3 DEF OpeningInv, Half

-----------------------------------------------------------------------------
(* Whatever opens or closes keeps the transport of an open instrument open *)

LEMMA TransportStep ==
  ASSUME StepsInv, TransportInv, MethodInv, ClosingInv, OpeningInv, ~Idle, Next
  PROVE  TransportInv'
<1> SUFFICES ASSUME Regular', instOpen' PROVE tOpen'
  BY DEF TransportInv
<1>1. Stays  BY StepStays
<1>2. Regular /\ (instOpen => tOpen)  BY <1>1 DEF Stays, Regular, TransportInv
<1>3. /\ todo \in Seq(Steps) /\ Len(todo) \in Nat /\ Len(todo) >= 1
      /\ DOMAIN todo = 1 .. Len(todo) /\ todo[1] = Step
  BY StepIsFirst
<1>4. CASE Step \notin OpenSteps  BY <1>1, <1>2, <1>4 DEF Stays, OpenSteps
<1>5. CASE calling = "method"
  <2>1. Without(todo, OpenSteps)  BY <1>2, <1>5 DEF MethodInv
  <2>2. Step \notin OpenSteps  BY <1>3, <2>1 DEF Without
  <2> QED BY <1>4, <2>2
<1>6. CASE Step = "topen"
  <2>1. OpenTransport  BY <1>6, ActionOfStep DEF Reads
  <2> QED BY <1>2, <2>1 DEF OpenTransport
<1>7. CASE Step = "markClosed"
  <2>1. MarkClosed  BY <1>7, ActionOfStep DEF Reads
  <2> QED BY <2>1 DEF MarkClosed
<1>8. CASE calling = "close"
  <2>1. CASE todo = <<"tclose">> /\ ~instOpen  BY <1>1, <1>3, <2>1 DEF Stays
  <2>2. CASE EndsClosed(todo)
    <3>1. CASE Len(todo) = 2
      <4>1. Len(todo) - 1 = 1  BY <3>1
      <4> QED BY <1>3, <1>7, <2>2, <4>1 DEF EndsClosed
    <3>2. CASE Len(todo) > 2
      <4>1. 1 \in 1 .. Len(todo) - 2  BY <1>3, <3>2
      <4> QED BY <1>3, <1>4, <2>2, <4>1 DEF EndsClosed
    <3> QED BY <1>3, <2>2, <3>1, <3>2 DEF EndsClosed
  <2> QED BY <1>2, <1>8, <2>1, <2>2 DEF ClosingInv, Regular
<1>9. CASE calling = "open"
  <2>1. CASE Step = "markOpen" /\ tOpen
    BY <1>1, <2>1 DEF Stays
  <2>2. CASE todo = <<"tclose">> /\ ~instOpen  BY <1>1, <1>3, <2>2 DEF Stays
  <2>3. CASE Unopened(driver, todo, handler, driver \notin Unclosable \/ ~instOpen)
    <3>1. PICK t : UnopenedAt(t)  BY <2>3, UnopenedIsAt
    <3>2. t \in 1 .. Len(todo) - 1 /\ todo[t] = "topen"
          /\ \A i \in 1 .. t - 1 : todo[i] \in {"isClosed", "valid"}
      BY <3>1 DEF UnopenedAt
    <3>3. Step \in {"topen", "isClosed", "valid"}
      <4>1. CASE t = 1  BY <1>3, <3>2, <4>1
      <4>2. CASE t > 1  BY <1>3, <3>2, <4>2
      <4> QED BY <1>3, <3>2, <4>1, <4>2
    <3> QED BY <1>4, <1>6, <3>3 DEF OpenSteps
  <2>4. CASE Opened(driver, todo, handler, 0) /\ tOpen /\ ~instOpen
    <3>1. CASE Len(todo) = 1  BY <1>3, <2>1, <2>4, <3>1 DEF Opened
    <3>2. CASE Len(todo) # 1
      <4>1. PICK j \in 0 .. Len(todo) - 2 :
              /\ j > 0 => todo[j] = "try"
              /\ \A i \in 1 .. j - 1 : todo[i] = "reply"
              /\ \A i \in j + 1 .. Len(todo) - 2 : todo[i] \in Caught(driver, handler)
              /\ todo[Len(todo) - 1] = "done"
        BY <2>4, <3>2 DEF Opened, Trying
      <4>2. Step \in {"try", "reply", "done"} \cup Tried
        <5>1. CASE j = 1  BY <1>3, <4>1, <5>1
        <5>2. CASE j > 1  BY <1>3, <4>1, <5>2
        <5>3. CASE j = 0 /\ Len(todo) = 2
          <6>1. Len(todo) - 1 = 1  BY <5>3
          <6> QED BY <1>3, <4>1, <6>1
        <5>4. CASE j = 0 /\ Len(todo) # 2
          <6>1. 1 \in j + 1 .. Len(todo) - 2  BY <1>3, <3>2, <5>4
          <6> QED BY <1>3, <4>1, <6>1 DEF Caught
        <5> QED BY <1>3, <4>1, <5>1, <5>2, <5>3, <5>4
      <4>3. Step \notin OpenSteps  BY <4>2 DEF Tried, OpenSteps
      <4> QED BY <1>4, <4>3
    <3> QED BY <3>1, <3>2
  <2> QED BY <1>2, <1>9, <2>2, <2>3, <2>4 DEF OpeningInv, Regular
<1> QED BY <1>5, <1>8, <1>9 DEF StepsInv

-----------------------------------------------------------------------------
(* The CONFIGURATION state                                                 *)

(* What LeavingInv and the property ask of a step.                         *)
LeavingHolds == LeavingInv' /\ ConfigurationIsLeft'

LEMMA LeavingGoesOn ==
  ASSUME StepsInv, ~Idle, Next, ~atCall.config, NEW u, GoesOn(u), ~failing,
         handler.catches \subseteq handler.reraise, Without(todo, {"poll"}),
         Tidy(todo), config => Leaves(todo)
  PROVE  LeavingHolds
<1>1. /\ todo \in Seq(Steps) /\ Len(todo) \in Nat /\ Len(todo) >= 1
      /\ DOMAIN todo = 1 .. Len(todo) /\ todo[1] = Step
  BY StepIsFirst
<1>2. Stays  BY StepStays
<1>3. Step # "poll"  BY <1>1 DEF Without
<1>4. PICK k \in {1} \cup IfEnds(todo) : Left(u, todo, k) /\ (k # 1 => Step = "if")
  BY <1>3, StepsAfter
<1>5. Without(u, {"poll"})  BY StepsAfter
<1>6. Tidy(u)  BY <1>4, TidyLeft
<1>7. config' => Leaves(u)
  <2>1. CASE Step = "leave"
    <3>1. Leave  BY <2>1, ActionOfStep DEF Reads
    <3> QED BY <3>1 DEF Leave
  <2>2. CASE Step # "leave"
    <3>1. config' => Leaves(todo)
      <4>1. CASE Step = "enter"
        <5>1. Leaves(Rest(todo, 1))  BY <1>1, <4>1 DEF Tidy
        <5>2. Rest(todo, 1) = todo
          <6>1. 0 \in 0 .. Len(todo) /\ 0 + 1 = 1  BY <1>1
          <6>2. Left(Rest(todo, 0 + 1), todo, 0)  BY <1>1, <6>1, RestIsLeft
          <6>3. Left(todo, todo, 0)  BY <1>1 DEF Left
          <6> QED BY <6>1, <6>2, <6>3, LeftIs
        <5> QED BY <5>1, <5>2
      <4>2. CASE Step # "enter"  BY <1>2, <2>2, <4>2 DEF Stays
      <4> QED BY <4>1, <4>2
    <3>2. k = 1 \/ (todo[1] = "if" /\ k \in IfEnds(todo))  BY <1>1, <1>4
    <3> QED BY <1>1, <1>4, <2>2, <3>1, <3>2, LeavesLeft
  <2> QED BY <2>1, <2>2
<1>8. ~atCall'.config  BY <1>2 DEF Stays
<1>9. CASE /\ u # <<>> /\ todo' = u
           /\ handler' = handler /\ failing' = failing /\ outcome' = outcome
  <2>1. ~Idle'  BY <1>9 DEF Idle
  <2> QED BY <1>5, <1>6, <1>7, <1>9, <2>1 DEF LeavingHolds, LeavingInv, ConfigurationIsLeft
<1>10. CASE u = <<>> /\ todo' = <<>>
  <2>1. DOMAIN u = 1 .. 0  BY <1>10, NoSteps, LenProperties, EmptySeq
  <2>2. ~Leaves(u)  BY <2>1 DEF Leaves
  <2>3. ~config'  BY <1>7, <2>2
  <2> QED BY <1>10, <2>3 DEF LeavingHolds, LeavingInv, ConfigurationIsLeft, Idle
<1> QED BY <1>9, <1>10, GoOnEffects

LEMMA LeavingStep ==
  ASSUME StepsInv, LeavingInv, ~Idle, Next PROVE LeavingInv' /\ ConfigurationIsLeft'
<1>1. Stays  BY StepStays
<1>2. CASE atCall.config
  BY <1>1, <1>2 DEF Stays, LeavingInv, ConfigurationIsLeft
<1>3. CASE ~atCall.config
  <2>1. ~atCall'.config  BY <1>1, <1>3 DEF Stays
  <2>2. CASE ~config /\ Without(todo, {"enter"}) /\ Without(handler.steps, {"enter"})
    <3>1. /\ todo \in Seq(Steps) /\ Len(todo) \in Nat /\ Len(todo) >= 1
          /\ DOMAIN todo = 1 .. Len(todo) /\ todo[1] = Step
      BY StepIsFirst
    <3>2. ~config'
      <4>1. Step # "enter"  BY <2>2, <3>1 DEF Without
      <4>2. CASE Step = "leave"
        <5>1. Leave  BY <4>2, ActionOfStep DEF Reads
        <5> QED BY <5>1 DEF Leave
      <4>3. CASE Step # "leave"  BY <1>1, <2>2, <4>1, <4>3 DEF Stays
      <4> QED BY <4>2, <4>3
    <3>3. Without(NoExcept.steps, {"enter"}) /\ Without(<<>>, {"enter"})
      BY NoSteps DEF NoExcept, Except
    <3>4. ASSUME NEW u, GoesOn(u)
          PROVE  Without(todo', {"enter"}) /\ Without(handler'.steps, {"enter"})
      <4>1. Without(u, {"enter"})  BY <2>2, <3>4, StepsAfter
      <4> QED BY <2>2, <3>3, <3>4, <4>1, GoOnEffects
    <3>5. ASSUME NEW f \in Faults, RaiseAs(f)
          PROVE  Without(todo', {"enter"}) /\ Without(handler'.steps, {"enter"})
      BY <2>2, <3>3, <3>5, RaiseEffects
    <3>6. Without(todo', {"enter"}) /\ Without(handler'.steps, {"enter"})
      BY <3>4, <3>5, StepGoes DEF Goes, Raises
    <3> QED BY <3>2, <3>6 DEF LeavingInv, ConfigurationIsLeft
  <2>3. CASE failing
    <3>1. handler.catches = {}  BY <2>3 DEF StepsInv, NoExcept, Except
    <3>2. ASSUME NEW u, GoesOn(u) PROVE LeavingHolds
      <4>1. CASE u # <<>> /\ todo' = u /\ failing' = failing
        BY <2>3, <4>1 DEF LeavingHolds, LeavingInv, ConfigurationIsLeft, Idle
      <4>2. CASE todo' = <<>> /\ outcome' = "raised"
        BY <4>2 DEF LeavingHolds, LeavingInv, ConfigurationIsLeft, Idle
      <4> QED BY <2>3, <3>2, <4>1, <4>2, GoOnEffects
    <3>3. ASSUME NEW f \in Faults, RaiseAs(f) PROVE LeavingHolds
      <4>1. todo' = <<>> /\ outcome' = "raised"  BY <3>1, <3>3, RaiseEffects
      <4> QED BY <4>1 DEF LeavingHolds, LeavingInv, ConfigurationIsLeft, Idle
    <3> QED BY <3>2, <3>3, StepGoes DEF Goes, Raises, LeavingHolds
  <2>4. CASE /\ handler.catches \subseteq handler.reraise /\ Without(todo, {"poll"})
             /\ Tidy(todo) /\ (config => Leaves(todo)) /\ ~failing
    <3>1. ASSUME NEW u, GoesOn(u) PROVE LeavingHolds
      BY <1>3, <2>4, <3>1, LeavingGoesOn
    <3>2. ASSUME NEW f \in Faults, RaiseAs(f) PROVE LeavingHolds
      <4>1. CASE todo' = <<>> /\ outcome' = "raised"
        BY <4>1 DEF LeavingHolds, LeavingInv, ConfigurationIsLeft, Idle
      <4>2. CASE todo' # <<>> /\ failing'
        BY <4>2 DEF LeavingHolds, LeavingInv, ConfigurationIsLeft, Idle
      <4>3. ~(f \in handler.catches /\ f \notin handler.reraise)  BY <2>4
      <4> QED BY <3>2, <4>1, <4>2, <4>3, RaiseEffects
    <3> QED BY <3>1, <3>2, StepGoes DEF Goes, Raises, LeavingHolds
  <2> QED BY <1>3, <2>2, <2>3, <2>4 DEF LeavingInv, StepsInv
<1> QED BY <1>2, <1>3

-----------------------------------------------------------------------------
(* All of it                                                               *)

(* All parts.                                                              *)
DriverInv ==
  /\ StepsInv /\ TransportInv /\ MethodInv /\ ClosingInv /\ OpeningInv /\ LeavingInv
  /\ OpenIsAllOrNothing /\ CloseReleases /\ ConfigurationIsLeft

LEMMA DriverInit == Init => DriverInv
<1> SUFFICES ASSUME Init PROVE DriverInv  OBVIOUS
<1>1. atCall = [inst |-> FALSE, transport |-> FALSE, config |-> FALSE]  BY DEF Init, Now
<1>2. StepsInv
  <2>1. atCall \in [inst : BOOLEAN, transport : BOOLEAN, config : BOOLEAN]  BY <1>1
  <2>2. handler.steps = <<>> /\ handler.catches = {} /\ handler.reraise = {}
    BY DEF Init, NoExcept, Except
  <2>3. todo \in Seq(Steps) /\ Nested(todo) /\ handler.steps \in Seq(Steps) /\ Nested(handler.steps)
    BY <2>2, NoSteps DEF Init
  <2> QED BY <2>1, <2>2, <2>3 DEF Init, StepsInv, Outcomes
<1>3. TransportInv /\ ClosingInv /\ OpeningInv /\ LeavingInv
  BY DEF Init, TransportInv, ClosingInv, OpeningInv, LeavingInv, Idle
<1>4. MethodInv  BY NoSteps DEF Init, MethodInv, NoExcept, Except
<1>5. OpenIsAllOrNothing /\ CloseReleases /\ ConfigurationIsLeft
  BY DEF Init, OpenIsAllOrNothing, CloseReleases, ConfigurationIsLeft
<1> QED BY <1>2, <1>3, <1>4, <1>5 DEF DriverInv

LEMMA DriverCalls ==
  ASSUME DriverInv, NEW call \in {"open", "close", "method"}, NEW p \in AllPrograms(driver),
         Start(call, p),
         call = "open" => p = Table[driver].open,
         call = "close" => p = Table[driver].close,
         call = "method" => p \in Table[driver].methods
  PROVE  DriverInv'
<1>1. /\ Idle /\ todo' = p.body /\ handler' = p.except /\ outcome' = "none"
      /\ calling' = call /\ atCall' = Now
      /\ driver' = driver /\ instOpen' = instOpen /\ tOpen' = tOpen
      /\ failing' = failing /\ config' = config
  BY DEF Start, openVars
<1>2. StepsInv /\ TransportInv  BY DEF DriverInv
<1>3. driver \in DOMAIN Table /\ ~failing  BY <1>1, <1>2 DEF StepsInv
<1>4. /\ p.body \in Seq(Steps) /\ p.body # <<>>
      /\ p.except.catches \subseteq Faults
      /\ p.except.steps \in Seq(Steps)
      /\ p.except.reraise \subseteq Faults
  BY <1>3, TableAssumption DEF AllPrograms
<1>5. Nested(p.body) /\ Nested(p.except.steps) /\ LeaveRule(p)
  BY <1>3, RulesAssumption
<1>6. ~Idle'  BY <1>1, <1>4 DEF Idle
<1>7. OpenIsAllOrNothing' /\ CloseReleases' /\ ConfigurationIsLeft'
  BY <1>6 DEF OpenIsAllOrNothing, CloseReleases, ConfigurationIsLeft
<1>8. StepsInv'
  BY <1>1, <1>2, <1>3, <1>4, <1>5 DEF StepsInv, Now, Outcomes
<1>9. TransportInv'  BY <1>1, <1>2 DEF TransportInv, Regular
<1>10. MethodInv'
  BY <1>1, <1>3, RulesAssumption DEF MethodInv, Regular, MethodRule
<1>11. AsAtCall' /\ config' = atCall'.config  BY <1>1 DEF AsAtCall, Now
<1>12. ClosingInv'
  <2> SUFFICES ASSUME call = "close", driver \notin Unclosable
               PROVE  /\ Kind' # "library" /\ EndsClosed(todo')
                      /\ handler'.catches # {} => EndsClosed(handler'.steps)
    BY <1>1, <1>11 DEF ClosingInv
  <2>1. CloseRule(driver, p)  BY <1>3, RulesAssumption
  <2> QED BY <1>1, <2>1 DEF CloseRule, Kind
<1>13. OpeningInv'
  <2> SUFFICES ASSUME call = "open", driver \notin HalfOpen
               PROVE  Unopened(driver, todo, handler, driver \notin Unclosable \/ ~instOpen)'
    BY <1>1, <1>3, <1>11 DEF OpeningInv
  <2>1. Unopened(driver, p.body, p.except, driver \notin Unclosable)
    BY <1>3, RulesAssumption DEF OpenRule
  <2>2. Unopened(driver, p.body, p.except, driver \notin Unclosable \/ ~instOpen)
    BY <2>1 DEF Unopened
  <2> QED BY <1>1, <2>2 DEF Unopened, Opened, RollsBack, Trying, Caught
<1>14. LeavingInv'
  <2> SUFFICES ASSUME ~config
               PROVE  \/ Without(todo', {"enter"}) /\ Without(handler'.steps, {"enter"})
                      \/ /\ handler'.catches \subseteq handler'.reraise
                         /\ Without(todo', {"poll"}) /\ Tidy(todo')
    BY <1>1, <1>11 DEF LeavingInv
  <2> QED BY <1>1, <1>5 DEF LeaveRule
<1> QED BY <1>7, <1>8, <1>9, <1>10, <1>12, <1>13, <1>14 DEF DriverInv

LEMMA DriverStep == ASSUME DriverInv, Next PROVE DriverInv'
<1>1. CASE CallOpen
  BY <1>1, DriverCalls DEF CallOpen, AllPrograms
<1>2. CASE CallClose
  BY <1>2, DriverCalls DEF CallClose, AllPrograms
<1>3. CASE CallMethod
  <2>1. PICK p \in Table[driver].methods : Start("method", p)  BY <1>3 DEF CallMethod
  <2>2. p \in AllPrograms(driver)  BY <2>1 DEF AllPrograms
  <2> QED BY <2>1, <2>2, DriverCalls
<1>4. CASE Idle
  BY <1>1, <1>2, <1>3, <1>4
     DEF Next, At, CheckOpen, MarkOpen, MarkClosed, OpenTransport, CloseTransport, Tell, Query,
         SecondReply, Await, Read, Poll, Flush, Drain, Check, Choose, Enter, Leave, Block
<1>5. CASE ~Idle
  <2>1. StepsInv /\ TransportInv /\ MethodInv /\ ClosingInv /\ OpeningInv /\ LeavingInv
    BY DEF DriverInv
  <2>2. Stays  BY <1>5, StepStays
  <2>3. StepsInv'  BY <1>5, <2>1, StepsStep
  <2>4. TransportInv' /\ MethodInv'  BY <1>5, <2>1, TransportStep, MethodStep
  <2>5. LeavingInv' /\ ConfigurationIsLeft'  BY <1>5, <2>1, LeavingStep
  <2>6. ClosingInv' /\ CloseReleases'
    <3>1. CASE calling = "close" /\ driver \notin Unclosable  BY <1>5, <2>1, <3>1, ClosingStep
    <3>2. CASE calling # "close" \/ driver \in Unclosable
      BY <2>2, <3>2 DEF Stays, ClosingInv, CloseReleases
    <3> QED BY <3>1, <3>2
  <2>7. OpeningInv' /\ OpenIsAllOrNothing'
    <3>1. CASE calling = "open" /\ driver \notin HalfOpen  BY <1>5, <2>1, <3>1, OpeningStep
    <3>2. CASE calling # "open" \/ driver \in HalfOpen
      BY <2>2, <3>2 DEF Stays, OpeningInv, OpenIsAllOrNothing
    <3> QED BY <3>1, <3>2
  <2> QED BY <2>3, <2>4, <2>5, <2>6, <2>7 DEF DriverInv
<1> QED BY <1>4, <1>5

(* The calls leave DriverInv alone, and so do the other parts of a run.    *)
LEMMA DriverInvariant == MCSpec => []DriverInv
<1>1. MCInit => DriverInv  BY DriverInit DEF MCInit
<1>2. DriverInv /\ UNCHANGED vars => DriverInv'
  <2> SUFFICES ASSUME DriverInv, UNCHANGED vars PROVE DriverInv'  OBVIOUS
  <2>1. /\ driver' = driver /\ instOpen' = instOpen /\ tOpen' = tOpen
        /\ todo' = todo /\ handler' = handler /\ failing' = failing /\ outcome' = outcome
        /\ calling' = calling /\ atCall' = atCall /\ config' = config
    BY DEF vars, openVars, callVars, modeVars
  <2>2. StepsInv' /\ TransportInv' /\ MethodInv' /\ LeavingInv'
    BY <2>1
       DEF DriverInv, StepsInv, TransportInv, MethodInv, LeavingInv, Regular, Idle
  <2>3. ClosingInv'  BY <2>1 DEF DriverInv, ClosingInv, Idle, Kind, AsAtCall
  <2>4. OpeningInv'
    <3>1. /\ Unopened(driver, todo, handler, driver \notin Unclosable \/ ~instOpen)' <=>
               Unopened(driver, todo, handler, driver \notin Unclosable \/ ~instOpen)
          /\ Opened(driver, todo, handler, 0)' <=> Opened(driver, todo, handler, 0)
      BY <2>1 DEF Unopened, Opened, RollsBack, Trying, Caught
    <3> QED BY <2>1, <3>1 DEF DriverInv, OpeningInv, Idle, Kind, AsAtCall
  <2>5. OpenIsAllOrNothing' /\ CloseReleases' /\ ConfigurationIsLeft'
    BY <2>1 DEF DriverInv, OpenIsAllOrNothing, CloseReleases, ConfigurationIsLeft, Idle, Now
  <2> QED BY <2>2, <2>3, <2>4, <2>5 DEF DriverInv
<1>3. DriverInv /\ [MCNext]_allVars => DriverInv'
  BY <1>2, DriverStep DEF MCNext, allVars
<1> QED BY <1>1, <1>3, PTL DEF MCSpec

(* open() leaves the instrument and its transport open when it returns,    *)
(* and as they were when it raises, wherever it stops: for any drivers     *)
(* whose open() keeps to OpenRule.                                         *)
THEOREM OpensOrNothing == MCSpec => []OpenIsAllOrNothing
<1>1. DriverInv => OpenIsAllOrNothing  BY DEF DriverInv
<1> QED BY <1>1, DriverInvariant, PTL

(* close() leaves both closed when it returns, and agreed when it raises:  *)
(* for any drivers whose close() keeps to CloseRule.                       *)
THEOREM ClosesOrAgrees == MCSpec => []CloseReleases
<1>1. DriverInv => CloseReleases  BY DEF DriverInv
<1> QED BY <1>1, DriverInvariant, PTL

(* A call that returns has left the CONFIGURATION state it entered: for    *)
(* any drivers whose methods keep to LeaveRule.                            *)
THEOREM LeavesConfiguration == MCSpec => []ConfigurationIsLeft
<1>1. DriverInv => ConfigurationIsLeft  BY DEF DriverInv
<1> QED BY <1>1, DriverInvariant, PTL

-----------------------------------------------------------------------------
(* The calls of a driver: the replies they read                            *)

(* A method that may be called while such a reply is awaited.              *)
Patient(s) == Polls(s) /\ Without(s, NotLines)
(* What is left of a call reads the replies to its queries; the one query  *)
(* whose reply is not read is the one that takes long, and ends the call.  *)
ProgramInv ==
  driver \notin LeavesReplies =>
    /\ AnswersRead(driver, todo) \/ (awaited /\ todo = <<"query">>)
    /\ AnswersRead(driver, handler.steps)
    /\ \/ Awaits(driver) /\ Patient(handler.steps) /\ Without(todo, NotLines)
       \/ ~awaited /\ Without(todo, {"await"}) /\ Without(handler.steps, {"await"})
    /\ awaited => Polls(todo)

(* What the instrument has sent and nobody has read. *)
Unread == IF Kind \in ByteStreams THEN rbuf \o line ELSE line
(* What may wait, and the steps that read it; while a reply is awaited the *)
(* replies are taken in turn, and one more may wait for the next look.     *)
Two == <<"body", "end", "body", "end">>
Matches(p, s) ==
  \/ p = <<>>
  \/ p = Reply /\ TakesDue(driver, s)
  \/ p = <<"end">> /\ Kind \in ByteStreams /\ s # <<>> /\ s[1] \in {"read1", "tail"}
  \/ p = Two /\ TakesTwo(s)
WaitsFor(p, s) ==
  \/ p = <<>>
  \/ p = Reply /\ s # <<"query">>
  \/ p = Two /\ TakesDue(driver, s)
(* When no reply was lost or late, what waits is what the steps left read. *)
ReplyInv ==
  driver \notin LeavesReplies /\ clean =>
    /\ Kind \notin ByteStreams => rbuf = <<>>
    /\ IF awaited THEN WaitsFor(Unread, todo) ELSE Matches(Unread, todo)

-----------------------------------------------------------------------------
(* The replies a method asks for                                           *)

LEMMA AnswersLeft ==
  ASSUME NEW u, NEW t, NEW k, Left(u, t, k), NEW d, AnswersRead(d, t),
         k = 0 \/ t[k] # "await"
  PROVE  AnswersRead(d, u)
<1>1. /\ Len(t) \in Nat /\ Len(u) \in Nat /\ k \in 0 .. Len(t) /\ Len(u) = Len(t) - k
      /\ DOMAIN t = 1 .. Len(t) /\ DOMAIN u = 1 .. Len(u) /\ t \in Seq(Steps)
  BY LenProperties DEF Left
<1> SUFFICES ASSUME NEW i \in 1 .. Len(u)
             PROVE  /\ u[i] \in {"query", "reply"} =>
                         TakesDue(d, Rest(u, i + 1)) \/ (i > 1 /\ u[i - 1] = "await")
                    /\ u[i] = "await" => i = Len(u) - 1 /\ u[i + 1] = "query"
  BY <1>1 DEF AnswersRead
<1>2. i + k \in 1 .. Len(t) /\ u[i] = t[i + k]  BY RestOfLeft
<1>3. ASSUME u[i] \in {"query", "reply"}
      PROVE  TakesDue(d, Rest(u, i + 1)) \/ (i > 1 /\ u[i - 1] = "await")
  <2>1. TakesDue(d, Rest(t, (i + k) + 1)) \/ (i + k > 1 /\ t[(i + k) - 1] = "await")
    BY <1>1, <1>2, <1>3 DEF AnswersRead
  <2>2. Rest(u, i + 1) = Rest(t, (i + k) + 1)
    <3>1. i \in 0 .. Len(u) /\ i + k \in 0 .. Len(t)  BY <1>1, <1>2
    <3>2. u \in Seq(Steps)  BY DEF Left
    <3>3. Left(Rest(u, i + 1), u, i)  BY <3>1, <3>2, RestIsLeft
    <3>4. Left(Rest(u, i + 1), t, i + k)  BY <3>3, LeftOfLeft
    <3>5. Left(Rest(t, (i + k) + 1), t, i + k)  BY <1>1, <3>1, RestIsLeft
    <3> QED BY <3>4, <3>5, LeftIs
  <2>3. CASE i + k > 1 /\ t[(i + k) - 1] = "await"
    <3>1. CASE i = 1
      <4>1. (i + k) - 1 = k  BY <1>1, <3>1
      <4> QED BY <2>3, <3>1, <4>1, <1>1
    <3>2. CASE i # 1
      <4>1. i - 1 \in 1 .. Len(u) /\ (i - 1) + k = (i + k) - 1 /\ i > 1  BY <1>1, <3>2
      <4>2. u[i - 1] = t[(i - 1) + k]  BY <4>1, RestOfLeft
      <4> QED BY <2>3, <4>1, <4>2
    <3> QED BY <3>1, <3>2
  <2> QED BY <2>1, <2>2, <2>3
<1>4. ASSUME u[i] = "await" PROVE i = Len(u) - 1 /\ u[i + 1] = "query"
  <2>1. i + k = Len(t) - 1 /\ t[(i + k) + 1] = "query"  BY <1>1, <1>2, <1>4 DEF AnswersRead
  <2>2. i = Len(u) - 1 /\ i + 1 \in 1 .. Len(u) /\ (i + 1) + k = (i + k) + 1
    BY <1>1, <2>1
  <2>3. u[i + 1] = t[(i + 1) + k]  BY <2>2, RestOfLeft
  <2> QED BY <2>1, <2>2, <2>3
<1> QED BY <1>3, <1>4

LEMMA AskAnswers ==
  ASSUME NEW v \in Seq(Steps), NEW d, AnswersRead(d, v) PROVE AnswersRead(d, Ask \o v)
<1> DEFINE w == Ask \o v
<1>1. w \in Seq(Steps) /\ Left(v, w, 2) /\ w[1] = "query" /\ w[2] = "scpi"  BY AskLeft
<1> HIDE DEF w
<1>2. DOMAIN v = 1 .. Len(v) /\ DOMAIN w = 1 .. Len(w) /\ Len(v) \in Nat /\ Len(w) = Len(v) + 2
  BY <1>1, LenProperties DEF Left
<1> DEFINE Fine(i) == /\ w[i] \in {"query", "reply"} =>
                           TakesDue(d, Rest(w, i + 1)) \/ (i > 1 /\ w[i - 1] = "await")
                      /\ w[i] = "await" => i = Len(w) - 1 /\ w[i + 1] = "query"
<1>3. Fine(1)
  <2>1. 1 \in 0 .. Len(w)  BY <1>2
  <2>2. Left(Rest(w, 1 + 1), w, 1)  BY <1>1, <2>1, RestIsLeft
  <2>3. Rest(w, 1 + 1) # <<>>  BY <1>2, <2>2, NoneLeft
  <2>4. Rest(w, 1 + 1)[1] = w[1 + 1]  BY <1>2, <2>2 DEF Left
  <2>5. TakesDue(d, Rest(w, 1 + 1))  BY <1>1, <2>3, <2>4 DEF TakesDue, TakesReply, Lines
  <2> QED BY <1>1, <2>5
<1>4. Fine(2)  BY <1>1
<1>5. ASSUME NEW i \in 3 .. Len(w) PROVE Fine(i)
  <2>1. i - 2 \in 1 .. Len(v) /\ (i - 2) + 2 = i  BY <1>2
  <2>2. v[i - 2] = w[i]  BY <1>1, <2>1, RestOfLeft
  <2>3. Rest(w, i + 1) = Rest(v, (i - 2) + 1)
    <3>1. i \in 0 .. Len(w) /\ i - 2 \in 0 .. Len(v)  BY <1>2
    <3>2. Left(Rest(v, (i - 2) + 1), v, i - 2)  BY <3>1, RestIsLeft
    <3>3. Left(Rest(v, (i - 2) + 1), w, (i - 2) + 2)  BY <1>1, <3>2, LeftOfLeft
    <3>4. Left(Rest(w, i + 1), w, i)  BY <1>1, <3>1, RestIsLeft
    <3> QED BY <2>1, <3>3, <3>4, LeftIs
  <2>4. ASSUME w[i] \in {"query", "reply"}
        PROVE  TakesDue(d, Rest(w, i + 1)) \/ (i > 1 /\ w[i - 1] = "await")
    <3>1. TakesDue(d, Rest(v, (i - 2) + 1)) \/ (i - 2 > 1 /\ v[(i - 2) - 1] = "await")
      BY <1>2, <2>1, <2>2, <2>4 DEF AnswersRead
    <3>2. CASE i - 2 > 1 /\ v[(i - 2) - 1] = "await"
      <4>1. (i - 2) - 1 \in 1 .. Len(v) /\ ((i - 2) - 1) + 2 = i - 1 /\ i > 1  BY <1>2, <3>2
      <4>2. v[(i - 2) - 1] = w[i - 1]
        <5>1. v[(i - 2) - 1] = w[((i - 2) - 1) + 2]  BY <1>1, <4>1, RestOfLeft
        <5> QED BY <4>1, <5>1
      <4> QED BY <3>2, <4>1, <4>2
    <3> QED BY <2>3, <3>1, <3>2
  <2>5. ASSUME w[i] = "await" PROVE i = Len(w) - 1 /\ w[i + 1] = "query"
    <3>1. i - 2 = Len(v) - 1 /\ v[(i - 2) + 1] = "query"  BY <1>2, <2>1, <2>2, <2>5 DEF AnswersRead
    <3>2. (i - 2) + 1 \in 1 .. Len(v) /\ ((i - 2) + 1) + 2 = i + 1 /\ i = Len(w) - 1
      BY <1>2, <3>1
    <3>3. v[(i - 2) + 1] = w[((i - 2) + 1) + 2]  BY <1>1, <3>2, RestOfLeft
    <3> QED BY <3>1, <3>2, <3>3
  <2> QED BY <2>4, <2>5
<1>6. \A i \in 1 .. Len(w) : i = 1 \/ i = 2 \/ i \in 3 .. Len(w)  BY <1>2
<1>7. \A i \in DOMAIN w : Fine(i)
  <2> HIDE DEF Fine
  <2> QED BY <1>2, <1>3, <1>4, <1>5, <1>6
<1>8. AnswersRead(d, w)  BY <1>7 DEF AnswersRead
<1> QED BY <1>8 DEF w

(* The steps it goes on with read what they ask for.                       *)
LEMMA AnswersAfter ==
  ASSUME StepsInv, ~Idle, NEW u, GoesOn(u), NEW d, AnswersRead(d, todo), Step # "await"
  PROVE  AnswersRead(d, u)
<1>1. /\ todo \in Seq(Steps) /\ Len(todo) \in Nat /\ Len(todo) >= 1
      /\ DOMAIN todo = 1 .. Len(todo) /\ todo[1] = Step
  BY StepIsFirst
<1>2. CASE Left(u, todo, 1)  BY <1>1, <1>2, AnswersLeft
<1>3. CASE \E k \in IfEnds(todo) : Left(u, todo, k)
  <2>1. PICK k \in IfEnds(todo) : Left(u, todo, k)  BY <1>3
  <2>2. todo[k] # "await"  BY <2>1 DEF IfEnds
  <2> QED BY <2>1, <2>2, AnswersLeft
<1>4. ASSUME NEW v, u = Ask \o v, NEW k \in {1, 2}, Left(v, todo, k), k = 2 => todo[2] = "done"
      PROVE  AnswersRead(d, u)
  <2>1. todo[k] # "await"  BY <1>1, <1>4
  <2>2. AnswersRead(d, v)  BY <1>4, <2>1, AnswersLeft
  <2>3. v \in Seq(Steps)  BY <1>4 DEF Left
  <2> QED BY <1>4, <2>2, <2>3, AskAnswers
<1> QED BY <1>2, <1>3, <1>4 DEF GoesOn

LEMMA NoAnswers ==
  /\ \A d : AnswersRead(d, <<>>)
  /\ Patient(<<>>)
BY NoSteps DEF AnswersRead, Without, Patient, Polls

(* After the question for what takes long the method ends.                 *)
LEMMA AwaitIsLast ==
  ASSUME StepsInv, ~Idle, NEW u, GoesOn(u), NEW d, AnswersRead(d, todo), Step = "await"
  PROVE  u = <<"query">>
<1>1. /\ todo \in Seq(Steps) /\ Len(todo) \in Nat /\ Len(todo) >= 1
      /\ DOMAIN todo = 1 .. Len(todo) /\ todo[1] = Step
  BY StepIsFirst
<1>2. 1 = Len(todo) - 1 /\ todo[1 + 1] = "query"
  <2>1. 1 \in DOMAIN todo /\ todo[1] = "await"  BY <1>1
  <2>2. \A i \in DOMAIN todo : todo[i] = "await" => i = Len(todo) - 1 /\ todo[i + 1] = "query"
    BY DEF AnswersRead
  <2> QED BY <2>1, <2>2
<1>3. Left(u, todo, 1)  BY StepsAfter
<1>4. u = <<todo[Len(todo)]>>  BY <1>2, <1>3, OneLeft
<1>5. Len(todo) = 1 + 1
  <2>1. \A n \in Nat : 1 = n - 1 => n = 1 + 1  OBVIOUS
  <2>2. Len(todo) \in Nat  BY <1>1
  <2> QED BY <1>2, <2>1, <2>2
<1> QED BY <1>2, <1>4, <1>5

LEMMA OnlyAQuery ==
  ASSUME NEW d, AnswersRead(d, <<"query">>) PROVE FALSE
<1> DEFINE w == <<"query">>
<1>1. w \in Seq(Steps) /\ Len(w) = 1 /\ w[1] = "query" /\ 1 \in DOMAIN w /\ 1 \in 0 .. Len(w)
  BY DEF Steps
<1> HIDE DEF w
<1>2. Left(Rest(w, 1 + 1), w, 1)  BY <1>1, RestIsLeft
<1>3. Rest(w, 1 + 1) = <<>>  BY <1>1, <1>2, NoneLeft
<1>4. AnswersRead(d, w)  BY DEF w
<1> QED BY <1>1, <1>3, <1>4 DEF AnswersRead, TakesDue

LEMMA PollsAfter ==
  ASSUME StepsInv, ~Idle, NEW u, GoesOn(u), Polls(todo), Step # "poll"
  PROVE  Polls(u) /\ Step # "await"
<1>1. /\ todo \in Seq(Steps) /\ Len(todo) \in Nat /\ Len(todo) >= 1
      /\ DOMAIN todo = 1 .. Len(todo) /\ todo[1] = Step
  BY StepIsFirst
<1>2. CASE Without(todo, {"await"})
  <2>1. Without(u, {"await"})  BY <1>2, StepsAfter
  <2> QED BY <1>1, <1>2, <2>1 DEF Polls, Without
<1>3. CASE \E j \in DOMAIN todo : todo[j] = "poll" /\ \A i \in 1 .. j - 1 : todo[i] \notin {"await", "if"}
  <2>1. PICK j \in 1 .. Len(todo) :
           todo[j] = "poll" /\ \A i \in 1 .. j - 1 : todo[i] \notin {"await", "if"}
    BY <1>1, <1>3
  <2>2. j > 1 /\ Step \notin {"await", "if"}  BY <1>1, <2>1
  <2>3. Left(u, todo, 1)  BY <2>2, StepsAfter
  <2>4. Len(u) = Len(todo) - 1 /\ DOMAIN u = 1 .. Len(u)
        /\ \A i \in 1 .. Len(todo) - 1 : u[i] = todo[i + 1]
    BY <2>3, LenProperties DEF Left
  <2>5. j - 1 \in 1 .. Len(u) /\ (j - 1) + 1 = j  BY <1>1, <2>1, <2>2, <2>4
  <2>6. u[j - 1] = "poll"  BY <2>1, <2>4, <2>5
  <2>7. \A i \in 1 .. (j - 1) - 1 : u[i] \notin {"await", "if"}
    <3> TAKE i \in 1 .. (j - 1) - 1
    <3>1. i \in 1 .. Len(todo) - 1 /\ i + 1 \in 1 .. j - 1  BY <1>1, <2>1, <2>2
    <3> QED BY <2>1, <2>4, <3>1
  <2> QED BY <2>2, <2>4, <2>5, <2>6, <2>7 DEF Polls
<1> QED BY <1>2, <1>3 DEF Polls

(* awaited changes where a method asks, looks or opens.                    *)
LEMMA AwaitedAfter ==
  ASSUME Next, ~Idle
  PROVE  /\ Step = "await" => awaited' = TRUE
         /\ Step \notin {"await", "poll", "topen"} => awaited' = awaited
         /\ Step = "topen" => awaited' \in {awaited, FALSE}
         /\ Step = "poll" => awaited' \in {awaited, FALSE}
BY ActionOfStep
   DEF modeVars, CheckOpen, MarkOpen, MarkClosed,
       OpenTransport, CloseTransport, Tell, Query, SecondReply, Await, Read, Poll, Flush,
       Drain, Check, Choose, Enter, Leave, Block, Reads

(* A call that looks for the result and goes on has found it.              *)
LEMMA GoesOrRaises ==
  ASSUME StepsInv, Next, ~Idle
  PROVE  \/ \E u : GoesOn(u) /\ (Step = "poll" => ~awaited')
         \/ Raises /\ Step # "await"
<1>1. CASE Step = "await"
  <2>1. Proceed  BY <1>1, ActionOfStep DEF Await, Reads
  <2> QED BY <1>1, <2>1, ProceedGoes
<1>2. CASE Step = "poll"
  <2>1. Poll  BY <1>2, ActionOfStep DEF Reads
  <2>2. \A f \in {"timeout", "os", "error"} : RaiseAs(f) => Raises  BY DEF Raises, Faults
  <2>3. CASE ReadFails  BY <1>2, <2>2, <2>3 DEF ReadFails
  <2>4. CASE ~awaited /\ Proceed /\ awaited' = awaited
    BY <2>4, ProceedGoes
  <2>5. CASE \E o \in ReadOutcomes("line") :
               /\ awaited' = (o.how # "ok")
               /\ IF o.how = "ok" THEN GoOn(Ask \o PastTry(Tail(todo))) \/ Proceed ELSE RaiseAs(o.how)
    <3>1. PICK o \in ReadOutcomes("line") :
               /\ awaited' = (o.how # "ok")
               /\ IF o.how = "ok" THEN GoOn(Ask \o PastTry(Tail(todo))) \/ Proceed ELSE RaiseAs(o.how)
      BY <2>5
    <3>2. o.how \in {"ok", "timeout", "error"}  BY ReadEnds
    <3>3. CASE o.how # "ok"  BY <1>2, <2>2, <3>1, <3>2, <3>3
    <3>4. CASE o.how = "ok" /\ GoOn(Ask \o PastTry(Tail(todo)))
      <4>1. GoesOn(Ask \o PastTry(Tail(todo)))  BY <1>2, <3>4, PastTryGoes
      <4> QED BY <3>1, <3>4, <4>1
    <3>5. CASE o.how = "ok" /\ Proceed  BY <3>1, <3>5, ProceedGoes
    <3> QED BY <3>1, <3>3, <3>4, <3>5
  <2> QED BY <2>1, <2>3, <2>4, <2>5 DEF Poll
<1>3. CASE Step \notin {"await", "poll"}
  BY <1>3, StepGoes DEF Goes
<1> QED BY <1>1, <1>2, <1>3

-----------------------------------------------------------------------------
(* The steps left are those of a method that reads what it asks for        *)

(* ProgramInv after the step.                                              *)
ProgramHolds ==
  /\ AnswersRead(driver, todo') \/ (awaited' /\ todo' = <<"query">>)
  /\ AnswersRead(driver, handler'.steps)
  /\ \/ Awaits(driver) /\ Patient(handler'.steps) /\ Without(todo', NotLines)
     \/ ~awaited' /\ Without(todo', {"await"}) /\ Without(handler'.steps, {"await"})
  /\ awaited' => Polls(todo')

(* The method has ended, and waits for the result or not.                  *)
LEMMA ProgramEnds ==
  ASSUME todo' = <<>>, handler' = NoExcept,
         Awaits(driver) \/ ~awaited'
  PROVE  ProgramHolds
<1>1. NoExcept.steps = <<>>  BY DEF NoExcept, Except
<1>2. Polls(<<>>) /\ \A S : Without(<<>>, S)  BY NoAnswers, NoSteps DEF Patient
<1> QED BY <1>1, <1>2, NoAnswers DEF ProgramHolds

LEMMA ProgramGoesOn ==
  ASSUME StepsInv, ProgramInv, driver \notin LeavesReplies, ~Idle, Next,
         NEW u, GoesOn(u), Step = "poll" => ~awaited'
  PROVE  ProgramHolds
<1>1. /\ todo \in Seq(Steps) /\ Len(todo) \in Nat /\ Len(todo) >= 1
      /\ DOMAIN todo = 1 .. Len(todo) /\ todo[1] = Step
  BY StepIsFirst
<1>2. /\ AnswersRead(driver, todo) \/ (awaited /\ todo = <<"query">>)
      /\ AnswersRead(driver, handler.steps)
      /\ \/ Awaits(driver) /\ Patient(handler.steps) /\ Without(todo, NotLines)
         \/ ~awaited /\ Without(todo, {"await"}) /\ Without(handler.steps, {"await"})
      /\ awaited => Polls(todo)
  BY DEF ProgramInv
<1>3. /\ Step = "await" => awaited' = TRUE
      /\ Step # "await" => awaited' \in {awaited, FALSE}
  BY AwaitedAfter
<1>4. CASE u = <<>>
  <2>1. Step # "await"
    <3>1. CASE Step = "await"
      <4>1. todo # <<"query">>  BY <1>1, <3>1
      <4>2. AnswersRead(driver, todo)  BY <1>2, <4>1
      <4>3. u = <<"query">>  BY <3>1, <4>2, AwaitIsLast
      <4> QED BY <1>4, <4>3
    <3> QED BY <3>1
  <2>2. Awaits(driver) \/ ~awaited'  BY <1>2, <1>3, <2>1
  <2>3. todo' = <<>> /\ handler' = NoExcept  BY <1>4, GoOnEffects
  <2> QED BY <2>2, <2>3, ProgramEnds
<1>5. CASE u # <<>>
  <2>1. todo' = u /\ handler' = handler  BY <1>5, GoOnEffects
  <2>2. AnswersRead(driver, todo)
    <3>1. CASE todo = <<"query">>
      <4>1. Len(todo) = 1 /\ Step = "query"  BY <1>1, <3>1
      <4> QED BY <1>5, <4>1, LastStep
    <3> QED BY <1>2, <3>1
  <2>3. CASE Step = "await"
    <3>1. u = <<"query">>  BY <2>2, <2>3, AwaitIsLast
    <3>2. ~Without(todo, {"await"})  BY <1>1, <2>3 DEF Without
    <3>3. Without(u, {"await"}) /\ Without(u, NotLines)
      BY <3>1 DEF Without, NotLines, Reads
    <3> QED BY <1>2, <1>3, <2>1, <2>3, <3>1, <3>2, <3>3 DEF ProgramHolds, Polls
  <2>4. CASE Step # "await"
    <3>1. AnswersRead(driver, u)  BY <2>2, <2>4, AnswersAfter
    <3>2. /\ Without(todo, NotLines) => Without(u, NotLines)
          /\ Without(todo, {"await"}) => Without(u, {"await"})
      <4>1. "query" \notin NotLines /\ "scpi" \notin NotLines
        BY DEF NotLines, Lines, Reads
      <4> QED BY <4>1, StepsAfter
    <3>3. awaited' => awaited /\ Step # "poll"  BY <1>3, <2>4
    <3>4. awaited' => Polls(u)  BY <1>2, <3>3, PollsAfter
    <3> QED BY <1>2, <2>1, <3>1, <3>2, <3>3, <3>4 DEF ProgramHolds
  <2> QED BY <2>3, <2>4
<1> QED BY <1>4, <1>5

LEMMA ProgramRaises ==
  ASSUME StepsInv, ProgramInv, driver \notin LeavesReplies, ~Idle, Next,
         NEW f \in Faults, RaiseAs(f), Step # "await"
  PROVE  ProgramHolds
<1>1. /\ AnswersRead(driver, handler.steps)
      /\ \/ Awaits(driver) /\ Patient(handler.steps)
         \/ ~awaited /\ Without(handler.steps, {"await"})
  BY DEF ProgramInv
<1>2. awaited' \in {awaited, FALSE}  BY AwaitedAfter
<1>3. Awaits(driver) \/ ~awaited'  BY <1>1, <1>2
<1>4. CASE todo' = <<>> /\ handler' = NoExcept  BY <1>3, <1>4, ProgramEnds
<1>5. CASE todo' = handler.steps /\ handler' = NoExcept
  <2>1. NoExcept.steps = <<>> /\ \A S : Without(<<>>, S)  BY NoSteps DEF NoExcept, Except
  <2>2. AnswersRead(driver, handler'.steps) /\ Patient(handler'.steps)
        /\ Without(handler'.steps, {"await"})
    BY <1>5, <2>1, NoAnswers
  <2>3. Patient(handler.steps) => Without(todo', NotLines) /\ Polls(todo')
    BY <1>5 DEF Patient
  <2>4. Without(handler.steps, {"await"}) => Without(todo', {"await"}) /\ Polls(todo')
    BY <1>5 DEF Polls
  <2>5. AnswersRead(driver, todo')  BY <1>1, <1>5
  <2>6. ~awaited => ~awaited'  BY <1>2, Zenon
  <2>7. CASE Awaits(driver) /\ Patient(handler.steps)
    BY <2>2, <2>3, <2>5, <2>7, Zenon DEF ProgramHolds
  <2>8. CASE ~awaited /\ Without(handler.steps, {"await"})
    BY <2>2, <2>4, <2>5, <2>6, <2>8, Zenon DEF ProgramHolds
  <2> QED BY <1>1, <2>7, <2>8
<1> QED BY <1>4, <1>5, RaiseEffects

LEMMA ProgramStep ==
  ASSUME StepsInv, ProgramInv, driver \notin LeavesReplies, ~Idle, Next
  PROVE  ProgramHolds
BY GoesOrRaises, ProgramGoesOn, ProgramRaises DEF Raises

LEMMA ProgramCalls ==
  ASSUME StepsInv, ProgramInv, driver \notin LeavesReplies,
         NEW call, NEW p \in AllPrograms(driver), Start(call, p)
  PROVE  ProgramHolds /\ AnswersRead(driver, todo')
<1>1. todo' = p.body /\ handler' = p.except /\ awaited' = awaited  BY DEF Start
<1>2. ReplyRule(driver)  BY RulesAssumption DEF StepsInv
<1>3. AnswersRead(driver, p.body) /\ AnswersRead(driver, p.except.steps)  BY <1>2 DEF ReplyRule
<1>4. \/ Awaits(driver)
      \/ ~awaited /\ Without(p.body, {"await"}) /\ Without(p.except.steps, {"await"})
  BY <1>2 DEF ProgramInv, ReplyRule
<1>5. Awaits(driver) => Patient(p.except.steps) /\ Without(p.body, NotLines) /\ Polls(p.body)
  BY DEF Awaits, Patient
<1>6. Without(p.body, {"await"}) => Polls(p.body)  BY DEF Polls
<1> QED BY <1>1, <1>3, <1>4, <1>5, <1>6 DEF ProgramHolds

-----------------------------------------------------------------------------
(* What a read takes of the replies that are there                         *)

(* g is what was read, and t what is left of p.                            *)
Cut(g, t, p) == g \in Seq(Bytes) /\ t \in Seq(Bytes) /\ g \o t = p

LEMMA BothParts ==
  ASSUME NEW g, NEW t, NEW p, Cut(g, t, p)
  PROVE  \E m, n \in Nat :
           /\ Len(g) = m /\ Len(t) = n /\ Len(p) = m + n
           /\ \A i \in 1 .. m : g[i] = p[i]
           /\ \A i \in 1 .. n : t[i] = p[i + m]
           /\ (t = <<>> <=> n = 0) /\ (g = <<>> <=> m = 0)
<1>1. g \in Seq(Bytes) /\ t \in Seq(Bytes) /\ g \o t = p  BY DEF Cut
<1>2. PICK m, n \in Nat : Len(g) = m /\ Len(t) = n  BY <1>1, LenProperties
<1>3. /\ Len(p) = m + n
      /\ \A i \in 1 .. m + n : p[i] = IF i <= m THEN g[i] ELSE t[i - m]
  BY <1>1, <1>2, ConcatProperties
<1>4. ASSUME NEW i \in 1 .. m PROVE g[i] = p[i]
  <2>1. i \in 1 .. m + n /\ i <= m  OBVIOUS
  <2> QED BY <1>3, <2>1
<1>5. ASSUME NEW i \in 1 .. n PROVE t[i] = p[i + m]
  <2>1. i + m \in 1 .. m + n /\ ~(i + m <= m) /\ (i + m) - m = i  OBVIOUS
  <2> QED BY <1>3, <2>1
<1>6. (t = <<>> <=> n = 0) /\ (g = <<>> <=> m = 0)  BY <1>1, <1>2, EmptySeq
<1> QED BY <1>2, <1>3, <1>4, <1>5, <1>6

LEMMA ReplyIs ==
  Reply \in Seq(Bytes) /\ Len(Reply) = 2 /\ Reply[1] = "body" /\ Reply[2] = "end"
BY DEF Reply, Bytes

LEMMA TwoIs ==
  /\ Two \in Seq(Bytes) /\ Len(Two) = 4 /\ Two[1] = "body" /\ Two[2] = "end"
  /\ Two[3] = "body" /\ Two[4] = "end"
BY DEF Two, Bytes

LEMMA EndIs == <<"end">> \in Seq(Bytes) /\ Len(<<"end">>) = 1 /\ <<"end">>[1] = "end"
BY DEF Bytes

LEMMA CutNothing == ASSUME NEW g, NEW t, Cut(g, t, <<>>) PROVE g = <<>> /\ t = <<>>
<1>1. Len(<<>>) = 0  BY EmptySeq
<1> QED BY <1>1, BothParts

LEMMA CutEnd ==
  ASSUME NEW g, NEW t, Cut(g, t, <<"end">>), g # <<>> PROVE t = <<>>
BY EndIs, BothParts

LEMMA CutReply ==
  ASSUME NEW g, NEW t, Cut(g, t, Reply)
  PROVE  /\ Finished(g) => t = <<>>
         /\ Len(g) = 1 => t = <<"end">> /\ ~Finished(g)
<1>1. PICK m, n \in Nat :
        /\ Len(g) = m /\ Len(t) = n /\ Len(Reply) = m + n
        /\ \A i \in 1 .. m : g[i] = Reply[i]
        /\ \A i \in 1 .. n : t[i] = Reply[i + m]
        /\ (t = <<>> <=> n = 0)
  BY BothParts
<1>2. m + n = 2  BY <1>1, ReplyIs
<1>3. ASSUME Finished(g) PROVE m = 2
  <2>1. PICK i \in 1 .. m : g[i] = "end"  BY <1>1, <1>3 DEF Finished, Ends
  <2>2. i # 1  BY <1>1, <2>1, ReplyIs
  <2> QED BY <1>2, <2>1, <2>2
<1>4. ASSUME m = 1 PROVE t = <<"end">>
  <2>1. n = 1 /\ 1 + m = 2 /\ 1 \in 1 .. n  BY <1>2, <1>4
  <2>2. t[1] = "end"  BY <1>1, <2>1, ReplyIs
  <2> DEFINE w == <<"end">>
  <2>3. w \in Seq(Bytes) /\ Len(w) = 1 /\ w[1] = "end"  BY EndIs
  <2> HIDE DEF w
  <2>4. \A i \in 1 .. 1 : t[i] = w[i]  BY <2>2, <2>3
  <2>5. t \in Seq(Bytes) /\ Len(t) = 1  BY <1>1, <2>1 DEF Cut
  <2>6. t = w  BY <2>3, <2>4, <2>5, SeqEqual
  <2> QED BY <2>6 DEF w
<1>5. Finished(g) => n = 0  BY <1>2, <1>3
<1>6. m = 1 => ~Finished(g)  BY <1>3
<1> QED BY <1>1, <1>4, <1>5, <1>6

LEMMA CutTwo ==
  ASSUME NEW g, NEW t, Cut(g, t, Two), OneLine(g) PROVE t = Reply
<1>1. PICK m, n \in Nat :
        /\ Len(g) = m /\ Len(t) = n /\ Len(Two) = m + n
        /\ \A i \in 1 .. m : g[i] = Two[i]
        /\ \A i \in 1 .. n : t[i] = Two[i + m]
  BY BothParts
<1>2. m + n = 4  BY <1>1, TwoIs
<1>3. PICK i \in 1 .. m : g[i] = "end"  BY <1>1 DEF OneLine, Finished, Ends
<1>4. i # 1  BY <1>1, <1>3, TwoIs
<1>5. 2 \in 1 .. m  BY <1>3, <1>4
<1>6. g[2] = "end"  BY <1>1, <1>5, TwoIs
<1>7. ~(2 \in 1 .. m - 1)  BY <1>1, <1>6 DEF OneLine
<1>8. m = 2 /\ n = 2  BY <1>2, <1>5, <1>7
<1>9. t[1] = "body" /\ t[2] = "end"
  <2>1. 1 \in 1 .. n /\ 2 \in 1 .. n /\ 1 + m = 3 /\ 2 + m = 4  BY <1>8
  <2>2. t[1] = Two[1 + m] /\ t[2] = Two[2 + m]  BY <1>1, <2>1
  <2> QED BY <2>1, <2>2, TwoIs
<1>10. \A j \in 1 .. 2 : t[j] = Reply[j]
  <2>1. \A j \in 1 .. 2 : j = 1 \/ j = 2  OBVIOUS
  <2> QED BY <1>9, <2>1, ReplyIs
<1>11. t \in Seq(Bytes) /\ Len(t) = 2  BY <1>1, <1>8 DEF Cut
<1> QED BY <1>10, <1>11, ReplyIs, SeqEqual

(* The transports that are no stream of bytes give a line, or nothing.     *)
LEMMA LineOfMessages ==
  ASSUME NEW kind, kind \notin ByteStreams, NEW l \in Seq(Bytes), NEW o \in ReadUntil(kind, <<>>, l)
  PROVE  /\ o.how \in {"ok", "timeout"} /\ o.rbuf = <<>>
         /\ o.how = "timeout" => o.line = l
         /\ \/ o.line = l /\ o.got = <<>>
            \/ Cut(o.got, o.line, l) /\ OneLine(o.got)
         /\ o.how = "ok" /\ kind \in StreamKinds => Finished(o.got)
<1>1. ~Finished(<<>>)
  <2>1. Len(<<>>) = 0  BY EmptySeq
  <2> QED BY <2>1 DEF Finished, Ends
<1>2. ASSUME NEW k \in FirstEnds(l)
      PROVE  Cut(Take(l, k), Drop(l, k), l) /\ OneLine(Take(l, k))
  <2>1. Finished(l)  BY DEF Finished, FirstEnds
  <2>2. k = FirstEnd(l)
    <3>1. \A j \in FirstEnds(l) : j = k
      <4>1. \A j \in FirstEnds(l) : j \in Nat /\ j <= k /\ k <= j /\ k \in Nat
        BY LenProperties DEF FirstEnds, Ends
      <4> QED BY <4>1
    <3>2. FirstEnd(l) \in FirstEnds(l)  BY DEF FirstEnd
    <3> QED BY <3>1, <3>2
  <2>3. k \in 0 .. Len(l)  BY <2>1, <2>2, FirstEndIsEnd, LenProperties
  <2> QED BY <2>1, <2>2, <2>3, LineTaken, TakeDrop DEF Cut
<1>3. CASE kind = "vxi11"
  <2>1. o \in Vxi11ReadUntil(<<>>, l)  BY <1>3 DEF ReadUntil
  <2>2. CASE o = Outcome("timeout", <<>>, <<>>, l)  BY <2>2 DEF Outcome
  <2>3. CASE \E k \in FirstEnds(l) : o = Outcome("ok", <<>> \o Take(l, k), <<>>, Drop(l, k))
    <3>1. PICK k \in FirstEnds(l) : o = Outcome("ok", <<>> \o Take(l, k), <<>>, Drop(l, k))
      BY <2>3
    <3>2. Cut(Take(l, k), Drop(l, k), l) /\ OneLine(Take(l, k))  BY <1>2
    <3>3. <<>> \o Take(l, k) = Take(l, k)  BY <3>2, NoBytes DEF Cut
    <3> QED BY <3>1, <3>2, <3>3 DEF Outcome, OneLine
  <2> QED BY <1>1, <2>1, <2>2, <2>3 DEF Vxi11ReadUntil
<1>4. CASE kind # "vxi11"
  <2>1. kind \notin StreamKinds  BY <1>4 DEF ByteStreams, StreamKinds
  <2>2. o \in MessageReadUntil(<<>>, l)  BY <1>4 DEF ReadUntil, ByteStreams
  <2>3. CASE o = Outcome("ok", <<>>, <<>>, l)  BY <2>1, <2>3 DEF Outcome
  <2>4. CASE \E k \in FirstEnds(l) : o = Outcome("ok", Take(l, k), <<>>, Drop(l, k))
    BY <1>2, <2>1, <2>4 DEF Outcome
  <2> QED BY <2>2, <2>3, <2>4 DEF MessageReadUntil
<1> QED BY <1>3, <1>4

(* Where there is nothing to read, nothing is read.                        *)
LEMMA NothingOfMessages ==
  ASSUME NEW kind, kind \notin ByteStreams, NEW n \in Nat, n > 0,
         NEW o \in ReadBytes(kind, n, <<>>, <<>>)
  PROVE  o.how # "ok" /\ o.rbuf = <<>>
<1>1. Len(<<>>) = 0 /\ <<>> \in Seq(Bytes)  BY EmptySeq, NoBytes
<1>2. FirstEnds(<<>>) = {}  BY <1>1 DEF FirstEnds, Ends
<1>3. CASE kind = "vxi11"
  <2>1. ~(Len(<<>>) >= n)  BY <1>1
  <2>2. PICK x \in SocketRead("vxi11", n, <<>>, <<>>) :
          o = IF x.how = "ok" THEN Outcome("ok", x.got \o x.rbuf, <<>>, x.line) ELSE x
    BY <1>3, <2>1 DEF ReadBytes, Vxi11Read
  <2>3. \A k \in Arrived("vxi11", <<>>) : k = 0  BY <1>1 DEF Arrived
  <2>4. <<>> \o Take(<<>>, 0) = <<>>
    <3>1. 0 \in 0 .. Len(<<>>)  BY <1>1
    <3>2. Take(<<>>, 0) \in Seq(Bytes) /\ Len(Take(<<>>, 0)) = 0  BY <1>1, <3>1, TakeDrop
    <3>3. Take(<<>>, 0) = <<>>  BY <3>2, EmptySeq
    <3> QED BY <1>1, <3>3, NoBytes
  <2>5. x.how = "timeout" /\ x.rbuf = <<>>
    <3>1. \A k \in Arrived("vxi11", <<>>) : ~(Len(<<>>) + k >= n)  BY <1>1, <2>3
    <3>2. \E k \in Arrived("vxi11", <<>>) :
            x = Outcome("timeout", <<>>, <<>> \o Take(<<>>, k), Drop(<<>>, k))
      BY <2>1, <2>2, <3>1 DEF SocketRead
    <3>3. PICK k \in Arrived("vxi11", <<>>) :
            x = Outcome("timeout", <<>>, <<>> \o Take(<<>>, k), Drop(<<>>, k))
      BY <3>2
    <3>4. k = 0  BY <2>3
    <3> QED BY <2>4, <3>3, <3>4 DEF Outcome
  <2> QED BY <2>2, <2>5
<1>4. CASE kind # "vxi11"
  <2>1. o \in MessageRead(n, <<>>, <<>>)  BY <1>4 DEF ReadBytes, ByteStreams
  <2>2. o = Outcome("timeout", <<>>, <<>>, <<>>)  BY <1>2, <2>1 DEF MessageRead
  <2> QED BY <2>2 DEF Outcome
<1> QED BY <1>3, <1>4

-----------------------------------------------------------------------------
(* What is left of the replies after a read                                *)

(* What is unread after the outcome o.                                     *)
Remains(o) == IF Kind \in ByteStreams THEN o.rbuf \o o.line ELSE o.line

(* Nothing is not enough.                                                  *)
LEMMA NothingIsNotFull == \A step : ~Full(step, <<>>)
<1>1. Len(<<>>) = 0  BY EmptySeq
<1>2. ~Finished(<<>>)  BY <1>1 DEF Finished, Ends
<1> QED BY <1>2 DEF Full

(* A read that gets what it asked for has taken it off the front of what   *)
(* was there, and something was.                                           *)
LEMMA ReadTakes ==
  ASSUME WireInv, NEW step \in Reads, NEW o \in ReadOutcomes(step), o.how = "ok",
         Full(step, o.got), Kind \notin ByteStreams => rbuf = <<>>, Unread \in Seq(Bytes)
  PROVE  /\ Unread # <<>>
         /\ step \in Lines \/ Kind \in ByteStreams =>
              /\ Kind \notin ByteStreams => o.rbuf = <<>>
              /\ Cut(o.got, Remains(o), Unread)
              /\ step \in Lines => OneLine(o.got)
              /\ step \in {"read1", "header"} => Len(o.got) = 1
<1>1. o.got # <<>>  BY NothingIsNotFull
<1>2. CASE Kind \in ByteStreams
  <2>1. /\ Keeps(o, rbuf, line)
        /\ step \in {"read1", "header"} => Len(o.got) = 1
        /\ step \in Lines => OneLine(o.got)
    BY <1>2, ReadOutcomesKeep
  <2>2. o.rbuf \o o.line \in Seq(Bytes)
    <3>1. o.rbuf \in Seq(Bytes) /\ o.line \in Seq(Bytes)  BY <2>1 DEF Keeps
    <3> QED BY <3>1, ConcatProperties
  <2>3. Cut(o.got, Remains(o), Unread)  BY <1>2, <2>1, <2>2 DEF Keeps, Cut, Remains, Unread
  <2>4. Unread # <<>>  BY <1>1, <2>3, CutNothing
  <2> QED BY <1>2, <2>1, <2>3, <2>4
<1>3. CASE Kind \notin ByteStreams /\ step \in Lines
  <2>1. o \in ReadUntil(Kind, <<>>, line) /\ line \in Seq(Bytes) /\ Unread = line
    BY <1>3 DEF ReadOutcomes, Lines, Unread
  <2>2. /\ o.rbuf = <<>>
        /\ \/ o.line = line /\ o.got = <<>>
           \/ Cut(o.got, o.line, line) /\ OneLine(o.got)
    BY <1>3, <2>1, LineOfMessages
  <2>3. Cut(o.got, Remains(o), Unread) /\ OneLine(o.got)
    BY <1>1, <1>3, <2>1, <2>2 DEF Remains
  <2>4. Unread # <<>>  BY <1>1, <2>3, CutNothing
  <2> QED BY <1>3, <2>2, <2>3, <2>4 DEF Lines
<1>4. CASE Kind \notin ByteStreams /\ step \notin Lines
  <2> SUFFICES ASSUME Unread = <<>> PROVE FALSE  BY <1>4
  <2>1. rbuf = <<>> /\ line = <<>>  BY <1>4 DEF Unread
  <2>2. CASE step \in {"read1", "header", "tail", "read2"}
    <3>1. \E n \in Nat : n > 0 /\ o \in ReadBytes(Kind, n, <<>>, <<>>)
      BY <2>1, <2>2 DEF ReadOutcomes
    <3> QED BY <1>4, <3>1, NothingOfMessages
  <2>3. CASE step = "collect"
    <3>1. o \in ReadUntilTimeout(Kind, MaxLine + 1, <<>>, <<>>)
      BY <2>1, <2>3 DEF ReadOutcomes
    <3>2. MaxLine + 1 \in Nat /\ MaxLine + 1 > 0  BY MaxLineAssumption
    <3>3. CASE Kind \in StreamKinds
      <4>1. PICK x \in ReadBytes(Kind, MaxLine + 1, <<>>, <<>>) :
              o = IF x.how = "timeout" THEN Outcome("ok", x.rbuf, <<>>, x.line) ELSE x
        BY <3>1, <3>3 DEF ReadUntilTimeout
      <4>2. x.how # "ok" /\ x.rbuf = <<>>  BY <1>4, <3>2, NothingOfMessages
      <4> QED BY <1>1, <4>1, <4>2 DEF Outcome
    <3>4. CASE Kind \notin StreamKinds
      <4>1. o \in ReadUntil(Kind, <<>>, <<>>)
        BY <3>1, <3>4 DEF ReadUntilTimeout, ReadUntil, StreamKinds
      <4>2. o.got = <<>> \/ Cut(o.got, o.line, <<>>)  BY <1>4, <4>1, NoBytes, LineOfMessages
      <4> QED BY <1>1, <4>2, CutNothing
    <3> QED BY <3>3, <3>4
  <2> QED BY <1>4, <2>2, <2>3 DEF Reads, Lines
<1> QED BY <1>2, <1>3, <1>4

-----------------------------------------------------------------------------
(* Replies and the steps that read them                                    *)

(* Only a call that has asked for what takes long ends with a query.       *)
LEMMA NotTheQuery ==
  ASSUME StepsInv, ProgramInv, driver \notin LeavesReplies, ~Idle, Next, Step # "await",
         todo # <<"query">>
  PROVE  todo' # <<"query">>
<1>1. AnswersRead(driver, todo) /\ AnswersRead(driver, handler.steps)
  BY DEF ProgramInv
<1>2. CASE \E u : GoesOn(u)
  <2>1. PICK u : GoesOn(u)  BY <1>2
  <2>2. AnswersRead(driver, u)  BY <1>1, <2>1, AnswersAfter
  <2>3. todo' = u  BY <2>1, GoOnEffects
  <2> QED BY <2>2, <2>3, OnlyAQuery
<1>3. CASE Raises
  <2>1. PICK f \in Faults : RaiseAs(f)  BY <1>3 DEF Raises
  <2>2. todo' = <<>> \/ todo' = handler.steps  BY <2>1, RaiseEffects
  <2>3. <<>> # <<"query">>  OBVIOUS
  <2> QED BY <1>1, <2>2, <2>3, OnlyAQuery
<1> QED BY <1>2, <1>3, GoesOrRaises

(* Matches and WaitsFor with what each step has to show.                   *)
ReplyHolds ==
  clean' =>
    /\ Kind \notin ByteStreams => rbuf' = <<>>
    /\ IF awaited' THEN WaitsFor(Unread', todo') ELSE Matches(Unread', todo')

LEMMA UnreadAfter ==
  ASSUME Next PROVE Kind' = Kind /\ driver' = driver
                    /\ (Unread' = IF Kind \in ByteStreams THEN rbuf' \o line' ELSE line')
<1>1. driver' = driver
  BY DEF Next, CallOpen, CallClose, CallMethod, Start, openVars, CheckOpen, MarkOpen, MarkClosed,
         OpenTransport, CloseTransport, Tell, Query, SecondReply, Await, Read, Poll, Flush,
         Drain, Check, Choose, Enter, Leave, Block
<1> QED BY <1>1 DEF Kind, Unread

(* Nothing waits: that is always right.                                    *)
LEMMA NothingHolds ==
  ASSUME Next, Unread' = <<>>, Kind \notin ByteStreams => rbuf' = <<>>
  PROVE  ReplyHolds
BY UnreadAfter DEF ReplyHolds, WaitsFor, Matches

LEMMA EmptyHolds == ASSUME Next, rbuf' = <<>>, line' = <<>> PROVE ReplyHolds
<1>1. Unread' = <<>>
  <2>1. <<>> \o <<>> = <<>>  BY NoBytes
  <2> QED BY <2>1, UnreadAfter
<1> QED BY <1>1, NothingHolds

(* Where a reply waits, the next step reads it, or is one on the way.      *)
LEMMA WhatWaits ==
  ASSUME StepsInv, ProgramInv, ReplyInv, driver \notin LeavesReplies, ~Idle, clean
  PROVE  /\ Kind \notin ByteStreams => rbuf = <<>>
         /\ Unread \in {<<>>, Reply, <<"end">>, Two} /\ Unread \in Seq(Bytes)
         /\ ~awaited =>
              \/ Unread = <<>>
              \/ Unread = Reply /\ TakesDue(driver, todo)
              \/ /\ Unread = <<"end">> /\ Kind \in ByteStreams
                 /\ Step \in {"read1", "tail"}
              \/ Unread = Two /\ TakesTwo(todo) /\ Step \in Lines
         /\ awaited =>
              /\ Step \notin NotLines \cup {"await"} /\ Kind \in StreamKinds
              /\ \/ Unread = <<>>
                 \/ Unread = Reply /\ todo # <<"query">>
                 \/ Unread = Two /\ TakesDue(driver, todo)
         /\ TakesDue(driver, todo) => Step \in Reads \cup {"try", "reply"}
<1>1. /\ todo \in Seq(Steps) /\ Len(todo) \in Nat /\ Len(todo) >= 1
      /\ DOMAIN todo = 1 .. Len(todo) /\ todo[1] = Step
  BY StepIsFirst
<1>2. /\ Kind \notin ByteStreams => rbuf = <<>>
      /\ IF awaited THEN WaitsFor(Unread, todo) ELSE Matches(Unread, todo)
  BY DEF ReplyInv
<1>3. Unread \in {<<>>, Reply, <<"end">>, Two}  BY <1>2 DEF WaitsFor, Matches
<1>4. Unread \in Seq(Bytes)  BY <1>3, NoBytes, ReplyIs, TwoIs, EndIs
<1>5. TakesTwo(todo) => Step \in Lines  BY <1>1 DEF TakesTwo
<1>6. ASSUME awaited PROVE Step \notin NotLines \cup {"await"} /\ Kind \in StreamKinds
  <2>1. Awaits(driver) /\ Without(todo, NotLines) /\ Polls(todo)  BY <1>6 DEF ProgramInv
  <2>2. Step \notin NotLines  BY <1>1, <2>1 DEF Without
  <2>3. Step # "await"
    <3>1. CASE Without(todo, {"await"})  BY <1>1, <3>1 DEF Without
    <3>2. CASE \E j \in DOMAIN todo :
                 todo[j] = "poll" /\ \A i \in 1 .. j - 1 : todo[i] \notin {"await", "if"}
      <4>1. PICK j \in 1 .. Len(todo) :
              todo[j] = "poll" /\ \A i \in 1 .. j - 1 : todo[i] \notin {"await", "if"}
        BY <1>1, <3>2
      <4>2. CASE j = 1  BY <1>1, <4>1, <4>2
      <4>3. CASE j # 1
        <5>1. 1 \in 1 .. j - 1  BY <1>1, <4>1, <4>3
        <5> QED BY <1>1, <4>1, <5>1
      <4> QED BY <4>2, <4>3
    <3> QED BY <2>1, <3>1, <3>2 DEF Polls
  <2>4. Kind \in StreamKinds  BY <2>1 DEF Awaits, Kind
  <2> QED BY <2>2, <2>3, <2>4
<1>7. TakesDue(driver, todo) => Step \in Reads \cup {"try", "reply"}
  BY <1>1 DEF TakesDue, TakesReply, Lines, Reads
<1>8. ~awaited => \/ Unread = <<>>
                  \/ Unread = Reply /\ TakesDue(driver, todo)
                  \/ /\ Unread = <<"end">> /\ Kind \in ByteStreams
                     /\ Step \in {"read1", "tail"}
                  \/ Unread = Two /\ TakesTwo(todo) /\ Step \in Lines
  BY <1>1, <1>2, <1>5 DEF Matches
<1>9. awaited => \/ Unread = <<>>
                 \/ Unread = Reply /\ todo # <<"query">>
                 \/ Unread = Two /\ TakesDue(driver, todo)
  BY <1>2 DEF WaitsFor
<1> QED BY <1>2, <1>3, <1>4, <1>6, <1>7, <1>8, <1>9

(* A try block is entered on the way to the read.                          *)
LEMMA TryHolds ==
  ASSUME StepsInv, ~Idle, Next, TakesDue(driver, todo), Step = "try"
  PROVE  TakesDue(driver, todo')
<1>1. todo # <<>> /\ todo[1] = Step  BY StepIsFirst DEF Idle
<1>2. TakesReply(driver, Tail(todo))
  BY <1>1 DEF TakesDue, TakesReply, Lines
<1>3. Proceed  BY NeverRaises
<1>4. todo' = Tail(todo)  BY <1>2, <1>3 DEF Proceed, GoOn, TakesReply
<1> QED BY <1>2, <1>4 DEF TakesDue, TakesReply

LEMMA ThreeStates ==
  /\ Reply # <<>> /\ Two # <<>> /\ Reply # Two /\ Reply # <<"end">> /\ Two # <<"end">>
  /\ <<"end">> # <<>>
<1> DEFINE e == <<"end">>
<1>1. Len(e) = 1 /\ Len(Reply) = 2 /\ Len(Two) = 4 /\ Len(<<>>) = 0
  BY ReplyIs, TwoIs, EndIs, EmptySeq
<1> HIDE DEF e
<1>2. /\ Reply # <<>> /\ Two # <<>> /\ Reply # Two /\ Reply # e /\ Two # e /\ e # <<>>
  BY <1>1
<1> QED BY <1>2 DEF e

(* A step that neither reads nor asks.                                     *)
LEMMA QuietHolds ==
  ASSUME StepsInv, ProgramInv, ReplyInv, driver \notin LeavesReplies, ~Idle, Next,
         Unread' = Unread, Kind \notin ByteStreams /\ rbuf = <<>> => rbuf' = <<>>,
         clean' => clean, Step \notin Reads \cup {"reply"},
         (awaited' <=> awaited) \/ Step = "await"
  PROVE  ReplyHolds
<1> SUFFICES ASSUME clean'
             PROVE  /\ Kind \notin ByteStreams => rbuf' = <<>>
                    /\ IF awaited' THEN WaitsFor(Unread', todo') ELSE Matches(Unread', todo')
  BY DEF ReplyHolds
<1>1. Kind \notin ByteStreams => rbuf' = <<>>  BY WhatWaits
<1>2. driver' = driver /\ Kind' = Kind  BY UnreadAfter
<1>3. CASE Unread = <<>>  BY <1>1, <1>3 DEF WaitsFor, Matches
<1>4. CASE ~awaited /\ Unread # <<>>
  <2>1. Unread = Reply /\ TakesDue(driver, todo) /\ Step = "try"
    BY <1>4, WhatWaits DEF Lines, Reads
  <2>2. TakesDue(driver, todo')  BY <2>1, TryHolds
  <2>3. ~awaited'
    <3>1. awaited' <=> awaited  BY <2>1
    <3> QED BY <1>4, <3>1, Zenon
  <2> QED BY <1>1, <1>2, <2>1, <2>2, <2>3 DEF Matches
<1>5. CASE awaited /\ Unread = Reply
  <2>1. todo # <<"query">> /\ Step # "await"
    BY <1>5, ThreeStates, WhatWaits
  <2>2. todo' # <<"query">>  BY <2>1, NotTheQuery
  <2>3. awaited'
    <3>1. awaited' <=> awaited  BY <2>1
    <3> QED BY <1>5, <3>1, Zenon
  <2> QED BY <1>1, <1>5, <2>2, <2>3 DEF WaitsFor
<1>6. CASE awaited /\ Unread = Two
  <2>1. TakesDue(driver, todo) /\ Step = "try"
    BY <1>6, ThreeStates, WhatWaits
  <2>2. TakesDue(driver, todo')  BY <2>1, TryHolds
  <2>3. awaited'
    <3>1. awaited' <=> awaited  BY <2>1
    <3> QED BY <1>6, <3>1, Zenon
  <2> QED BY <1>1, <1>2, <1>6, <2>2, <2>3 DEF WaitsFor
<1> QED BY <1>3, <1>4, <1>5, <1>6, WhatWaits

LEMMA TwoReplies == <<>> \o Reply = Reply /\ Reply \o Reply = Two
<1>1. <<>> \o Reply = Reply  BY ReplyIs, NoBytes
<1> DEFINE w == Reply \o Reply
<1>2. /\ w \in Seq(Bytes) /\ Len(w) = 4
      /\ \A i \in 1 .. 4 : w[i] = IF i <= 2 THEN Reply[i] ELSE Reply[i - 2]
  <2>1. /\ w \in Seq(Bytes) /\ Len(w) = Len(Reply) + Len(Reply)
        /\ \A i \in 1 .. Len(Reply) + Len(Reply) :
             w[i] = IF i <= Len(Reply) THEN Reply[i] ELSE Reply[i - Len(Reply)]
    BY ReplyIs, ConcatProperties
  <2>2. Len(Reply) = 2 /\ 2 + 2 = 4  BY ReplyIs
  <2> QED BY <2>1, <2>2
<1>3. w[1] = "body" /\ w[2] = "end" /\ w[3] = "body" /\ w[4] = "end"
  BY <1>2, ReplyIs
<1> HIDE DEF w
<1>4. \A i \in 1 .. 4 : w[i] = Two[i]
  <2>1. \A i \in 1 .. 4 : i = 1 \/ i = 2 \/ i = 3 \/ i = 4  OBVIOUS
  <2> QED BY <1>3, <2>1, TwoIs
<1>5. w = Two  BY <1>2, <1>4, TwoIs, SeqEqual
<1> QED BY <1>1, <1>5 DEF w

(* A reply more waits.                                                     *)
LEMMA OneReplyMore ==
  ASSUME WireInv, Next, line \in Seq(Bytes), rbuf' = rbuf, line' = line \o Reply
  PROVE  Unread' = Unread \o Reply
<1>1. CASE Kind \in ByteStreams
  <2>1. rbuf \in Seq(Bytes) /\ line \in Seq(Bytes)  BY <1>1 DEF WireInv, Wire
  <2>2. (rbuf \o line) \o Reply = rbuf \o (line \o Reply)  BY <2>1, ReplyIs, Associative
  <2> QED BY <1>1, <2>2, UnreadAfter DEF Unread
<1>2. CASE Kind \notin ByteStreams  BY <1>2, UnreadAfter DEF Unread
<1> QED BY <1>1, <1>2

(* What is asked for is read next.                                         *)
LEMMA AskedIsRead ==
  ASSUME StepsInv, ~Idle, AnswersRead(driver, todo), Step \in {"query", "reply"}
  PROVE  TakesDue(driver, Tail(todo)) /\ Tail(todo) # <<>>
<1>1. /\ todo \in Seq(Steps) /\ Len(todo) \in Nat /\ Len(todo) >= 1
      /\ DOMAIN todo = 1 .. Len(todo) /\ todo[1] = Step
  BY StepIsFirst
<1>2. 1 \in DOMAIN todo  BY <1>1
<1>3. TakesDue(driver, Rest(todo, 1 + 1)) \/ (1 > 1 /\ todo[1 - 1] = "await")
  BY <1>1, <1>2 DEF AnswersRead
<1>4. Left(Rest(todo, 1 + 1), todo, 1) /\ Left(Tail(todo), todo, 1)
  <2>1. 1 \in 0 .. Len(todo) /\ todo # <<>>  BY <1>1, EmptySeq
  <2> QED BY <1>1, <2>1, RestIsLeft, TailIsLeft
<1>5. Rest(todo, 1 + 1) = Tail(todo)  BY <1>4, LeftIs
<1>6. ~(1 > 1)  OBVIOUS
<1>7. TakesDue(driver, Tail(todo))  BY <1>3, <1>5, <1>6, Zenon
<1> QED BY <1>7 DEF TakesDue

LEMMA QueryHolds ==
  ASSUME StepsInv, WireInv, ProgramInv, ReplyInv, driver \notin LeavesReplies, ~Idle, Next,
         Step \in {"query", "reply"}
  PROVE  ReplyHolds
<1>1. (Step = "query" /\ Query) \/ (Step = "reply" /\ SecondReply)
  BY ActionOfStep DEF Reads
<1>2. awaited' = awaited /\ rbuf' = rbuf /\ driver' = driver
  BY <1>1, Zenon DEF Query, SecondReply, openVars, modeVars
<1>3. CASE WriteFails /\ UNCHANGED <<line, clean>> /\ Step = "query"
  <2>1. Unread' = Unread  BY <1>2, <1>3, UnreadAfter DEF Unread
  <2> QED BY <1>2, <1>3, <2>1, QuietHolds DEF Reads
<1>4. CASE line' = line \o Reply /\ clean' = clean /\ Proceed
  <2> SUFFICES ASSUME clean
               PROVE  /\ Kind \notin ByteStreams => rbuf = <<>>
                      /\ IF awaited THEN WaitsFor(Unread', todo') ELSE Matches(Unread', todo')
    BY <1>2, <1>4, Zenon DEF ReplyHolds
  <2>1. Kind \notin ByteStreams => rbuf = <<>>  BY WhatWaits
  <2>2. line \in Seq(Bytes)
    <3>1. CASE Kind \in ByteStreams  BY <3>1 DEF WireInv, Wire
    <3>2. CASE Kind \notin ByteStreams  BY <3>2, WhatWaits DEF Unread
    <3> QED BY <3>1, <3>2
  <2>3. Unread' = Unread \o Reply  BY <1>2, <1>4, <2>2, OneReplyMore
  <2>4. AnswersRead(driver, todo) =>
          TakesDue(driver, Tail(todo)) /\ Tail(todo) # <<>> /\ todo' = Tail(todo)
    <3>1. AnswersRead(driver, todo) => TakesDue(driver, Tail(todo)) /\ Tail(todo) # <<>>
      BY <1>1, AskedIsRead
    <3>2. Tail(todo) # <<>> => todo' = Tail(todo)  BY <1>4 DEF Proceed, GoOn
    <3> QED BY <3>1, <3>2
  <2>5. CASE ~awaited
    <3>1. AnswersRead(driver, todo)  BY <2>5 DEF ProgramInv
    <3>2. CASE Unread = <<>>
      BY <2>1, <2>3, <2>4, <2>5, <3>1, <3>2, TwoReplies DEF Matches
    <3>3. CASE Unread # <<>>
      <4>1. Unread = Reply /\ TakesDue(driver, todo) /\ Step = "reply"
        BY <1>1, <2>5, <3>3, WhatWaits DEF Reads, Lines
      <4>2. todo[1] = Step  BY StepIsFirst
      <4>3. TakesTwo(Tail(todo))
        BY <4>1, <4>2 DEF TakesDue, TakesReply, Lines
      <4> QED BY <2>1, <2>3, <2>4, <2>5, <3>1, <4>1, <4>3, TwoReplies DEF Matches
    <3> QED BY <3>2, <3>3
  <2>6. CASE awaited
    <3>1. Step = "query"  BY <1>1, <2>6, WhatWaits DEF NotLines
    <3>2. CASE Unread = <<>>
      <4>1. todo' # <<"query">>
        <5>1. CASE todo = <<"query">>
          <6>1. Left(Tail(todo), todo, 1) /\ Len(todo) = 1
            <7>1. Len(todo) = 1  BY <5>1
            <7> QED BY <5>1, <7>1, StepIsFirst, TailIsLeft
          <6>2. Tail(todo) = <<>>  BY <6>1, NoneLeft
          <6>3. todo' = <<>>  BY <1>4, <6>2 DEF Proceed, GoOn, Finish
          <6> QED BY <6>3
        <5>2. CASE todo # <<"query">>  BY <3>1, <5>2, NotTheQuery
        <5> QED BY <5>1, <5>2
      <4> QED BY <2>1, <2>3, <2>6, <3>2, <4>1, TwoReplies DEF WaitsFor
    <3>3. CASE Unread = Reply
      <4>1. todo # <<"query">>  BY <2>6, <3>3, WhatWaits, ThreeStates
      <4>2. AnswersRead(driver, todo)  BY <4>1 DEF ProgramInv
      <4> QED BY <2>1, <2>3, <2>4, <2>6, <3>3, <4>2, TwoReplies DEF WaitsFor
    <3>4. CASE Unread = Two
      <4>1. TakesDue(driver, todo)  BY <2>6, <3>4, WhatWaits, ThreeStates
      <4> QED BY <3>1, <4>1, WhatWaits DEF Reads
    <3> QED BY <2>6, <3>2, <3>3, <3>4, WhatWaits
  <2> QED BY <2>1, <2>5, <2>6
<1>5. CASE clean' = FALSE  BY <1>5 DEF ReplyHolds
<1> QED BY <1>1, <1>3, <1>4, <1>5 DEF Query, SecondReply, Replies

(* A read that gets all of it leaves what the steps after it read.         *)
LEMMA TakenHolds ==
  ASSUME StepsInv, WireInv, ProgramInv, ReplyInv, driver \notin LeavesReplies, ~Idle, Next,
         clean, Step \in Reads, NEW o \in ReadOutcomes(Step), o.how = "ok", Full(Step, o.got),
         rbuf' = o.rbuf, line' = o.line, awaited' = awaited,
         Accepted(Step, o.got) => Proceed
  PROVE  ReplyHolds
<1>1. driver' = driver /\ Unread' = Remains(o)  BY UnreadAfter DEF Remains
<1>2. /\ todo \in Seq(Steps) /\ Len(todo) \in Nat /\ Len(todo) >= 1
      /\ DOMAIN todo = 1 .. Len(todo) /\ todo[1] = Step
  BY StepIsFirst
<1>3. /\ Unread # <<>>
      /\ Step \in Lines \/ Kind \in ByteStreams =>
           /\ Kind \notin ByteStreams => o.rbuf = <<>>
           /\ Cut(o.got, Remains(o), Unread)
           /\ Step \in Lines => OneLine(o.got)
           /\ Step \in {"read1", "header"} => Len(o.got) = 1
  BY WhatWaits, ReadTakes
<1>4. o.got # <<>>  BY NothingIsNotFull
<1>5. ASSUME Len(todo) > 1, Accepted(Step, o.got)
      PROVE  todo' = Tail(todo) /\ todo' # <<>> /\ todo'[1] = todo[2]
  <2>1. Left(Tail(todo), todo, 1)
    <3>1. todo # <<>>  BY <1>2, EmptySeq
    <3> QED BY <1>2, <3>1, TailIsLeft
  <2>2. Tail(todo) # <<>>
    <3>1. ~(1 = Len(todo))  BY <1>2, <1>5
    <3> QED BY <2>1, <3>1, NoneLeft
  <2>3. Tail(todo)[1] = todo[2]
    <3>1. 1 \in 1 .. Len(todo) - 1 /\ 1 + 1 = 2  BY <1>2, <1>5
    <3> QED BY <2>1, <3>1 DEF Left
  <2> QED BY <1>5, <2>2, <2>3 DEF Proceed, GoOn
<1>6. ASSUME Step \in Lines PROVE Accepted(Step, o.got)
  <2>1. Finished(o.got)  BY <1>3, <1>6 DEF OneLine
  <2> QED BY <1>6, <2>1 DEF Accepted, Lines
<1>7. CASE ~awaited
  <2>1. ~awaited'  BY <1>7, Zenon
  <2>2. CASE Unread = Reply
    <3>1. TakesReply(driver, todo)
      <4>1. TakesDue(driver, todo)  BY <1>7, <2>2, WhatWaits, ThreeStates
      <4> QED BY <1>2, <4>1 DEF TakesDue, Reads
    <3>2. Step \in Lines \/ Kind \in ByteStreams  BY <1>2, <3>1 DEF TakesReply, Kind
    <3>3. Cut(o.got, Remains(o), Reply)  BY <1>3, <2>2, <3>2
    <3>4. CASE Step \notin {"read1", "header"}
      <4>1. Finished(o.got)  BY <3>4 DEF Full
      <4>2. Remains(o) = <<>>  BY <3>3, <4>1, CutReply
      <4> QED BY <1>1, <1>3, <3>2, <4>2, NothingHolds
    <3>5. CASE Step \in {"read1", "header"}
      <4>1. /\ Kind \in ByteStreams /\ Len(todo) > 1 /\ todo[2] \in {"read1", "tail"}
        BY <1>2, <3>1, <3>5 DEF TakesReply, Lines, Kind
      <4>2. Remains(o) = <<"end">> /\ ~Finished(o.got)
        BY <1>3, <3>2, <3>3, <3>5, CutReply
      <4>3. Accepted(Step, o.got)  BY <3>5, <4>2 DEF Accepted
      <4>4. todo' # <<>> /\ todo'[1] \in {"read1", "tail"}  BY <1>5, <4>1, <4>3
      <4> QED BY <1>1, <2>1, <4>1, <4>2, <4>4 DEF ReplyHolds, Matches
    <3> QED BY <3>4, <3>5
  <2>3. CASE Unread = <<"end">>
    <3>1. Kind \in ByteStreams  BY <1>7, <2>3, WhatWaits, ThreeStates
    <3>2. Remains(o) = <<>>  BY <1>3, <1>4, <2>3, <3>1, CutEnd
    <3> QED BY <1>1, <3>1, <3>2, NothingHolds
  <2>4. CASE Unread = Two
    <3>1. TakesTwo(todo) /\ Step \in Lines  BY <1>7, <2>4, WhatWaits, ThreeStates
    <3>2. Remains(o) = Reply  BY <1>3, <2>4, <3>1, CutTwo
    <3>3. todo' # <<>> /\ todo'[1] \in Lines  BY <1>5, <1>6, <3>1 DEF TakesTwo
    <3>4. TakesDue(driver, todo')  BY <3>3 DEF TakesDue, TakesReply
    <3> QED BY <1>1, <1>3, <2>1, <3>1, <3>2, <3>4 DEF ReplyHolds, Matches
  <2> QED BY <1>3, <1>7, <2>2, <2>3, <2>4, WhatWaits
<1>8. CASE awaited
  <2>1. awaited'  BY <1>8, Zenon
  <2>2. Step \in Lines  BY <1>8, WhatWaits DEF NotLines
  <2>3. CASE Unread = Reply
    <3>1. Remains(o) = <<>>  BY <1>3, <2>2, <2>3, CutReply DEF OneLine
    <3> QED BY <1>1, <1>3, <2>2, <3>1, NothingHolds
  <2>4. CASE Unread = Two
    <3>1. Remains(o) = Reply  BY <1>3, <2>2, <2>4, CutTwo
    <3>2. todo' # <<"query">>
      <4>1. todo # <<"query">> /\ Step # "await"
        <5>1. Step # "query" /\ Step # "await"  BY <2>2 DEF Lines
        <5>2. <<"query">>[1] = "query"  OBVIOUS
        <5> QED BY <1>2, <5>1, <5>2
      <4> QED BY <4>1, NotTheQuery
    <3> QED BY <1>1, <1>3, <2>1, <2>2, <3>1, <3>2 DEF ReplyHolds, WaitsFor
  <2> QED BY <1>3, <1>8, <2>3, <2>4, WhatWaits
<1> QED BY <1>7, <1>8

LEMMA ReadHolds ==
  ASSUME StepsInv, WireInv, ProgramInv, ReplyInv, driver \notin LeavesReplies, ~Idle, Next,
         Step \in Reads
  PROVE  ReplyHolds
<1>1. Read  BY ActionOfStep DEF Reads
<1>2. awaited' = awaited  BY <1>1, Zenon DEF Read, modeVars
<1>3. CASE ReadFails  BY <1>3 DEF ReadFails, ReplyHolds
<1>4. CASE ~ReadFails
  <2>1. PICK o \in ReadOutcomes(Step) :
          /\ rbuf' = o.rbuf /\ line' = o.line
          /\ clean' = (clean /\ o.how = "ok" /\ Full(Step, o.got))
          /\ CASE o.how # "ok" -> RaiseAs(o.how)
               [] o.how = "ok" /\ Accepted(Step, o.got) -> Proceed
               [] o.how = "ok" /\ ~Accepted(Step, o.got) -> Raise
    BY <1>1, <1>4 DEF Read
  <2>2. CASE clean /\ o.how = "ok" /\ Full(Step, o.got)
    <3>1. Accepted(Step, o.got) => Proceed  BY <2>1, <2>2
    <3> QED BY <1>2, <2>1, <2>2, <3>1, TakenHolds
  <2>3. CASE ~(clean /\ o.how = "ok" /\ Full(Step, o.got))
    <3>1. ~clean'  BY <2>1, <2>3, Zenon
    <3> QED BY <3>1 DEF ReplyHolds
  <2> QED BY <2>2, <2>3
<1> QED BY <1>3, <1>4

(* Looking for the reply that takes long: it is there, or all stays.       *)
LEMMA PollHolds ==
  ASSUME StepsInv, WireInv, ProgramInv, ReplyInv, driver \notin LeavesReplies, ~Idle, Next,
         Step = "poll"
  PROVE  ReplyHolds
<1>1. Poll  BY ActionOfStep DEF Reads
<1>2. CASE UNCHANGED <<wireVars, awaited>>
  <2>1. Unread' = Unread /\ rbuf' = rbuf  BY <1>2, UnreadAfter DEF Unread, wireVars
  <2>2. (clean' => clean) /\ awaited' = awaited  BY <1>2, Zenon DEF wireVars
  <2> QED BY <2>1, <2>2, QuietHolds DEF Reads
<1>3. CASE ReadFails  BY <1>3 DEF ReadFails, ReplyHolds
<1>4. CASE /\ awaited
           /\ \E o \in ReadOutcomes("line") :
                /\ rbuf' = o.rbuf /\ line' = o.line
                /\ awaited' = (o.how # "ok")
           /\ clean' = clean
  <2> SUFFICES ASSUME clean PROVE ReplyHolds  BY <1>4, Zenon DEF ReplyHolds
  <2>1. PICK o \in ReadOutcomes("line") :
          rbuf' = o.rbuf /\ line' = o.line /\ awaited' = (o.how # "ok")
    BY <1>4
  <2>2. Unread' = Remains(o)  BY <2>1, UnreadAfter DEF Remains
  <2>3. Kind \in StreamKinds /\ "line" \in Lines /\ "line" \in Reads
    BY <1>4, WhatWaits DEF Lines, Reads
  <2>4. CASE o.how = "ok"
    <3>1. Finished(o.got)
      <4>1. CASE Kind \in ByteStreams  BY <2>3, <2>4, <4>1, ReadOutcomesKeep DEF OneLine
      <4>2. CASE Kind \notin ByteStreams
        <5>1. o \in ReadUntil(Kind, <<>>, line) /\ line \in Seq(Bytes)
          BY <4>2, WhatWaits DEF ReadOutcomes, Unread
        <5> QED BY <2>3, <2>4, <4>2, <5>1, LineOfMessages
      <4> QED BY <4>1, <4>2
    <3>2. Full("line", o.got)  BY <3>1 DEF Full
    <3>3. /\ Unread # <<>>
          /\ Kind \notin ByteStreams => o.rbuf = <<>>
          /\ Cut(o.got, Remains(o), Unread)
      BY <2>3, <2>4, <3>2, WhatWaits, ReadTakes
    <3>4. Unread # Two
      <4>1. ~TakesDue(driver, todo)  BY WhatWaits DEF Reads
      <4> QED BY <1>4, <4>1, WhatWaits, ThreeStates
    <3>5. Unread = Reply  BY <1>4, <3>3, <3>4, WhatWaits
    <3>6. Remains(o) = <<>>  BY <3>1, <3>3, <3>5, CutReply
    <3> QED BY <2>1, <2>2, <3>3, <3>6, NothingHolds
  <2>5. CASE o.how # "ok"
    <3>1. awaited' = TRUE  BY <2>1, <2>5
    <3>2. Unread' = Unread /\ (Kind \notin ByteStreams /\ rbuf = <<>> => rbuf' = <<>>)
      <4>1. CASE Kind \in ByteStreams
        <5>1. /\ o.got = <<>> /\ o.rbuf \in Seq(Bytes) /\ o.line \in Seq(Bytes)
              /\ o.got \o (o.rbuf \o o.line) = rbuf \o line
          BY <2>5, <4>1, ReadOutcomesKeep DEF Keeps
        <5>2. o.rbuf \o o.line \in Seq(Bytes)  BY <5>1, ConcatProperties
        <5>3. o.rbuf \o o.line = rbuf \o line  BY <5>1, <5>2, NoBytes
        <5> QED BY <2>2, <4>1, <5>3 DEF Remains, Unread
      <4>2. CASE Kind \notin ByteStreams
        <5>1. o \in ReadUntil(Kind, <<>>, line) /\ line \in Seq(Bytes)
          BY <4>2, WhatWaits DEF ReadOutcomes, Unread
        <5>2. o.line = line /\ o.rbuf = <<>>  BY <2>5, <4>2, <5>1, LineOfMessages
        <5> QED BY <2>1, <2>2, <4>2, <5>2 DEF Remains, Unread
      <4> QED BY <4>1, <4>2
    <3>3. awaited' <=> awaited  BY <1>4, <3>1
    <3> QED BY <3>2, <3>3, QuietHolds DEF Reads
  <2> QED BY <2>4, <2>5
<1> QED BY <1>1, <1>2, <1>3, <1>4 DEF Poll

-----------------------------------------------------------------------------
(* All steps                                                               *)

(* The steps that empty the line, or try to.                               *)
LEMMA FreshHolds ==
  ASSUME StepsInv, WireInv, ProgramInv, ReplyInv, driver \notin LeavesReplies, ~Idle, Next,
         Step \in {"topen", "flush", "drain"}
  PROVE  ReplyHolds
<1>1. CASE rbuf' = <<>> /\ line' = <<>>  BY <1>1, EmptyHolds
<1>2. CASE ~clean'  BY <1>2 DEF ReplyHolds
<1>3. CASE rbuf' = rbuf /\ line' = line /\ (clean' => clean) /\ (awaited' <=> awaited)
  <2>1. Unread' = Unread  BY <1>3, UnreadAfter DEF Unread
  <2> QED BY <1>3, <2>1, QuietHolds DEF Reads
<1>4. CASE Step = "drain" /\ line # <<>> /\ clean
  <2>1. Unread # <<>>
    <3>1. CASE Kind \in ByteStreams
      <4>1. rbuf \in Seq(Bytes) /\ line \in Seq(Bytes)  BY <3>1 DEF WireInv, Wire
      <4>2. Len(rbuf \o line) = Len(rbuf) + Len(line)  BY <4>1, ConcatProperties
      <4>3. PICK m, n \in Nat : Len(rbuf) = m /\ Len(line) = n  BY <4>1, LenProperties
      <4>4. n # 0  BY <1>4, <4>1, <4>3, EmptySeq
      <4>5. Len(rbuf \o line) # 0  BY <4>2, <4>3, <4>4
      <4> QED BY <3>1, <4>5, EmptySeq DEF Unread
    <3> QED BY <1>4, <3>1 DEF Unread
  <2>2. CASE ~awaited  BY <1>4, <2>1, <2>2, WhatWaits DEF Reads, Lines
  <2>3. CASE awaited  BY <1>4, <2>3, WhatWaits DEF NotLines
  <2> QED BY <2>2, <2>3
<1>5. CASE clean' = (rbuf' = <<>> /\ line' = <<>>)
  <2>1. clean' => rbuf' = <<>> /\ line' = <<>>  BY <1>5, Zenon
  <2> QED BY <1>1, <1>2, <2>1
<1>6. CASE UNCHANGED <<rbuf, line, clean, awaited>>
  <2>1. rbuf' = rbuf /\ line' = line  BY <1>6
  <2>2. (clean' => clean) /\ (awaited' <=> awaited)  BY <1>6, Zenon
  <2> QED BY <1>3, <2>1, <2>2
<1>7. CASE Step = "topen"
  <2>1. OpenTransport  BY <1>7, ActionOfStep DEF Reads
  <2> QED BY <1>5, <1>6, <2>1 DEF OpenTransport, wireVars
<1>8. CASE Step = "flush"
  <2>1. Flush  BY <1>8, ActionOfStep DEF Reads
  <2> QED BY <1>5, <1>6, <2>1 DEF Flush, wireVars, modeVars
<1>9. CASE Step = "drain"
  <2>1. Drain  BY <1>9, ActionOfStep DEF Reads
  <2>2. awaited' = awaited  BY <2>1, Zenon DEF Drain, modeVars
  <2>3. CASE UNCHANGED wireVars  BY <1>6, <2>2, <2>3 DEF wireVars
  <2>4. CASE /\ UNCHANGED <<rbuf, line>> \/ line # <<>>
             /\ clean' = (clean \/ (rbuf' = <<>> /\ line' = <<>>))
    <3>1. ~clean' \/ clean \/ (rbuf' = <<>> /\ line' = <<>>)  BY <2>4, Zenon
    <3>2. CASE UNCHANGED <<rbuf, line>> /\ clean
      <4>1. (clean' => clean) /\ (awaited' <=> awaited)  BY <2>2, <3>2, Zenon
      <4> QED BY <1>3, <3>2, <4>1
    <3> QED BY <1>1, <1>2, <1>4, <1>9, <2>4, <3>1, <3>2
  <2> QED BY <2>1, <2>3, <2>4 DEF Drain
<1> QED BY <1>7, <1>8, <1>9

(* The others touch neither the line nor what is awaited.                  *)
LEMMA OtherHolds ==
  ASSUME StepsInv, ProgramInv, ReplyInv, driver \notin LeavesReplies, ~Idle, Next,
         Step \notin Reads \cup {"query", "reply", "poll", "topen", "flush", "drain"}
  PROVE  ReplyHolds
<1>1. rbuf' = rbuf /\ line' = line /\ clean' = clean
  BY ActionOfStep, Zenon
     DEF wireVars, CheckOpen, MarkOpen, MarkClosed, CloseTransport, Tell, Await, Check, Choose,
         Enter, Leave, Block
<1>2. Unread' = Unread /\ (clean' => clean)  BY <1>1, UnreadAfter DEF Unread
<1>3. (awaited' <=> awaited) \/ Step = "await"
  <2>1. Step # "await" => awaited' = awaited  BY AwaitedAfter
  <2> QED BY <2>1, Zenon
<1> QED BY <1>1, <1>2, <1>3, QuietHolds

LEMMA ReplyStep ==
  ASSUME StepsInv, WireInv, ProgramInv, ReplyInv, driver \notin LeavesReplies, ~Idle, Next
  PROVE  ReplyHolds
<1>1. CASE Step \in Reads  BY <1>1, ReadHolds
<1>2. CASE Step \in {"query", "reply"}  BY <1>2, QueryHolds
<1>3. CASE Step = "poll"  BY <1>3, PollHolds
<1>4. CASE Step \in {"topen", "flush", "drain"}  BY <1>4, FreshHolds
<1>5. CASE Step \notin Reads \cup {"query", "reply", "poll", "topen", "flush", "drain"}
  BY <1>5, OtherHolds
<1> QED BY <1>1, <1>2, <1>3, <1>4, <1>5

(* Between the calls only a reply that is awaited may wait.                *)
LEMMA ReplyCalls ==
  ASSUME StepsInv, ProgramInv, ReplyInv, driver \notin LeavesReplies, Next,
         NEW call, NEW p \in AllPrograms(driver), Start(call, p)
  PROVE  ReplyHolds
<1>1. /\ rbuf' = rbuf /\ line' = line /\ clean' = clean /\ awaited' = awaited
      /\ Idle
  BY Zenon DEF Start, wireVars
<1>2. Unread' = Unread  BY <1>1, UnreadAfter DEF Unread
<1>3. AnswersRead(driver, todo')  BY ProgramCalls
<1>4. todo' # <<"query">>  BY <1>3, OnlyAQuery
<1> SUFFICES ASSUME clean
             PROVE  /\ Kind \notin ByteStreams => rbuf' = <<>>
                    /\ IF awaited THEN WaitsFor(Unread', todo') ELSE Matches(Unread', todo')
  BY <1>1, Zenon DEF ReplyHolds
<1>5. /\ Kind \notin ByteStreams => rbuf' = <<>>
      /\ IF awaited THEN WaitsFor(Unread', todo) ELSE Matches(Unread', todo)
  BY <1>1, <1>2 DEF ReplyInv
<1>6. todo = <<>>  BY <1>1 DEF Idle
<1>7. ~TakesDue(driver, todo) /\ ~TakesTwo(todo)
  <2>1. Len(<<>>) = 0  BY EmptySeq
  <2>2. ~(0 > 1)  OBVIOUS
  <2>3. ~TakesTwo(todo)  BY <1>6, <2>1, <2>2 DEF TakesTwo
  <2> QED BY <1>6, <2>3 DEF TakesDue
<1>8. CASE awaited  BY <1>4, <1>5, <1>7, <1>8 DEF WaitsFor
<1>9. CASE ~awaited  BY <1>5, <1>6, <1>7, <1>9 DEF Matches
<1> QED BY <1>8, <1>9

(* Both parts of it, for any step.                                         *)
LEMMA SyncStep ==
  ASSUME StepsInv, WireInv, ProgramInv, ReplyInv, Next PROVE ProgramInv' /\ ReplyInv'
<1>1. driver' = driver /\ Kind' = Kind  BY UnreadAfter
<1> SUFFICES ASSUME driver \notin LeavesReplies PROVE ProgramHolds /\ ReplyHolds
  <2>1. ProgramHolds => ProgramInv'
    BY <1>1 DEF ProgramHolds, ProgramInv, AnswersRead, TakesDue, TakesReply, Awaits
  <2>2. ReplyHolds => ReplyInv'
    BY <1>1 DEF ReplyHolds, ReplyInv, WaitsFor, Matches, TakesDue, TakesReply
  <2>3. driver \in LeavesReplies => ProgramInv' /\ ReplyInv'
    BY <1>1 DEF ProgramInv, ReplyInv
  <2> QED BY <2>1, <2>2, <2>3
<1>2. CASE ~Idle  BY <1>2, ProgramStep, ReplyStep
<1>3. CASE Idle
  <2>1. \E call, p : p \in AllPrograms(driver) /\ Start(call, p)
    BY <1>3
       DEF Next, CallOpen, CallClose, CallMethod, AllPrograms,
           At, CheckOpen, MarkOpen, MarkClosed, OpenTransport, CloseTransport, Tell, Query,
           SecondReply, Await, Read, Poll, Flush, Drain, Check, Choose, Enter, Leave, Block
  <2> QED BY <2>1, ProgramCalls, ReplyCalls
<1> QED BY <1>2, <1>3

(* Every driver that reads what it asks for is in step with its instrument.*)
SyncInv == StepsInv /\ WireInv /\ ProgramInv /\ ReplyInv

LEMMA SyncInit == MCInit => ProgramInv /\ ReplyInv
<1> SUFFICES ASSUME MCInit PROVE ProgramInv /\ ReplyInv  OBVIOUS
<1>1. /\ driver \in DOMAIN Table /\ todo = <<>> /\ handler = NoExcept
      /\ rbuf = <<>> /\ line = <<>> /\ awaited = FALSE
  BY DEF MCInit, Init
<1>2. handler.steps = <<>>  BY <1>1 DEF NoExcept, Except
<1>3. ProgramInv
  BY <1>1, <1>2, NoAnswers, NoSteps DEF ProgramInv
<1>4. Unread = <<>>
  <2>1. <<>> \o <<>> = <<>>  BY NoBytes
  <2> QED BY <1>1, <2>1 DEF Unread
<1>5. ReplyInv  BY <1>1, <1>4 DEF ReplyInv, Matches
<1> QED BY <1>3, <1>5

LEMMA SyncUnchanged ==
  ASSUME ProgramInv, ReplyInv, UNCHANGED vars PROVE ProgramInv' /\ ReplyInv'
<1>1. /\ driver' = driver /\ todo' = todo /\ handler' = handler
      /\ rbuf' = rbuf /\ line' = line /\ clean' = clean /\ awaited' = awaited
  BY DEF vars, openVars, wireVars, callVars, modeVars
<1>2. ProgramInv'  BY <1>1 DEF ProgramInv, AnswersRead, TakesDue, TakesReply, Awaits
<1>3. ReplyInv'
  BY <1>1 DEF ReplyInv, Unread, Kind, WaitsFor, Matches, TakesDue, TakesReply
<1> QED BY <1>2, <1>3

LEMMA SyncInvariant == MCSpec => []SyncInv
<1>1. MCInit => ProgramInv /\ ReplyInv  BY SyncInit
<1>2. StepsInv /\ WireInv /\ (ProgramInv /\ ReplyInv) /\ [MCNext]_allVars
      => (ProgramInv /\ ReplyInv)'
  BY SyncUnchanged, SyncStep DEF MCNext, allVars
<1>3. DriverInv => StepsInv  BY DEF DriverInv
<1>4. StepsInv /\ WireInv /\ (ProgramInv /\ ReplyInv) <=> SyncInv  BY DEF SyncInv
<1> QED BY <1>1, <1>2, <1>3, <1>4, DriverInvariant, WireInvariant, PTL DEF MCSpec

LEMMA SyncIsIn == SyncInv => InSync
<1> SUFFICES ASSUME SyncInv, Idle, clean, ~awaited, driver \notin LeavesReplies
             PROVE  rbuf = <<>> /\ line = <<>>
  BY DEF InSync
<1>1. todo = <<>>  BY DEF Idle
<1>2. Matches(Unread, todo) /\ (Kind \notin ByteStreams => rbuf = <<>>)
  BY DEF SyncInv, ReplyInv
<1>3. ~TakesDue(driver, todo) /\ ~TakesTwo(todo)
  <2>1. Len(<<>>) = 0  BY EmptySeq
  <2>2. ~(0 > 1)  OBVIOUS
  <2>3. ~TakesTwo(todo)  BY <1>1, <2>1, <2>2 DEF TakesTwo
  <2> QED BY <1>1, <2>3 DEF TakesDue
<1>4. Unread = <<>>  BY <1>1, <1>2, <1>3 DEF Matches
<1>5. CASE Kind \in ByteStreams
  <2>1. rbuf \in Seq(Bytes) /\ line \in Seq(Bytes)  BY <1>5 DEF SyncInv, WireInv, Wire
  <2>2. Cut(rbuf, line, <<>>)  BY <1>4, <1>5, <2>1 DEF Cut, Unread
  <2> QED BY <2>2, CutNothing
<1>6. CASE Kind \notin ByteStreams  BY <1>2, <1>4, <1>6 DEF Unread
<1> QED BY <1>5, <1>6

(* Between calls nothing waits that was asked for, also when a call raised *)
(* halfway, unless a reply was lost or late: for any drivers whose methods *)
(* keep to ReplyRule.                                                      *)
THEOREM ReadsWhatItAsks == MCSpec => []InSync
<1> QED BY SyncIsIn, SyncInvariant, PTL
=============================================================================
