---------------------------- MODULE MCInstrument ----------------------------
EXTENDS DriverRules, DriversScpi, DriversSerial, DriversMotion, EventFetcher

CONSTANTS MaxAnswers, \* bound: answers of the cryostat on the way at a time
          DataSets,   \* the data sets of the recorder
          MaxCalls    \* bound: its calls of record() and set_attribute()

Drivers == DriversScpiTable @@ DriversSerialTable @@ DriversMotionTable

(* open() does steps after the transport is open outside a try block, or   *)
(* marks the instrument open first; the last two use no transport at all.  *)
FailsHalfway ==
  {"DG4102", "SDS1202XE", "SSA3000X", "TSL570", "Cobolt", "AG_UC8", "E873",
   "K10CR1", "K10CR2", "MFF10X", "TLB670x", "SIM922", "CryostationS50"}

(* close() closes the transport before it marks the instrument closed.     *)
TransportFirst ==
  {"DG4102", "TFN", "TIC", "Maestro", "CPSC", "SingleAxis", "SMC100CC",
   "SMC100PP", "AG_UC8", "TLB670x", "SIM922", "CryostationS50"}

(* A reply that fails a check halfway, a second query nobody reads, the    *)
(* messages APT controllers send by themselves, a late welcome message.    *)
Talkative ==
  {"SMBV100A", "SDS1202XE", "SSA3000X", "K10CR1", "K10CR2", "KDC101",
   "MPC320", "MFF10X"}

-----------------------------------------------------------------------------
(* The threads that work for instruments.  A run has one part: the calls   *)
(* of a driver, the platform heater of the Cryostation, the events of a    *)
(* time tagger (EventFetcher), or the recorder its events are written with. *)
VARIABLES part,
  (* PlatformHeater *)
  opened, heaterOn, timer, rpc, turnOff, talking, done, answers, heater, wanted, doomed, misled,
  (* HDF5Recorder *)
  recordings, attributes, writer, taken, newAttributes, pendingAttributes, quitflag, left,
  shutdown, file, fileAttributes, recorded, lastSet, calls

Heater == INSTANCE PlatformHeater

(* The filters that look at the window; events on one channel and SYNCs.   *)
TaggerFilters ==
  {f \in [Types -> {"all", "aperture"}] : \E c \in Types : f[c] = "aperture"}

Recorder == INSTANCE HDF5Recorder

heaterVars == <<opened, heaterOn, timer, rpc, turnOff, talking, done, answers, heater, wanted,
                doomed, misled>>
recorderVars == <<recordings, attributes, writer, taken, newAttributes, pendingAttributes,
                  quitflag, left, shutdown, file, fileAttributes, recorded, lastSet, calls>>
allVars == <<part, vars, heaterVars, fetcherVars, recorderVars>>

MCInit ==
  /\ Init /\ Heater!Init /\ FetcherInit /\ Recorder!Init
  /\ part \in {"driver", "heater", "fetcher", "recorder"}
  /\ part # "driver" => driver = "Cryostation"
  /\ part # "fetcher" => mode = [c \in Types |-> "aperture"]

MCNext ==
  \/ part = "driver" /\ Next /\ UNCHANGED <<part, heaterVars, fetcherVars, recorderVars>>
  \/ part = "heater" /\ Heater!Next /\ UNCHANGED <<part, vars, fetcherVars, recorderVars>>
  \/ part = "fetcher" /\ FetcherNext /\ UNCHANGED <<part, vars, heaterVars, recorderVars>>
  \/ part = "recorder" /\ Recorder!Next /\ UNCHANGED <<part, vars, heaterVars, fetcherVars>>

(* The threads of the heater are fair; the users of a driver owe nothing.  *)
MCSpec == MCInit /\ [][MCNext]_allVars /\ Heater!Fairness

(* The heater is on only while the instrument is open, and above the safe  *)
(* level only while something is about to end it (_platform_heater_timer   *)
(* and _turn_off_platform_heater of the Montana Cryostation), unless the   *)
(* driver has given up or was misled by a late answer.                     *)
HeaterIsWatched == Heater!HeaterIsWatched

(* A burst that nothing will end is one that the driver has given up on,   *)
(* also when answers are late (discard_read in _execute_command of the     *)
(* Montana Cryostation).                                                   *)
NoBurstForgotten == Heater!NoBurstForgotten

(* A power that set_platform_heater_power() has set for good stays until   *)
(* the next call that sets it (_cancel_platform_heater_timer waits for the *)
(* timer of an earlier burst), unless it was misled by a late answer.      *)
SettingStands == Heater!SettingStands

(* A burst of heating power ends without another call, unless the driver   *)
(* gives up or is misled (set_platform_heater_power_burst and its timer).  *)
BurstEnds == Heater!BurstEnds

(* What is recorded while the writer writes, or just before close(), is    *)
(* neither lost nor doubled nor out of order (_HDF5RecorderThread.run).    *)
RecorderLosesNothing == Recorder!RecorderLosesNothing
=============================================================================
