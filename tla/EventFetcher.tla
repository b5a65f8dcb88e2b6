---------------------------- MODULE EventFetcher ----------------------------
(***************************************************************************)
(* Events of a PicoQuant time tagger (qmi/instruments/picoquant): a thread *)
(* reads them from the FIFO of the device in batches of any size, passes   *)
(* them through a filter and keeps them until the RPC thread takes some.   *)
(* Both work under one lock (_condition), so each of their steps is        *)
(* atomic; what must not show is where the batches begin and end.          *)
(* The filter keeps events on a channel, drops them, or keeps those in a   *)
(* window after the last SYNC; of the SYNCs it can keep those that an      *)
(* event follows, and whether one does may be told by a later batch only.  *)
(***************************************************************************)
EXTENDS Integers, Sequences, SequencesExt

CONSTANTS Channels,    \* channels other than SYNC
          Filters,     \* the settings of the filter: functions from Types to modes
          DeltaMin,    \* sync_aperture: the window after a SYNC
          DeltaMax,
          MaxPending,  \* _max_pending_events
          MaxPerCall,  \* MAX_EVENTS_PER_CALL
          MaxEvents,   \* bound: events the filter and the device see
          MaxStarts    \* bound: measurements

Sync == "sync"
Types == Channels \cup {Sync}
Never == -1

(* set_event_filter() admits these modes only, and counts are counts.      *)
ASSUME FilterAssumption == Filters \subseteq [Types -> {"none", "all", "aperture"}]
ASSUME BoundAssumption == MaxEvents \in Nat

VARIABLES
  measuring, \* the device produces events
  clock,     \* the time of its last event, from 0 in every measurement
  fifo,      \* events it has produced that are not read yet
  starts,    \* measurements begun
  running,   \* _measurement_running
  tagger,    \* the call in the RPC thread: "idle", "starting" or "stopping"
  alive,     \* the fetching thread runs
  active,    \* _active
  blocked,   \* _block_events
  mode,      \* _channel_filter_map
  previous,  \* _previous_sync_timestamp
  reported,  \* _previous_sync_reported
  data,      \* _data: the batches that passed the filter
  number,    \* _num_pending_events
  overflow,  \* _pending_events_overflow
  stream,    \* everything the filter was given
  breaks,    \* how much of it there was each time events were missed
  since,     \* events that had passed the filter at the last fresh start
  returned   \* events returned since then

deviceVars == <<measuring, clock, fifo>>
taggerVars == <<starts, running, tagger>>
threadVars == <<alive, active>>
filterVars == <<mode, previous, reported, stream>>
dataVars == <<data, number, overflow>>
historyVars == <<breaks, since, returned>>
fetcherVars == <<deviceVars, taggerVars, threadVars, blocked, filterVars, dataVars, historyVars>>

FetcherInit ==
  /\ measuring = FALSE /\ clock = 0 /\ fifo = <<>>
  /\ starts = 0 /\ running = FALSE /\ tagger = "idle"
  /\ alive = TRUE /\ active = FALSE /\ blocked = FALSE
  /\ mode \in Filters /\ previous = Never /\ reported = FALSE
  /\ data = <<>> /\ number = 0 /\ overflow = FALSE
  /\ stream = <<>> /\ breaks = {} /\ since = 0 /\ returned = <<>>

-----------------------------------------------------------------------------
(* The filter                                                              *)

InWindow(delta) == DeltaMin <= delta /\ delta <= DeltaMax

(* The events of s at these places, in their order. *)
Nth(places, n) == CHOOSE i \in {p \in places : Cardinality({j \in places : j <= p}) = n} : TRUE
Picked(s, places) == [n \in 1 .. Cardinality(places) |-> s[Nth(places, n)]]

(* The place of the last SYNC among the first i events, if there is one. *)
LastSync(s, i) == {j \in 1 .. i : s[j].type = Sync /\ \A k \in (j + 1) .. i : s[k].type # Sync}

(* set_event_filter() for an event that is not a SYNC. *)
Admitted(s, i) ==
  \/ mode[s[i].type] = "all"
  \/ /\ mode[s[i].type] = "aperture"
     /\ \E j \in LastSync(s, i) : InWindow(s[i].time - s[j].time)

(* The last SYNC comes first again, so that the window is measured from it *)
(* and it can be reported if it has not been.                              *)
Reinserted == (\E c \in Types : mode[c] = "aperture") /\ previous # Never
Presented(batch) ==
  IF Reinserted THEN <<[type |-> Sync, time |-> previous]>> \o batch ELSE batch

(* SYNCs whose mode is "aperture" are all selected, for the time being. *)
Chosen(s) ==
  {i \in 1 .. Len(s) :
     /\ ~(Reinserted /\ reported /\ i = 1)
     /\ Admitted(s, i) \/ (s[i].type = Sync /\ mode[Sync] = "aperture")}
Selected(batch) == Picked(Presented(batch), Chosen(Presented(batch)))

(* A SYNC that no event follows is dropped, the last one for the time being. *)
Followed(s) ==
  Picked(s, {i \in 1 .. Len(s) : s[i].type # Sync \/ (i < Len(s) /\ s[i + 1].type # Sync)})

\* Mutant of Withheld: a SYNC at the end of a batch is dropped for good.
Withheld_Never(selected) == FALSE

Withheld(selected) ==
  mode[Sync] = "aperture" /\ selected # <<>> /\ Last(selected).type = Sync

(* process_events *)
Passed(batch) == IF mode[Sync] = "aperture" THEN Followed(Selected(batch)) ELSE Selected(batch)

Remember(batch) ==
  LET sync == LastSync(batch, Len(batch)) IN
  /\ previous' = IF sync = {} THEN previous ELSE batch[CHOOSE i \in sync : TRUE].time
  /\ reported' = (~Withheld(Selected(batch)) /\ (reported \/ Reinserted \/ sync # {}))
  /\ stream' = stream \o batch
  /\ UNCHANGED mode

(* What passes of all the events together by the rule that                 *)
(* process_events() states: "reject SYNC events unless they are followed   *)
(* by a non-SYNC event", one that passes.  The documentation of            *)
(* set_event_filter() has "either preceded or followed", which the code    *)
(* does not do (README, section 6): nothing here says that it does.        *)
EventPasses(s, i) == s[i].type # Sync /\ Admitted(s, i)
SyncPasses(s, i) ==
  /\ s[i].type = Sync
  /\ \/ mode[Sync] = "all"
     \/ /\ mode[Sync] = "aperture"
        /\ \E k \in (i + 1) .. Len(s) :
             EventPasses(s, k) /\ \A j \in (i + 1) .. k : s[j].type # Sync
Due(s) == {i \in 1 .. Len(s) : EventPasses(s, i) \/ SyncPasses(s, i)}
Wanted(s) == Picked(s, Due(s))

(* process_events() wants "a single TTTR event stream, processed in order, *)
(* without missing events".  The thread gives it the next measurement, and *)
(* what comes after events were blocked, as if nothing were missing: what  *)
(* passes only for a SYNC or an event beyond such a break is a stray.      *)
Stretch(s, i) == {j \in 1 .. Len(s) : \A b \in breaks : j <= b <=> i <= b}
Rightful(s) ==
  {i \in Due(s) : Cardinality({j \in Stretch(s, i) : j <= i}) \in Due(Picked(s, Stretch(s, i)))}

-----------------------------------------------------------------------------
(* The device                                                              *)

ProduceEvent ==
  /\ measuring /\ clock < MaxEvents /\ Len(stream) + Len(fifo) < MaxEvents
  /\ clock' = clock + 1
  /\ \E c \in Types : fifo' = Append(fifo, [type |-> c, time |-> clock'])
  /\ UNCHANGED <<measuring, taggerVars, threadVars, blocked, filterVars, dataVars, historyVars>>

-----------------------------------------------------------------------------
(* The fetching thread                                                     *)

Store(events) ==
  IF number + Len(events) > MaxPending
    THEN overflow' = (overflow \/ events # <<>>) /\ UNCHANGED <<data, number>>
    ELSE /\ data' = IF events = <<>> THEN data ELSE Append(data, events)
         /\ number' = number + Len(events)
         /\ UNCHANGED overflow

(* The first n events are read from the FIFO.  The filter is not given     *)
(* those that come while they are blocked.                                 *)
Fetch ==
  /\ alive /\ active
  /\ \E n \in 1 .. Len(fifo) :
       /\ fifo' = SubSeq(fifo, n + 1, Len(fifo))
       /\ IF blocked
            THEN breaks' = breaks \cup {Len(stream)} /\ UNCHANGED <<filterVars, dataVars>>
            ELSE /\ Store(Passed(SubSeq(fifo, 1, n))) /\ Remember(SubSeq(fifo, 1, n))
                 /\ UNCHANGED breaks
  /\ UNCHANGED <<measuring, clock, taggerVars, threadVars, blocked, since, returned>>

(* An error of the library ends the thread; no one is told.                *)
FetchFails ==
  /\ alive /\ active
  /\ alive' = FALSE
  /\ UNCHANGED <<deviceVars, taggerVars, active, blocked, filterVars, dataVars, historyVars>>

-----------------------------------------------------------------------------
(* The RPC thread                                                          *)

(* From here on the caller is owed what passes the filter next. *)
FreshStart ==
  /\ data' = <<>> /\ number' = 0 /\ overflow' = FALSE
  /\ since' = Len(Wanted(stream)) /\ returned' = <<>>

(* start_measurement() starts the device, and then the thread. *)
StartMeasurement ==
  /\ tagger = "idle" /\ ~running /\ starts < MaxStarts
  /\ measuring' = TRUE /\ clock' = 0 /\ fifo' = <<>>
  /\ starts' = starts + 1 /\ running' = TRUE /\ tagger' = "starting"
  /\ breaks' = breaks \cup {Len(stream)}
  /\ UNCHANGED <<threadVars, blocked, filterVars, dataVars, since, returned>>

(* The filter goes on as it was at the end of the previous measurement.    *)
Activate ==
  /\ tagger = "starting" /\ tagger' = "idle"
  /\ active' = TRUE
  /\ FreshStart
  /\ UNCHANGED <<deviceVars, starts, running, alive, blocked, filterVars, breaks>>

StopMeasurement ==
  /\ tagger = "idle" /\ running
  /\ measuring' = FALSE /\ tagger' = "stopping"
  /\ UNCHANGED <<clock, fifo, starts, running, threadVars, blocked, filterVars, dataVars,
                 historyVars>>

Deactivate ==
  /\ tagger = "stopping" /\ tagger' = "idle"
  /\ active' = FALSE /\ running' = FALSE
  /\ UNCHANGED <<deviceVars, starts, alive, blocked, filterVars, dataVars, historyVars>>

SetBlockEvents ==
  /\ tagger = "idle"
  /\ blocked' = ~blocked
  /\ UNCHANGED <<deviceVars, taggerVars, threadVars, filterVars, dataVars, historyVars>>

(* get_events(): an overflow is reported, and everything pending dropped.  *)
ReportOverflow ==
  /\ tagger = "idle" /\ overflow
  /\ FreshStart
  /\ UNCHANGED <<deviceVars, taggerVars, threadVars, blocked, filterVars, breaks>>

GetAllEvents ==
  /\ tagger = "idle" /\ ~overflow /\ number \in 1 .. MaxPerCall
  /\ returned' = returned \o FlattenSeq(data)
  /\ data' = <<>> /\ number' = 0
  /\ UNCHANGED <<deviceVars, taggerVars, threadVars, blocked, filterVars, overflow, breaks, since>>

(* The batches that fit, and the beginning of the next one *)
GetSomeEvents ==
  /\ tagger = "idle" /\ ~overflow /\ number > MaxPerCall
  /\ \E split \in 1 .. Len(data) :
       LET room == MaxPerCall - Len(FlattenSeq(SubSeq(data, 1, split - 1))) IN
       /\ room \in 0 .. (Len(data[split]) - 1)
       /\ returned' = returned \o FlattenSeq(SubSeq(data, 1, split - 1)) \o SubSeq(data[split], 1, room)
       /\ data' = <<SubSeq(data[split], room + 1, Len(data[split]))>> \o SubSeq(data, split + 1, Len(data))
  /\ number' = number - MaxPerCall
  /\ UNCHANGED <<deviceVars, taggerVars, threadVars, blocked, filterVars, overflow, breaks, since>>

-----------------------------------------------------------------------------
FetcherNext ==
  \/ ProduceEvent \/ Fetch \/ FetchFails
  \/ StartMeasurement \/ Activate \/ StopMeasurement \/ Deactivate
  \/ SetBlockEvents \/ ReportOverflow \/ GetAllEvents \/ GetSomeEvents

FetcherSpec == FetcherInit /\ [][FetcherNext]_fetcherVars

-----------------------------------------------------------------------------
Events == [type : Types, time : 1 .. MaxEvents]
FetcherTypeOK ==
  /\ measuring \in BOOLEAN
  /\ starts \in 0 .. MaxStarts /\ running \in BOOLEAN /\ tagger \in {"idle", "starting", "stopping"}
  /\ alive \in BOOLEAN /\ active \in BOOLEAN /\ blocked \in BOOLEAN
  /\ clock \in 0 .. MaxEvents /\ fifo \in Seq(Events) /\ stream \in Seq(Events)
  /\ mode \in [Types -> {"none", "all", "aperture"}]
  /\ previous \in {Never} \cup 1 .. MaxEvents /\ reported \in BOOLEAN
  /\ data \in Seq(Seq(Events)) /\ number \in 0 .. MaxPending /\ overflow \in BOOLEAN
  /\ since \in Nat /\ returned \in Seq(Events)

(* However the events are cut into batches, by the thread when it fetches  *)
(* them and by get_events() when it returns them, the caller gets exactly  *)
(* those that pass by the rule of process_events(), each once and in order *)
(* (or an exception that tells that some were lost), provided that nothing *)
(* is missing between an event and what it passes for.  Of the strays the  *)
(* caller may get any: the code does return them, where what it asks of    *)
(* its caller is not kept and nothing says what is right.                  *)
EventsAreExact ==
  LET due == SubSeq(Wanted(stream), since + 1, Len(Wanted(stream)))
      strays == {n \in 1 .. Len(due) : Nth(Due(stream), since + n) \notin Rightful(stream)}
  IN \E left \in SUBSET strays :
       LET owed == Picked(due, (1 .. Len(due)) \ left) IN
       IF overflow THEN IsPrefix(returned, owed) ELSE returned \o FlattenSeq(data) = owed
=============================================================================
