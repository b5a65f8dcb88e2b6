---------------------------- MODULE HDF5Recorder ----------------------------
(***************************************************************************)
(* qmi/data/hdf5recorder.py: record() and set_attribute() leave data and   *)
(* attributes in buffers, which a writer thread swaps for empty ones under *)
(* a lock and writes to the file without it.  Attributes of a data set     *)
(* that does not exist yet wait until its first data.                      *)
(* A datum is the number of the call that recorded it; a data set has one  *)
(* attribute, and 0 says that it has not been set.  One thread records     *)
(* and closes.  Opening, writing and closing the file do not fail.         *)
(***************************************************************************)
EXTENDS Integers, Sequences, SequencesExt

CONSTANTS DataSets,
          MaxCalls  \* bound: calls of record() and set_attribute()

Root == "HDF5_ROOT"
Owners == DataSets \cup {Root}

VARIABLES
  recordings,    \* _recordings, shared with the callers
  attributes,    \* _attributes, shared with the callers
  writer,        \* "waiting", "writing", "ended" or "died"
  taken,         \* the writer's recordings
  newAttributes,
  pendingAttributes,
  quitflag,
  left,          \* data sets of taken that are still to be written
  shutdown,      \* _shutdown_requested
  file,          \* the contents of the data sets, <<>> while one does not exist
  fileAttributes,
  recorded,      \* everything record() was given
  lastSet,       \* the last value set_attribute() was given
  calls

sharedVars == <<recordings, attributes>>
fileVars == <<file, fileAttributes>>
writerVars == <<writer, taken, newAttributes, pendingAttributes, quitflag, left>>
ghostVars == <<recorded, lastSet, calls>>
recorderVars == <<sharedVars, writerVars, shutdown, fileVars, ghostVars>>

NoData == [d \in DataSets |-> <<>>]
NoAttributes == [d \in Owners |-> 0]
Exists(d) == d = Root \/ file[d] # <<>>

\* The attributes of s, and those of t where it has one (dict.update)
Updated(s, t) == [d \in Owners |-> IF t[d] # 0 THEN t[d] ELSE s[d]]

Init ==
  /\ recordings = NoData /\ attributes = NoAttributes
  /\ writer = "waiting" /\ taken = NoData /\ left = {} /\ quitflag = FALSE
  /\ newAttributes = NoAttributes /\ pendingAttributes = NoAttributes
  /\ shutdown = FALSE
  /\ file = NoData /\ fileAttributes = NoAttributes
  /\ recorded = NoData /\ lastSet = NoAttributes /\ calls = 0

-----------------------------------------------------------------------------
(* The callers                                                             *)

Record(d) ==
  /\ ~shutdown /\ calls < MaxCalls /\ calls' = calls + 1
  /\ recordings' = [recordings EXCEPT ![d] = Append(@, calls')]
  /\ recorded' = [recorded EXCEPT ![d] = Append(@, calls')]
  /\ UNCHANGED <<attributes, writerVars, shutdown, fileVars, lastSet>>

SetAttribute(d) ==
  /\ ~shutdown /\ calls < MaxCalls /\ calls' = calls + 1
  /\ attributes' = [attributes EXCEPT ![d] = calls']
  /\ lastSet' = [lastSet EXCEPT ![d] = calls']
  /\ UNCHANGED <<recordings, writerVars, shutdown, fileVars, recorded>>

Close ==
  /\ ~shutdown /\ shutdown' = TRUE
  /\ UNCHANGED <<sharedVars, writerVars, fileVars, ghostVars>>

-----------------------------------------------------------------------------
(* The writer                                                              *)

(* The wait ends after write_interval or when close() notifies, but        *)
(* attributes alone do not end it.                                         *)
Swap ==
  /\ writer = "waiting" /\ writer' = "writing"
  /\ shutdown \/ recordings # NoData
  /\ taken' = recordings /\ recordings' = taken
  /\ newAttributes' = attributes /\ attributes' = newAttributes
  /\ quitflag' = shutdown
  /\ left' = {d \in DataSets : recordings[d] # <<>>}
  /\ UNCHANGED <<pendingAttributes, shutdown, fileVars, ghostVars>>

AttributesOfDataSet(d) ==
  Updated(Updated(fileAttributes, pendingAttributes), newAttributes)[d]

WriteDataSet(d) ==
  /\ writer = "writing" /\ d \in left
  /\ left' = left \ {d}
  /\ file' = [file EXCEPT ![d] = @ \o taken[d]]
  /\ fileAttributes' = [fileAttributes EXCEPT ![d] = AttributesOfDataSet(d)]
  /\ pendingAttributes' = [pendingAttributes EXCEPT ![d] = 0]
  /\ newAttributes' = [newAttributes EXCEPT ![d] = 0]
  /\ UNCHANGED <<sharedVars, writer, taken, quitflag, shutdown, ghostVars>>

(* Arrays of different shapes cannot be joined: the exception ends the     *)
(* thread, and no call tells of it.                                        *)
WriteFails ==
  /\ writer = "writing" /\ left # {}
  /\ writer' = "died"
  /\ UNCHANGED <<sharedVars, taken, newAttributes, pendingAttributes, quitflag, left, shutdown,
                 fileVars, ghostVars>>

\* Mutant of Quits: the loop looks at the request again, not at what it was at the swap.
Quits_Late == shutdown

Quits == quitflag

(* The attributes that came without data, and the end of the round         *)
FinishWriting ==
  /\ writer = "writing" /\ left = {}
  /\ pendingAttributes' =
       [d \in Owners |-> IF Exists(d) THEN pendingAttributes[d]
                                      ELSE Updated(pendingAttributes, newAttributes)[d]]
  /\ fileAttributes' =
       [d \in Owners |-> IF Exists(d) THEN Updated(fileAttributes, newAttributes)[d]
                                      ELSE fileAttributes[d]]
  /\ newAttributes' = NoAttributes /\ taken' = NoData
  /\ writer' = IF Quits THEN "ended" ELSE "waiting"
  /\ UNCHANGED <<sharedVars, quitflag, left, shutdown, file, ghostVars>>

-----------------------------------------------------------------------------
Next ==
  \/ \E d \in DataSets : Record(d) \/ WriteDataSet(d)
  \/ \E d \in Owners : SetAttribute(d)
  \/ Close \/ Swap \/ WriteFails \/ FinishWriting

Spec == Init /\ [][Next]_recorderVars

-----------------------------------------------------------------------------
(* The file, what the writer has still to write and what it has not taken  *)
(* yet are together what was recorded, each datum once and in order.       *)
DataIsKept ==
  \A d \in DataSets :
    recorded[d] = file[d] \o (IF d \in left THEN taken[d] ELSE <<>>) \o recordings[d]

(* The last value of an attribute is the one that will stand in the file.  *)
AttributesAreKept ==
  Updated(Updated(Updated(fileAttributes, pendingAttributes), newAttributes), attributes) = lastSet

(* After close() everything is in the file, unless the writing failed;     *)
(* only "if the dataset is never created, pending attribute values are     *)
(* lost when the HDF5Recorder is closed" (set_attribute of HDF5Recorder).  *)
ClosedIsComplete ==
  writer = "ended" =>
    /\ file = recorded
    /\ \A d \in Owners : Exists(d) => fileAttributes[d] = lastSet[d]

(* Nothing that is recorded while the writer writes, or just before        *)
(* close(), is lost, doubled or out of order (run() of                     *)
(* _HDF5RecorderThread).                                                   *)
RecorderLosesNothing == DataIsKept /\ AttributesAreKept /\ ClosedIsComplete
=============================================================================
