\* Two clients, two receivers with a queue of one signal each; and loops with
\* periods of 2 to 4 units, whose iterations may overrun by several periods.
SPECIFICATION MCSpec
CONSTANTS
  Client = {c1, c2}
  Receiver = {r1, r2}
  NoOne = NoOne
  MaxQueue = 1
  DiscardNew = FALSE
  MaxCalls = 3
  Period = {2, 3, 4}
  Jitter = 1
  MaxTime = 16
INVARIANTS NoLostStop NoLostSignal AssertionsHold SettingsKept RemovedTaskHasEnded PhaseIsKept
PROPERTIES StopEndsTask RemovalCompletes StartsInTime NoBurst
CHECK_DEADLOCK FALSE
