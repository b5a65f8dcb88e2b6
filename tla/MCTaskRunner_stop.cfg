\* Two clients, two receivers with a queue of one signal each; no time for loops.
SPECIFICATION MCSpec
CONSTANTS
  Client = {c1, c2}
  Receiver = {r1, r2}
  NoOne = NoOne
  MaxQueue = 1
  DiscardNew = FALSE
  MaxCalls = 3
  Period = {2}
  Jitter = 1
  MaxTime = 0
PROPERTY StopReturns
CHECK_DEADLOCK FALSE
