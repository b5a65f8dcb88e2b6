\* A late answer of the cryostat taken for that of a later command.
SPECIFICATION MCSpec
CONSTANTS
  Table <- Drivers
  HalfOpen <- FailsHalfway
  Unclosable <- TransportFirst
  LeavesReplies <- Talkative
  MaxLine = 6
  Channels = {"a"}
  Filters <- TaggerFilters
  DeltaMin = 1
  DeltaMax = 2
  MaxPending = 3
  MaxPerCall = 2
  MaxEvents = 0
  MaxStarts = 2
  MaxAnswers = 2
  DataSets = {"x0", "x1"}
  MaxCalls = 0
INVARIANT NoBurstForgotten
CHECK_DEADLOCK FALSE
