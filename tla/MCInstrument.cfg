SPECIFICATION MCSpec
CONSTANTS
  Table <- Drivers
  HalfOpen <- FailsHalfway
  Unclosable <- TransportFirst
  LeavesReplies <- Talkative
  MaxLine = 6
  Channels = {"a"}
  Filters <- TaggerFilters
  DeltaMin = 1
  DeltaMax = 2
  MaxPending = 3
  MaxPerCall = 2
  MaxEvents = 4
  MaxStarts = 2
  MaxAnswers = 2
  DataSets = {"x0", "x1"}
  MaxCalls = 4
INVARIANTS
  OpenIsAllOrNothing
  CloseReleases
  InSync
  ConfigurationIsLeft
  HeaterIsWatched
  SettingStands
  EventsAreExact
  RecorderLosesNothing
PROPERTIES
  FailedReadKeepsBytes
  BurstEnds
CHECK_DEADLOCK FALSE
