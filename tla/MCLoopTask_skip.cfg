\* Policy SKIP against its documentation.
SPECIFICATION LoopSpec
CONSTANTS
  Period = {3}
  Jitter = 1
  MaxTime = 12
PROPERTY SkipWaitsForPeriod
CHECK_DEADLOCK FALSE
