SPECIFICATION FairSpec
CONSTANTS
  r1 = r1
  r2 = r2
  l1 = l1
  Receiver <- MCReceiver
  LocalReceiver = {}
  MaxPeers = 2
  MaxCalls = 3
  MaxMakes = 1
  MaxSignals = 0
INVARIANTS
  AnswersAreExpected
PROPERTIES
  SubscribeReturns
CHECK_DEADLOCK FALSE
