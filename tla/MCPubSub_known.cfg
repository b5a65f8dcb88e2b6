SPECIFICATION Spec
CONSTANTS
  r1 = r1
  r2 = r2
  l1 = l1
  Receiver <- MCReceiver
  LocalReceiver = {}
  MaxPeers = 1
  MaxCalls = 2
  MaxMakes = 1
  MaxSignals = 0
INVARIANTS
  SubscribersAreKnown
CHECK_DEADLOCK FALSE
