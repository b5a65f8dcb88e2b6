SPECIFICATION Spec
CONSTANTS
  r1 = r1
  r2 = r2
  l1 = l1
  Receiver <- MCReceiver
  LocalReceiver <- MCLocalReceiver
  MaxPeers = 1
  MaxCalls = 3
  MaxMakes = 2
  MaxSignals = 2
INVARIANTS
  SubscriptionsAgree
  NoStaleSubscription
PROPERTIES
  NoGap
CHECK_DEADLOCK FALSE
