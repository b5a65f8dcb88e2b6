SPECIFICATION FairSpec
CONSTANTS
  Proxy = {a, b}
  Remote = {b}
  MaxCalls = 3
  MaxFree = 2
  CustomToken = {x}
  Use = {"METHOD", "ACQUIRE", "RELEASE", "FORCE_RELEASE", "QUERY"}
  Removable = TRUE
  NoToken = NoToken
  Denied = Denied
  Locked = Locked
INVARIANTS
  OwnerHoldsLock
  NoRequestLost
  LockHasOwner
PROPERTIES
  ExclusiveAccess
  FirstResultIsFinal
  ProgramOrder
  ImplementsLockService
  EveryCallAnswered
  RemovalCompletes
CHECK_DEADLOCK FALSE
