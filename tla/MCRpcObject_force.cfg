SPECIFICATION FairSpec
CONSTANTS
  Proxy = {a, b}
  Remote = {}
  MaxCalls = 2
  MaxFree = 2
  CustomToken = {}
  Use = {"ACQUIRE", "FORCE_RELEASE"}
  Removable = FALSE
  NoToken = NoToken
  Denied = Denied
  Locked = Locked
PROPERTIES
  ForceUnlockReturns
CHECK_DEADLOCK FALSE
