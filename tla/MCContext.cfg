SPECIFICATION FairSpec
CONSTANTS
  main = main
  t1 = t1
  t2 = t2
  a = a
  b = b
  Threads <- MCThreads
  Main = main
  Names <- MCNames
  MaxManagers = 4
INVARIANTS
  NoObjectLeftBehind
  StoppedOnce
PROPERTIES
  NamesAreResolved
CHECK_DEADLOCK FALSE
