SPECIFICATION FairSpec
CONSTANTS
  t1 = t1
  t2 = t2
  r1 = r1
  r2 = r2
  NoRequest = NoRequest
  Threads <- MCThreads
  Calls <- MCCalls
  Requests <- MCRequests
  Unpicklable <- MCUnpicklable
  MaxConns = 2
INVARIANTS
  NoRequestForgotten
  AnsweredAtMostOnce
PROPERTIES
  EveryRequestAnswered
CHECK_DEADLOCK FALSE
