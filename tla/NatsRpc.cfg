SPECIFICATION Spec
CONSTANTS
  I = I
  J = J
  NoConn = 0
  NoCall = NoCall
  Instances = {I, J}
  Conns = {1, 2}
  Calls = {k1}
  CallerAt <- MCCallerAt
  Arrivals <- MCArrivals
  MaxRetries = 1
  PendingLimit = 1
  MaxOwed = 1
CHECK_DEADLOCK FALSE
INVARIANTS RefusesAfterOverlap CallbackIsHeard
PROPERTIES AnsweredRunsNoMore CallEnds CallbackEnds
