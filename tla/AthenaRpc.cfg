SPECIFICATION Spec
CONSTANTS
  A = A
  NoConn = NoConn
  Dongles = {A}
  Conns = {c1, c2}
  ConnOf <- MCConnOf
  Calls = {k1}
  CallOf <- MCCallOf
  ForwardLogs = {f}
  StoreStats = {}
  MessageOf <- MCMessageOf
CHECK_DEADLOCK FALSE
INVARIANTS RegisteredIsOpen WaitingIsHeard MissNeedsLateDisconnect
PROPERTIES CallReturns
