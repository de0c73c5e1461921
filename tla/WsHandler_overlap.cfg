SPECIFICATION Spec
CONSTANTS
  NoConn = NoConn
  Conns = {c1, c2}
  MaxSent = 1
  MaxCalls = 1
CHECK_DEADLOCK FALSE
INVARIANTS OnlyNewerConnections NewestIsClosed
PROPERTIES RequestsEnd
