SPECIFICATION PSpec
CONSTANTS
  a1 = a1
  a2 = a2
  a3 = a3
  b1 = b1
  A = A
  B = B
  r1 = r1
  r2 = r2
  NoLog = NoLog
  Logs = {a1, a2, a3, b1}
  Dongles = {A, B}
  DongleOf <- MCDongleOf
  Routes = {r1, r2}
  RouteOf <- MCOneRoute
  QueueDepth = 4
  ParallelLogParsers = 2
CHECK_DEADLOCK FALSE
INVARIANTS JobsFitSlots RowsHoldSavedLogs
PROPERTIES EveryLogIsIngested
