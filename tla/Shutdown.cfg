SPECIFICATION SSpec
CONSTANTS
  a1 = a1
  a2 = a2
  a3 = a3
  A = A
  r1 = r1
  NoLog = NoLog
  Logs = {a1, a2, a3}
  Dongles = {A}
  DongleOf <- MCDongleOf
  Routes = {r1}
  RouteOf <- MCRouteOf
  QueueDepth = 1
  ParallelLogParsers = 1
CHECK_DEADLOCK FALSE
INVARIANTS EachSentLogHeldOnce BlocksOnlyWhenOverfull ExitCutsOnlyRunningJobs PanicNeedsUnstartedLog
PROPERTIES ImplementsSegmentStore ShutdownEnds
