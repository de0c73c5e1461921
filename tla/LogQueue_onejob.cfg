SPECIFICATION Spec
CONSTANTS
  a1 = a1
  a2 = a2
  a3 = a3
  b1 = b1
  A = A
  B = B
  NoLog = NoLog
  Logs = {a1, a2, b1}
  Dongles = {A, B}
  DongleOf <- MCDongleOf
  QueueDepth = 3
  ParallelLogParsers = 2
CHECK_DEADLOCK FALSE
INVARIANTS OneJobPerDongle
