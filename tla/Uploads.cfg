SPECIFICATION Spec
CONSTANTS
  u1 = u1
  u2 = u2
  u3 = u3
  qlog = qlog
  boot = boot
  Uploads = {u1, u2, u3}
  Paths = {qlog, boot}
  PathOf <- MCPathOf
  Logs = {qlog}
  Chunks = 3
  CleanEnds <- MCCleanEnds
  Drivers = {"filesystem", "s3"}
INVARIANTS StoredIsWhole
PROPERTIES ShortWhileRewritten AnsweredIsParsed
