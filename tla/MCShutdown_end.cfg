SPECIFICATION FairSpec
CONSTANTS
  f1 = f1  f2 = f2  bad = bad  short = short  r1 = r1  s1 = s1  w1 = w1
  Payloads <- AllPayloads
  Sessions = {s1}
  Frames = {f1, f2, bad, short}
  Invalid = {bad}
  Short = {short}
  Pipers = {w1}
  JobBuffer = 1
  MaxRedisFaults = 1
  Posters = {w1}
  FwdBuffer = 1
  FwdAttempts = 2
  MaxDiskFaults = 1
  Requests = {r1}
CHECK_DEADLOCK FALSE
INVARIANTS TypeOK AckedKept NoSendOnClosed MirrorKept MirrorDrained
PROPERTIES ShutdownEnds MirrorSettles
