SPECIFICATION FairSpec
CONSTANTS
  l1 = l1
  l2 = l2
  r = r
  a1 = a1
  a2 = a2
  Null = Null
  Thread <- AllThreads
  Loggers <- TwoLoggers
  Releasers <- TwoReleasers
  Address <- TwoAddresses
  MaxLines = 2
INVARIANTS
  TypeOK
  OneObject
  NothingDangles
  LinesKept
PROPERTY CallsReturn
CHECK_DEADLOCK FALSE
