SPECIFICATION IoFairSpec
CONSTANTS
  nobody = nobody
  noTask = noTask
  noHandler = noHandler
  r1 = r1
  r2 = r2
  t1 = t1
  t2 = t2
  c1 = c1
  Nobody <- nobody
  NoTask <- noTask
  NoHandler <- noHandler
  Loopers <- NoThreads
  OneShots <- TwoThreads
  Tasks <- TwoTasks
  Contexts <- OneContext
INVARIANT IoTypeOK
INVARIANT PacketPerTask
INVARIANT StrayOnlyAtQuit
PROPERTY CompletionServed
PROPERTY ServiceStops
CHECK_DEADLOCK FALSE
