SPECIFICATION FairSpec
CONSTANTS
  nobody = nobody
  noTask = noTask
  l1 = l1
  l2 = l2
  o1 = o1
  t1 = t1
  t2 = t2
  Nobody <- nobody
  NoTask <- noTask
  Loopers <- TwoLoopers
  OneShots <- OneShot
  Tasks <- TwoTasks
INVARIANT WakeupPerTask
INVARIANT AtMostOneAfterQuit
INVARIANT OnlyWindowStrands
PROPERTY ImplementsTaskQueue
PROPERTY EventuallyRun
PROPERTY QuitStops
