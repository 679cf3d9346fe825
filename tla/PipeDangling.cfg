SPECIFICATION FairSpec
CONSTANTS
  Modes = {"create"}
  MaxChannels = 2
  MaxSends = 1
  MaxReads = 0
  MaxMessages <- Talk
INVARIANT NoDanglingWork
CHECK_DEADLOCK FALSE
