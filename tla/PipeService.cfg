SPECIFICATION FairSpec
CONSTANTS
  Modes = {"create", "open"}
  MaxChannels = 2
  MaxSends = 3
  MaxReads = 2
  MaxMessages <- Talk
INVARIANTS
  TypeOK
  OnlyWritesDangle
  ListenerKept
PROPERTY BrokenIsClosed
CHECK_DEADLOCK FALSE
