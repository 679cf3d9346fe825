SPECIFICATION FairSpec
CONSTANTS
  HeadCells = 2
  BodyCells <- Bodies
  ReadCells = 3
  Systems <- Uniform
INVARIANTS
  TypeOK
  NothingLost
  BufferStable
  ReadChain
PROPERTIES
  ImplementsMessageStream
  EventuallyDelivered
CHECK_DEADLOCK FALSE
