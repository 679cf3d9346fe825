SPECIFICATION Spec
CONSTANTS
  HeadCells = 2
  BodyCells <- Bodies
  ReadCells = 3
  Systems <- Mixed
INVARIANT MessageWhole
CHECK_DEADLOCK FALSE
