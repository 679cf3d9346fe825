SPECIFICATION Spec
CONSTANTS
  w1 = w1
  w2 = w2
  b1 = b1
  static = static
  k1 = k1
  h1 = h1
  h2 = h2
  None = None
  Own <- OwnObjects
  Routed <- RoutedObjects
  ClassObject <- ClassObjects
  Static = static
  Handle <- Handles
  MaxObjects = 2
  MaxListeners = 2
  MaxDepth = 2
INVARIANTS
  TypeOK
  HandlerLives
  OneOwner
  ClassStays
SYMMETRY Symmetry
CHECK_DEADLOCK FALSE
