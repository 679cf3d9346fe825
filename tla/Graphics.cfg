SPECIFICATION Spec
CONSTANTS
  c1 = c1
  c2 = c2
  t1 = t1
  t2 = t2
  l1 = l1
  l2 = l2
  None = None
  Chain <- TwoChains
  Texture <- TwoTextures
  Layer <- TwoLayers
  Sizes <- SomeSizes
  MaxObjects = 3
  MaxLayers = 1
INVARIANTS
  TypeOK
  TargetFits
  SizeFollows
PROPERTY DrawsItsTexture
CHECK_DEADLOCK FALSE
CONSTRAINT Apart
SYMMETRY Symmetry
