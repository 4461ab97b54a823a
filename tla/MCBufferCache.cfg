CONSTANTS
  p1 = p1
  p2 = p2
  p3 = p3
  b1 = b1
  b2 = b2
  b3 = b3
  v1 = v1
  v2 = v2
  Proc <- Procs
  Block <- Blocks
  Val <- Contents
  NBUF = 2
  Nobody = Nobody
SPECIFICATION Spec
SYMMETRY Symmetry
INVARIANT CacheInv
PROPERTY BlockStoreSpec
CHECK_DEADLOCK FALSE
