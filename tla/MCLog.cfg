CONSTANTS
  p1 = p1
  p2 = p2
  b1 = b1
  b2 = b2
  v1 = v1
  v2 = v2
  Proc <- TwoProcs
  Block <- TwoBlocks
  Val <- Contents
  MAXOPBLOCKS = 2
  LOGSIZE = 4
  Size = 3
SPECIFICATION FairSpec
INVARIANTS TypeOK SpaceReserved CommitsAlone PinnedWhileDirty
PROPERTIES AtomicDiskSpec SleeperWakes RecoveryEnds
