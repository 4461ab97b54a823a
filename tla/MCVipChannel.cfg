SPECIFICATION ChannelSpec
CONSTANTS
  Left = {l1, l2, l3}
  Right = {r1, r2, r3}
INVARIANTS TypeOK ChannelInv
PROPERTIES LeftPriority WalkwaySpec QuietChannelEmpties OwnerCrosses
