SPECIFICATION Spec
CONSTANTS
  TO_BE_BOARDED = 3
  M = 2
  N = 1
  P = 1
  VipEvery = 3
INVARIANTS TypeOK OnePlace TokensMatch ChannelKnowsWalkers NoTwin
PROPERTIES UsesChannel EverybodyBoards
