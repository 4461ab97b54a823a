CONSTANTS
  Reader = {r1, r2}
  Writer = {w1}
  Byte = {0, 1}
  String <- Strings
  ReadSize = {1, 3}
  PIPESIZE = 2
  Wrap = 4
SPECIFICATION FairSpec
INVARIANT SleepersHaveReason
PROPERTIES ByteQueueSpec HangUpEndsCalls
CHECK_DEADLOCK FALSE
