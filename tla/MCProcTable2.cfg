CONSTANTS
  c1 = c1
  c2 = c2
  CPU <- TwoCpus
  NPROC = 4
  MaxPid = 4
  MaxTickets = 1
  Calls <- FamilyCalls
SPECIFICATION Spec
SYMMETRY CpuSymmetry
INVARIANTS OnOneCpu EmbryoOwned ParentAlive WaitersHaveReason
