CONSTANTS
  p1 = p1
  p2 = p2
  a = a
  b = b
  Nobody = Nobody
  Proc = {p1, p2}
  Name = {a, b}
  NINODES = 3
  NBLOCKS = 3
  NFILE = 1
  NOFILE = 1
  Calls <- TreeCalls
SPECIFICATION Spec
SYMMETRY Symmetry
INVARIANTS FilesInv OnlyIputDeadlocks
CHECK_DEADLOCK FALSE
