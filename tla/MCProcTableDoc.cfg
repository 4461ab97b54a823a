CONSTANTS
  c1 = c1
  c2 = c2
  CPU <- OneCpu
  NPROC = 3
  MaxPid = 3
  MaxTickets = 2
  Calls <- AllCalls
SPECIFICATION Spec
INVARIANT EverybodyMayWin
