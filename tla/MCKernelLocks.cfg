CONSTANTS
  p1 = p1
  p2 = p2
  Proc <- Procs
  Cpu = {cpu0, cpu1}
  BootCpu = cpu0
SPECIFICATION Spec
SYMMETRY Symmetry
INVARIANTS LocksInv NoOtherDeadlock
CHECK_DEADLOCK FALSE
