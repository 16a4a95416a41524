SPECIFICATION Spec
CONSTANTS
  NPROC = 3
  CPUs = {c0, c1}
  Cpu0 = c0
  queue_size = 2
  MaxProc = 2
  Slice <- MCSlice
INVARIANT TestedOneCpu
CHECK_DEADLOCK FALSE
