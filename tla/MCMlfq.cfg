SPECIFICATION FairSpec
CONSTANTS
  NPROC = 3
  CPUs = {c0}
  Cpu0 = c0
  queue_size = 2
  MaxProc = 3
  Slice <- MCSlice
INVARIANTS TestedOneCpu NotForgotten
PROPERTIES WorkConserving
CHECK_DEADLOCK FALSE
