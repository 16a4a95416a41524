SPECIFICATION StrongFairSpec
CONSTANTS
  NPROC = 3
  CPUs = {c0}
  Cpu0 = c0
  queue_size = 2
  MaxProc = 2
  Slice <- MCSlice
PROPERTY NoStarvation
CHECK_DEADLOCK FALSE
