SPECIFICATION Spec
CONSTANTS
  NPROC = 3
  CPUs = {c0, c1}
  Cpu0 = c0
  Free = Free
  MaxSleep = 1
INVARIANTS StackInUse SchedLocks NoLostWakeup ParentAlive
