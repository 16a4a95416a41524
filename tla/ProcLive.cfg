SPECIFICATION FairSpec
CONSTANTS
  NPROC = 2
  CPUs = {c0, c1}
  Cpu0 = c0
  Free = Free
  MaxSleep = 1
PROPERTIES RunnableRuns WaitReturns SleepReturns
