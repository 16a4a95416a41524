SPECIFICATION LbsFairSpec
CONSTANTS
  NPROC = 3
  CPUs = {c0, c1}
  Free = Free
  Tickets = {0, 1}
  IntBits = 8
  RandMax = 1
  MaxTicks = 1
INVARIANTS HoldsChosen OneCpu
PROPERTIES TicketsRun
