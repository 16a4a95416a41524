SPECIFICATION Spec
CONSTANTS
  Threads = {t1, t2}
  Blocks = {b1, b2, b3}
  Data = {0, 1}
  LOGSIZE = 4
  MAXOPBLOCKS = 2
  size = 4
  NoBlock = NoBlock
SYMMETRY Symmetry
INVARIANTS QuiescentDurable LogSpace BeginWoken
PROPERTY AtomicFsSpec
