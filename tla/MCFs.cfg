SPECIFICATION Spec
CONSTANTS
    t1 = t1
    t2 = t2
    Threads = {t1, t2}
    NINODES = 3
    NBLOCKS = 5
    NDIRECT = 1
    BSIZE = 3
    Calls <- SmallCalls
    MaxCalls = 5
    Chunk = 4
    None = None
CHECK_DEADLOCK FALSE
INVARIANTS
    BlocksOwnedOnce
    LinksCounted
    RefsExact
    Reclaimed
