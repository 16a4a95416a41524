SPECIFICATION Spec
CONSTANTS
    Procs = {p1, p2}
    initproc = p1
    NPAGES = 13
    LEVELS = 2
    ENTRIES = 4
    PGSIZE = 2
    ADDRS = 64
    Data = {0, 1, 2}
    Zero = 0
    Text = 1
    Args = 2
    Junk = 5
    Programs <- SmallPrograms
    Sbrks <- SmallSbrks
    MaxSz = 7
    MaxLost = 1
    Stores = {0}
VIEW UpToPages
CHECK_DEADLOCK FALSE
INVARIANTS
    PagesOwnedOnce
    CopyExact
PROPERTIES
    PrivateMemory
