CONSTANTS
    Threads = {t1, t2, t3}
    Bufs = {c1, c2}
    Blocks = {k1, k2, k3}
    Data = {0, 1}
    None = None
SPECIFICATION Spec
INVARIANT RefsExact
PROPERTY OneCopy
SYMMETRY Symmetry
CHECK_DEADLOCK FALSE
