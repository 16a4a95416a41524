CONSTANTS
    Procs = {p1, p2}
    Pipes = {q1}
    PIPESIZE = 2
    Wrap = 4
    Sizes = {0, 1, 3}
    Files = {f1, f2}
    NoFile = NoFile
    NOFILE = 2
    FD_NONE = FD_NONE
SPECIFICATION Spec
INVARIANTS RefsCounted EndsMatchFiles RingIsStream SleepersMustWait
CHECK_DEADLOCK FALSE
SYMMETRY Symmetry
