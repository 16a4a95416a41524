CONSTANTS
    Bufs = {1, 2, 3}
    blockno <- Same
    Data = {0, 1}
    Marked = {1}
    NUM = 7
    None = None
SPECIFICATION Spec
INVARIANT DescsAccounted
PROPERTIES OneTransfer RequestsReturn
