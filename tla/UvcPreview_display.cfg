SPECIFICATION Spec
CONSTANTS
    MaxFrame = 1
    PoolSize = 0
    Modes = {FALSE}
    CaptureThreads = {c1}
    Windows = {w1}
    Callbacks = {k1}
    MaxSeq = 1
INVARIANTS
    BrokenOnlyAfterChange
    NoFrameLost
CHECK_DEADLOCK FALSE
