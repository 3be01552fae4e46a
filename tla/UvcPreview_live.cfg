SPECIFICATION FairSpec
CONSTANTS
    MaxFrame = 2
    PoolSize = 0
    Modes = {FALSE}
    CaptureThreads = {c1}
    Windows = {}
    Callbacks = {}
    MaxSeq = 3
INVARIANTS
    TypeOK
    FramesInOrder
PROPERTIES
    StopFromRestReturns
CHECK_DEADLOCK FALSE
