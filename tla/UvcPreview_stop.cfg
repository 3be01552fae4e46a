SPECIFICATION FairSpec
CONSTANTS
    MaxFrame = 1
    PoolSize = 0
    Modes = {FALSE}
    CaptureThreads = {c1}
    Windows = {}
    Callbacks = {}
    MaxSeq = 1
PROPERTY
    StopPreviewReturns
CHECK_DEADLOCK FALSE
