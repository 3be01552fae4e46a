SPECIFICATION Spec
CONSTANTS
    MaxFrame = 1
    PoolSize = 0
    Modes = {FALSE}
    CaptureThreads = {c1}
    Windows = {}
    Callbacks = {k1}
    MaxSeq = 1
INVARIANT
    CallbackFinished
CHECK_DEADLOCK FALSE
