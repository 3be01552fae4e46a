SPECIFICATION Spec
CONSTANTS
    MaxFrame = 1
    PoolSize = 1
    Modes = {TRUE}
    CaptureThreads = {c1, c2}
    Windows = {}
    Callbacks = {}
    MaxSeq = 1
INVARIANTS
    NoFrameLost
    StoppedHoldsNothing
    SleepersHaveNothingToTake
    IInv
CHECK_DEADLOCK FALSE
