SPECIFICATION Spec
CONSTANTS
    Devices = {d1}
    MaxBlocks = 2
    MaxQueue = 1
    MaxChecks = 1
    MaxAttached = 1
    ContextEnds = FALSE
INVARIANTS
    TypeOK
    MapHoldsOpen
    OpenIsKnown
    DettachAfterDisconnect
    DestroyReleases
    IInv
CHECK_DEADLOCK FALSE
