SPECIFICATION FairSpec
CONSTANTS
    Devices = {d1, d2}
    MaxBlocks = 0
    MaxQueue = 0
    MaxChecks = 1
    MaxAttached = 2
    ContextEnds = TRUE
INVARIANTS
    OneCheck
PROPERTIES
    AttachAnnounced
CHECK_DEADLOCK FALSE
