SPECIFICATION FairSpec
CONSTANTS
    Transfers = {t1, t2}
    IsoModes = {FALSE}
    BufSize = 2
    MaxSeq = 1
    Faults <- OnlyUnplug
PROPERTY
    StopReturnsAfterUnplug
CHECK_DEADLOCK FALSE
