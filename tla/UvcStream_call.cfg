SPECIFICATION Spec
CONSTANTS
    Transfers = {t1, t2}
    IsoModes = {TRUE, FALSE}
    BufSize = 2
    MaxSeq = 3
    Faults = {}
PROPERTY
    EachCallHasItsFrame
CHECK_DEADLOCK FALSE
