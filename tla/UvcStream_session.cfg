SPECIFICATION FairSpec
CONSTANTS
    Transfers = {t1, t2}
    IsoModes = {TRUE, FALSE}
    BufSize = 2
    MaxSeq = 2
    Faults <- AllFaults
INVARIANTS
    TypeOK
    OwnerNotForgotten
    CallerNotForgotten
    StoppedIsQuiet
    FreedWhileUsedOnlyAfterLoss
    DamagedFrameNotGiven
    IInv
PROPERTIES
    OrderedDelivery
    KeepsContract
    UsesTransfers
    StopReturns
    HeldFrameDelivered
CHECK_DEADLOCK FALSE
