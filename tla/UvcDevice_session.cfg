SPECIFICATION FairSpec
CONSTANT
    Callers <- JavaAndPreview
INVARIANTS
    TypeOK
    WaiterWillBeWoken
    CallbackWhileOpen
    FreedHandleUnused
    EventThreadRuns
    StatusListened
    OwnDescriptor
    IInv
PROPERTIES
    CallReturns
    ReleaseReturns
    ServesTransfers
CHECK_DEADLOCK FALSE
