SPECIFICATION EmroSpec
CONSTANTS
    c1 = c1
    a = a
    level1 = level1
    level2 = level2
    shadow1 = shadow1
    req1 = req1
    transfer1 = transfer1
    bad1 = bad1
    None = None
    Edited = Edited
    Consumer <- MCConsumer1
    Client <- MCClient
    LevelRow <- MCLevelRow
    ShadowRow <- MCShadowRow
    RequisitionRow <- MCRequisitionRow
    TransferRow <- MCTransferRow
    BadRow <- MCBadRow
    Message <- MCMessage
    RestRow <- MCRestRow
    MaxConflicts = 2
    MaxCollisions = 2
    MaxAttempts = 2
    MaxRollback = 1
    MaxRequests = 2
INVARIANTS
    RollbackRevertsLatest
