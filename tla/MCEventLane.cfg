SPECIFICATION FairEventSpec
CONSTANTS
    e1 = e1
    e2 = e2
    k1 = k1
    k2 = k2
    Event = {e1, e2}
    Key = {k1, k2}
    Kind <- EventKinds
    Named <- EventKeys
    DayOf <- EventDays
    Advice <- EngineAdvice
    Populated <- RowsFound
    MaxAttempts = 2
    MaxGeneration = 2
    MaxRestarts = 1
    MaxBad = 1
INVARIANTS
    NothingLostSilently
    OneWritePerSnapshot
    
    
PROPERTIES
    PublicationsReturn
CHECK_DEADLOCK FALSE
