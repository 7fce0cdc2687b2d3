SPECIFICATION SeedSpec
CONSTANTS
    w1 = w1
    w2 = w2
    None = None
    Worker <- MCWorker
    JobId <- MCJobId3
    PlanningRequest <- NoRequest
    ReplayRequest <- NoRequest
    MaxAttempts = 2
SYMMETRY WorkerSymmetry
INVARIANTS
    OneCopy
    OneRecomputeAtATime
PROPERTIES
    RecomputeYieldsToLiveUploads
