SPECIFICATION FairSpec
CONSTANTS
    w1 = w1
    w2 = w2
    plan = plan
    replay = replay
    None = None
    Worker <- MCWorker
    JobId <- MCJobId2
    PlanningRequest <- MCPlanning
    ReplayRequest <- MCReplay
    MaxAttempts = 2
INVARIANTS
    JobRunAgree
    ResultFromLastAttempt
PROPERTIES
    ImplementsFairRunOutcome
