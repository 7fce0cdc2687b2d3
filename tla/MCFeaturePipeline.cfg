SPECIFICATION PipelineSpec
CONSTANTS
    k1 = k1
    k2 = k2
    reader1 = reader1
    Date <- MCDate
    Key <- MCKey
    Night <- MCNight
    Group <- MCGroup
    Reader = {reader1}
    MaxRuns = 2
    MaxAppends = 2
    MaxPopulations = 2
INVARIANTS
    ServedFromOneRun
    DemandIsObserved
    StoreIsOnePopulation
PROPERTIES
    ServingNeverGoesBack
CHECK_DEADLOCK FALSE
