SPECIFICATION PlannerSpec
CONSTANTS
    c1 = c1
    c2 = c2
    k1 = k1
    k2 = k2
    None = None
    Caller <- MCCaller2
    Key <- MCKey2
    Writable <- MCKey2
    ShadowKey <- NoKey
    MaxVersion = 3
    MaxUploads = 2
    MaxSeeds = 2
INVARIANTS
    VersionsContiguous
