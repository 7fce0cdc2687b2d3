SPECIFICATION LedgerSpec
CONSTANTS
    c1 = c1
    c2 = c2
    k1 = k1
    k2 = k2
    s1 = s1
    None = None
    Key <- MCKey
    ShadowKey <- MCShadowKey
    Caller <- MCCaller2
    MaxVersion = 6
SYMMETRY LedgerSymmetry
INVARIANTS
    VersionsContiguous
    ParentIsLatestWritten
