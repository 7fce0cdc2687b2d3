CONSTANT CaseSets <- AllCases
SPECIFICATION AlgorithmSpec
INVARIANTS
    CanonicalVendorIsBest
    LeadTimeEvidenceIsWhole
    
    
    NoContradiction
    ShortageIsReplenishedOnce
    AdviceIsOffered
    
    RejectionsAreTrue
    AcceptedUploadIsWhole
    RepairCreditIsConservative
    ReturnsAreBelievable
    LateEvidenceIsExcluded
    ScorecardHolds
CHECK_DEADLOCK FALSE
