SPECIFICATION Spec
CONSTANTS
    MaxStates = 5
    MaxCases = 2
    ExploreFactor = 2
    Contracts <- MCContracts
    Cases <- MCCases
    Rejections <- MCRejections
    NoVerdict = NoVerdict
INVARIANTS
    TypeOK
    VerifiedCoversDomain
    FailedIsACounterexample
    FailuresSurviveDeeperSearch
PROPERTIES
    RefinesBoundedVerdict
CHECK_DEADLOCK FALSE
