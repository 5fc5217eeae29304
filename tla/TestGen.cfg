SPECIFICATION Spec
CONSTANTS
    NoFailure = NoFailure
    NoReport = NoReport
    NoTest = NoTest
    Targets <- MCTargets
    Values <- MCValues
    Seeds = 2
    Steps = 6
INVARIANTS
    TypeOK
    FailureIsTheFirstViolation
    ReproducerFails
    VerdictIsBacked
    FailuresRankFirst
    TraceAgrees
CHECK_DEADLOCK FALSE
