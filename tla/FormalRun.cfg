SPECIFICATION Spec
CONSTANTS
    Vars = {"n", "c"}
    Values <- MCValues
    Numbers <- MCNumbers
    Projects <- MCProjects
    Evidence <- MCEvidence
    Found <- MCFound
    Requested <- MCRequested
    MaxRuns = 2
    Later <- MCLater
INVARIANTS
    VerdictsAreRight
    OnlySolversProve
    ReportsAgree
CHECK_DEADLOCK FALSE
