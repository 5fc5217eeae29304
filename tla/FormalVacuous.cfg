SPECIFICATION Spec
CONSTANTS
    Vars = {"n", "c"}
    Values <- MCValues
    Numbers <- MCNumbers
    Projects <- MCProjects
    Evidence <- MCEvidence
    Found <- MCFound
    Requested <- MCRequested
    MaxRuns = 2
    Later <- MCLater
INVARIANT NothingIsVerifiedForLackOfGoals
CHECK_DEADLOCK FALSE
