SPECIFICATION Spec
CONSTANTS
    NoSpace = NoSpace
    Projects <- MCProjects
    Scans <- MCScans
INVARIANTS
    AcceptedContractsAreApplied
    SatisfiedStaysSatisfied
    FrontendsBindAlike
CHECK_DEADLOCK FALSE
