SPECIFICATION Spec
CONSTANTS
    NoSpace = NoSpace
    Projects <- MCProjects
    Scans <- MCScans
INVARIANT NoContractIsIgnored
CHECK_DEADLOCK FALSE
