SPECIFICATION Spec
CONSTANTS
    Names <- MCNames
    EndsIn <- MCEndsIn
    Classes <- MCClasses
    MaxCalls = 2
    Null = Null
    Wild = Wild
INVARIANTS
    FaultsAreReported
    RisksAreReal
CHECK_DEADLOCK FALSE
