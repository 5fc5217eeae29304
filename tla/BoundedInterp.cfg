SPECIFICATION InterpSpec
CONSTANTS
    MaxPaths = 3
    Values = {0, 1}
    Statements <- MCStatements
    MaxNodes = 3
    Bodies <- MCBodies
    NoResult = NoResult
INVARIANTS
    TameBodiesMissNothing
    TameBodiesInventNothing
CHECK_DEADLOCK FALSE
