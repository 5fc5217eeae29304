SPECIFICATION Spec
CONSTANTS
    MaxFiles = 2
    Projects <- MCProjects
INVARIANTS
    BodiesMeetTheirContracts
    MergeIsAUnion
CHECK_DEADLOCK FALSE
