SPECIFICATION Spec
CONSTANTS
    Procs = {p1, p2}
    Roots = {r1}
    RootOf <- MCSharedRoot
    NFiles = 2
    Contents = {c1, c2}
    HashedContracts = {h1, h2}
    UnhashedContracts = {u1}
    Options = {o1}
    NumPasses = 2
    Clearers = {p1}
    EditsRace = FALSE
    MaxEdits = 1
    MaxCrashes = 1
    Absent = Absent
    Torn = Torn
    NoReport = NoReport
INVARIANTS
    TypeOK
    RecordsMatchKeys
    HitsAreForecast
    OneClearerNeverFails
PROPERTIES
    RefinesFreshScan
