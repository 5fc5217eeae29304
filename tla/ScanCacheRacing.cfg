SPECIFICATION FairSpec
CONSTANTS
    Procs = {p1, p2}
    Roots = {r1, r2}
    RootOf <- MCOwnRoots
    NFiles = 1
    Contents = {c1}
    HashedContracts = {h1}
    UnhashedContracts = {u1, u2}
    Options = {o1, o2}
    NumPasses = 1
    Clearers = {p1, p2}
    EditsRace = TRUE
    MaxEdits = 1
    MaxCrashes = 1
    Absent = Absent
    Torn = Torn
    NoReport = NoReport
INVARIANTS
    KeyIsolation
PROPERTIES
    TornEntriesHeal
