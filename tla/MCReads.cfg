SPECIFICATION MCSpec
CONSTANTS
    None = None
    Auto = Auto
    MaxTagValues = 2
    K = 2
    h1 = h1
    h2 = h2
    h3 = h3
    Handle <- MCHandle
    AtomsOf <- NoAtoms
    Reresolved <- NoAtoms
    ScopesOf <- MCScopesOf
    FactChoices <- OneFact
    BudgetChoices <- MCBudgets
    MaxMint = 2
    Profiles <- MCProfiles
    MaxClock = 1
    MaxFaults = 1
    MaxSends = 3
    A = A
    B = B
    Nil = Nil
    Post <- MCPost
    Stamp <- MCStamp
    IdOrder <- MCRank
    Ask <- MCAsk
    HandlePool = {11, 12, 13, 14, 15, 16, 17, 18, 19, 20, 21, 22}
INVARIANTS
    CoverageTrue
    ReportsTrue
    WindowSound
PROPERTIES
    RequestsKept
CHECK_DEADLOCK FALSE
