SPECIFICATION Spec
CONSTANTS
    p1 = p1
    p2 = p2
    NoProc = NoProc
    k1 = k1
    k2 = k2
    NoKey = NoKey
    n1 = n1
    n2 = n2
    n3 = n3
    NoName = NoName
    Procs = {p1, p2}
    Keys = {k1, k2}
    Names = {n1, n2, n3}
    Torn = {k1}
    Quota = 1
    LockTries = 2
    MaxStarts = 4
    MaxCrashes = 2
    MaxDeletes = 0
SYMMETRY Symmetry
INVARIANTS TypeOK HeldEntryWhole StagedFetchSafe FetchOnlyMissing
PROPERTY CacheSpec
CHECK_DEADLOCK FALSE
