SPECIFICATION FairSpec
CONSTANTS
    p1 = p1
    p2 = p2
    NoProc = NoProc
    k1 = k1
    k2 = k2
    NoKey = NoKey
    n1 = n1
    n2 = n2
    n3 = n3
    NoName = NoName
    Procs = {p1, p2}
    Keys = {k1, k2}
    Names = {n1, n2, n3}
    Torn = {k1}
    Quota = 1
    LockTries = 2
    MaxStarts = 2
    MaxCrashes = 1
    MaxDeletes = 2
INVARIANT OrphansAreGarbage
PROPERTY CommandsEnd
CHECK_DEADLOCK FALSE
