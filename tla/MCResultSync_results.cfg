SPECIFICATION Spec
CONSTANTS
    Results = {r1}
    Syncers = {s1, s2}
    MaxSyncs = 4
    MaxFaults = 2
    MaxInodes = 6
INVARIANTS TypeOK PostedOnce OnePlace SyncedIsFiled NoLockFileLeft
SYMMETRY Symmetry
CHECK_DEADLOCK FALSE
