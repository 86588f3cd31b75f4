SPECIFICATION FairSpec
CONSTANTS
    NumCells = 2
    CellKeys = {1, 2}
    CellKey <- OwnKeys
    Runs = {"r1"}
    Threads = {"a", "b", "c"}
    Clients = {"t1", "t2"}
    Boxes = {"b1"}
    RunOf <- OneRun
    ClientOf <- TwoAndOne
    BoxOf <- OneBox
    ShardIndex <- Unsharded
    ShardCount = 1
    Plans <- PoolAndRestricted
    Options <- PlainOnly
    SyncTargets = {"t1", "t2"}
    MaxConsecutive = 1
    MaxRetries = 1
    MaxStarts = 1
    MaxFaults = 2
INVARIANTS CellsConserved BoxWithinBudget LeftoverHasCause
PROPERTIES RunEnds
CHECK_DEADLOCK FALSE
