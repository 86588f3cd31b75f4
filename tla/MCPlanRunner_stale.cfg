SPECIFICATION Spec
CONSTANTS
    NumCells = 1
    CellKeys = {1}
    CellKey <- OwnKeys
    Runs = {"r1"}
    Threads = {"a", "c"}
    Clients = {"t1", "t2"}
    Boxes = {"b1"}
    RunOf <- OneRun
    ClientOf <- TwoAndOne
    BoxOf <- OneBox
    ShardIndex <- Unsharded
    ShardCount = 1
    Plans <- PoolAndRestricted
    Options <- PlainOnly
    SyncTargets = {"t1", "t2"}
    MaxConsecutive = 1
    MaxRetries = 1
    MaxStarts = 1
    MaxFaults = 1
INVARIANTS CellAfterSync
CHECK_DEADLOCK FALSE
