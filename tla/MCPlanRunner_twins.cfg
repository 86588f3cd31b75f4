SPECIFICATION Spec
CONSTANTS
    NumCells = 2
    CellKeys = {1}
    CellKey <- OneKey
    Runs = {"r1"}
    Threads = {"a", "c"}
    Clients = {"t1", "t2"}
    Boxes = {"b1"}
    RunOf <- OneRun
    ClientOf <- TwoAndOne
    BoxOf <- OneBox
    ShardIndex <- Unsharded
    ShardCount = 1
    Plans <- PoolAndRestricted
    Options <- PlainOnly
    SyncTargets = {}
    MaxConsecutive = 1
    MaxRetries = 1
    MaxStarts = 1
    MaxFaults = 0
PROPERTIES KeyDoneTakesAllOut
CHECK_DEADLOCK FALSE
