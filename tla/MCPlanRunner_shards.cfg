SPECIFICATION Spec
CONSTANTS
    NumCells = 2
    CellKeys = {1}
    CellKey <- OneKey
    Runs = {"r1", "r2"}
    Threads = {"a", "b", "c"}
    Clients = {"t1", "t2"}
    Boxes = {"b1"}
    RunOf <- ShardRun
    ClientOf <- ShardClient
    BoxOf <- OneBox
    ShardIndex <- Halves
    ShardCount = 2
    Plans <- Variants
    Options <- Reruns
    SyncTargets = {}
    MaxConsecutive = 0
    MaxRetries = 0
    MaxStarts = 3
    MaxFaults = 1
INVARIANTS ShardsApart
PROPERTIES AffinityKept DoneNotRerun
CHECK_DEADLOCK FALSE
