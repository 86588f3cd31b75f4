SPECIFICATION Spec
CONSTANTS
    Ids = {"a", "b"}
    Known = {"a"}
    Versions = {"v1"}
    Broken = {}
    Start <- TwoServers
    Servers = {"s"}
    Home = "s"
    Pullers = {"p", "q"}
    Claimers = {}
    MaxPulls = 2
    MaxClaims = 0
    MaxEdits = 1
    MaxFaults = 0
    None = None
    Empty = Empty
    Torn = Torn
INVARIANTS ListTagNamesIndex
CHECK_DEADLOCK FALSE
