SPECIFICATION Spec
CONSTANTS
    Ids = {"a", "b"}
    Known = {"a"}
    Versions = {"v1", "v2", "v3"}
    Broken <- LastBad
    Start <- TwoServers
    Servers = {"s", "t"}
    Home = "s"
    Pullers = {"p", "q"}
    Claimers = {"c"}
    MaxPulls = 2
    MaxClaims = 1
    MaxEdits = 1
    MaxFaults = 1
    None = None
    Empty = Empty
    Torn = Torn
INVARIANTS ClaimRunsServed PullHeals
CHECK_DEADLOCK FALSE
