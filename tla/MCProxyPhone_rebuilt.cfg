SPECIFICATION Spec
CONSTANTS
    Phones = {"p","q"}
    First = "p"
    Paths = {"a"}
    MaxBuild <- RebuiltA
    Provides <- OneEach
    Jobs = {"j1"}
    Needs <- OneRuntime
    MaxJobs = 1
    MaxClaims = 2
    MaxLapses = 1
    MaxFaults = 1
    None = None
INVARIANTS LaunchesWhatWasRead
CHECK_DEADLOCK FALSE
