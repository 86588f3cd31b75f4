SPECIFICATION FairSpec
CONSTANTS
    Phones = {"p"}
    First = "p"
    Paths = {"a", "b"}
    MaxBuild <- RebuiltA
    Provides <- OneEach
    Jobs = {"j1", "j2"}
    Needs <- OneRuntime
    MaxJobs = 2
    MaxClaims = 3
    MaxLapses = 1
    MaxFaults = 1
    None = None
INVARIANTS RecordHonest PostsOwnRun KeptUntilAccepted SettledBeforePost
PROPERTIES StopEnds
