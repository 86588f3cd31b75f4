SPECIFICATION FairSpec
CONSTANTS
    j1 = j1
    NoJob = NoJob
    Jobs = {j1}
    Attempts = 2
    MaxJobs = 2
    RebootWindow = 0
    BootIdKnown = TRUE
    MarkerFaults = TRUE
    OtherClients = TRUE
    MaxClock = 0
    MaxBoot = 1
INVARIANTS TypeOK LostLeaseNeverPosts SettledOnlyIfAnswered
PROPERTIES CheckpointKept StopEnds
