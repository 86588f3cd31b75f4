SPECIFICATION Spec
CONSTANTS
    j1 = j1
    NoJob = NoJob
    Jobs = {j1}
    Attempts = 1
    MaxJobs = 0
    RebootWindow = 0
    BootIdKnown = TRUE
    MarkerFaults = FALSE
    OtherClients = TRUE
    MaxClock = 0
    MaxBoot = 1
INVARIANTS FiledOnlyIfHeld
