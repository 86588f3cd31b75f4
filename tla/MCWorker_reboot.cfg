SPECIFICATION Spec
CONSTANTS
    j1 = j1
    NoJob = NoJob
    Jobs = {j1}
    Attempts = 1
    MaxJobs = 1
    RebootWindow = 1
    BootIdKnown = TRUE
    MarkerFaults = FALSE
    OtherClients = FALSE
    MaxClock = 3
    MaxBoot = 3
INVARIANTS RebootReportSound CutJobNotRerun
