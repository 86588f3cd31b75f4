SPECIFICATION FairSpec
CONSTANTS
    Services = {s1}
    Containers = {k1}
    Shorts = {}
    Watcher = Watcher
    HasStopFlag = TRUE
    Armed = TRUE
    NoteFaults = TRUE
INVARIANTS
    TypeOK
    AliveAccounted
    SignalEndsStarts
    LeftNoted
PROPERTIES
    GracefulSparesNoChild
    SignalAnswered
    DrainEnds
