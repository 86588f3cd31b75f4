SPECIFICATION Spec
CONSTANTS
    Services = {s1, s2}
    Containers = {}
    Shorts = {}
    Watcher = Watcher
    HasStopFlag = FALSE
    Armed = TRUE
    NoteFaults = FALSE
SYMMETRY Symmetry
INVARIANTS
    ClosedOutputTearsDown
