CONSTANTS
    Keys = {k1, k2, k3}
    Values = {v1}
    Procs = {p1}
    MaxSize = 2
    Durations = {0, 1}
    MaxTime = 3
SPECIFICATION FairSpec
INVARIANTS
    TypeOK
PROPERTIES
    ImplementsStore
    ExpiredIsCollected
    StopEndsJanitor
