CONSTANTS
    Thread = {t1, t2}
    Id = {s1}
    Free = Free
    CacheTimeout = 1
    WaitTime = 2
    Latency = 1
    MaxTime = 4
    MaxEvents = 2
SPECIFICATION Spec
SYMMETRY Symmetry
INVARIANT TypeOK
PROPERTY ListRate NotFoundBounded ListBounded QuietAfterLimit
