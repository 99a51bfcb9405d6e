CONSTANTS
    Thread = {t1}
    Id = {s1}
    Free = Free
    CacheTimeout = 1
    WaitTime = 2
    Latency = 1
    MaxTime = 4
    MaxEvents = 1
SPECIFICATION Spec
PROPERTY NilMeansAbsent
