CONSTANTS
    Thread = {t1, t2}
    Id = {i1, i2}
    Name = {n1, n2}
    NoName = NoName
    Free = Free
    Modes = {"all"}
    MaxAges = {0}
    EvictAge = 3
    Latency = 1
    StepTime = 0
    MaxTime = 2
    MaxChanges = 1
SPECIFICATION FairSpec
INVARIANT MutexInv OneListing
PROPERTY AllIsComplete CallsReturn
