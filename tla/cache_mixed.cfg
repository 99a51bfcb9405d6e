CONSTANTS
    Thread = {t1}
    Id = {i1, i2}
    Name = {n1, n2}
    NoName = NoName
    Free = Free
    Modes = {"one", "off", "all"}
    MaxAges = {1, 2}
    EvictAge = 2
    Latency = 1
    StepTime = 1
    MaxTime = 4
    MaxChanges = 2
SPECIFICATION Spec
SYMMETRY Symmetry
INVARIANT TypeOK IndexInv
PROPERTY BoundedStaleness NotFoundIsTrue Implements
