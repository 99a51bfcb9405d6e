CONSTANTS
    s1 = s1
    s2 = s2
    up = up
    shared = shared
    missing = missing
    Svc = {s1, s2}
    Config <- MCConfig
    Defaults <- MCDefaults
    Uploaded = {up}
    CertName = {s1, s2, up, shared, missing}
    Worker = {w1, w2}
    Unset = Unset
    Idle = Idle
    MaxChanges = 1
    MaxRestarts = 1
    MaxFails = 1
SPECIFICATION Spec
INVARIANT TypeOK ServicesSynced OwnCertificate
PROPERTY PortStays Settles
CHECK_DEADLOCK FALSE
