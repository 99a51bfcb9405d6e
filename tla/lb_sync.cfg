CONSTANTS
    s1 = s1 s2 = s2 n1 = n1 n2 = n2 ip1 = ip1 ip2 = ip2 p1 = p1 p2 = p2
    Svc = {s1}
    Config <- Sync
    Imported <- OneImport
    ServerId = {c1}
    IP = {ip1, ip2}
    OtherIP = OtherIP
    HasNetwork = TRUE
    Attrs = {"rdns4", "algorithm", "public"}
    MaxServices = 2
    Worker = {w1}
    Unset = Unset Empty = Empty NoLB = NoLB Absent = Absent Idle = Idle
    MaxLB = 3
    MaxChanges = 3
    MaxFails = 1
SPECIFICATION FairSpec
CHECK_DEADLOCK FALSE
INVARIANT TypeOK
PROPERTY EnsureSynced Settles
