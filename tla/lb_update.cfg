CONSTANTS
    s1 = s1 s2 = s2 n1 = n1 n2 = n2 ip1 = ip1 ip2 = ip2 p1 = p1 p2 = p2
    Svc = {s1}
    Config <- PrivateIPs
    Imported <- NoImport
    ServerId = {c1, c2}
    IP = {ip1, ip2}
    OtherIP = OtherIP
    HasNetwork = TRUE
    Attrs = {}
    MaxServices = 2
    Worker = {w1}
    Unset = Unset Empty = Empty NoLB = NoLB Absent = Absent Idle = Idle
    MaxLB = 2
    MaxChanges = 4
    MaxFails = 1
SPECIFICATION Spec
CHECK_DEADLOCK FALSE
PROPERTY UpdateSynced
