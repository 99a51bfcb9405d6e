CONSTANTS
    s1 = s1 s2 = s2 ip1 = ip1 ip2 = ip2 c1 = c1 c2 = c2 v6 = v6 f = f
    Server = {s1, s2}
    Renamed = {}
    IP = {ip1, ip2}
    CIDR = {c1, c2, v6}
    IPv6 = {v6}
    Foreign = {f}
    Providers = {"id", "unset", "other"}
    Modes = {"one"}
    Starts <- Settled
    NoIP = NoIP Unborn = Unborn Gone = Gone Absent = Absent Idle = Idle
    MaxChanges = 1
    MaxFails = 0
SPECIFICATION Spec

PROPERTY RightRoutesStay
