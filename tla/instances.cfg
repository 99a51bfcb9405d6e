CONSTANTS
    NodeName = {n1}
    OtherName = {n2}
    CloudId = {x}
    RobotId = {x}
    Absent = Absent
    Nil = Nil
    Unset = Unset
    Idle = Idle
    ProviderIDs <- MCProviderIDs
    KubeletIPs <- MCKubeletIPs
    Starts <- MCStarts
    Environments <- MCEnvironments
    Controller = {"node", "lifecycle"}
    MaxChanges = 1
    MaxRestarts = 1
    MaxFails = 1
SPECIFICATION Spec
INVARIANT TypeOK
PROPERTY GoneIsTrue InternalIPKept Settles
CHECK_DEADLOCK FALSE
