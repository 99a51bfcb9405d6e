CONSTANTS
    CloudId = {c1, c2}
    RobotId = {r1}
    NoIP = NoIP
    Setups <- AllSetups
    MaxTargets = 2
    MaxChanges = 4
    MaxFails = 1
SPECIFICATION FairSpec
INVARIANT TypeOK
PROPERTY Converged NoNeedlessRemoval NoNeedlessRefusal Settles
CHECK_DEADLOCK FALSE
