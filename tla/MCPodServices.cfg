SPECIFICATION FairSpec
CONSTANTS
    Apps = {a1, a2}
    NumNets = 2
    RetryCount = 3
    MaxLosses = 3
    MaxFaults = 2
    MaxKills = 2
CHECK_DEADLOCK FALSE
INVARIANTS
    IInv
    RunningIsServed
    RolledBack
    ReleasedWhenDeleted
    UnregisteredWhenDeleted
PROPERTIES
    TornDownInReverse
    DeletedInTheEnd
