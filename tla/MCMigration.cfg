SPECIFICATION FairSpec
CONSTANTS
    Procs = {p1, p2, p3}
    NoProc = NoProc
    Release <- ThisRelease
    FirstVersions = {0, 1, 3}
    Alters = {3}
    BackupsNumber = 3
    MaxCopies = 6
    MaxWrites = 1
    MaxFaults = 2
    MaxKills = 1
INVARIANTS
    IInv
    NewestFirst
    MigratedIsBackedUp
    OpenedIsCurrent
PROPERTIES
    ImplementsBackupLog
    MigratedInTheEnd
