SPECIFICATION Spec
CONSTANTS
    Procs = {p1, p2}
    NoProc = NoProc
    Release <- TwoReleases
    FirstVersions = {2}
    Alters = {3}
    BackupsNumber = 3
    MaxCopies = 6
    MaxWrites = 1
    MaxFaults = 0
    MaxKills = 0
INVARIANTS
    OpenedIsCurrent
