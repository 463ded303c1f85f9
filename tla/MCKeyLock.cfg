SPECIFICATION FairSpec
CONSTANTS
    Procs = {p1, p2}
    Inodes = {i1, i2, i3}
    NoProc = NoProc
    NoFile = NoFile
    MaxRetries = 1
INVARIANTS
    IInv
    MutualExclusion
    HeldFileStays
PROPERTIES
    ImplementsRWLock
    CallReturns
