SPECIFICATION FairSpec
CONSTANTS
    Keys = {k1}
    Urls = {u1}
    Procs = {p1, p2}
    MaxFaults = 1
    NoKey = NoKey
    NoUrl = NoUrl
    NoProc = NoProc
INVARIANTS
    IInv
    RecordedHasBlob
    RecordsWholeImage
    FlagMeansComplete
PROPERTIES
    CommandsEnd
