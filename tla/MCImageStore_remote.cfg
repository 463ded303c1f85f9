SPECIFICATION Spec
CONSTANTS
    Keys = {k1}
    Urls = {u1}
    Procs = {p1, p2}
    MaxFaults = 0
    NoKey = NoKey
    NoUrl = NoUrl
    NoProc = NoProc
INVARIANTS
    RemoteIsRecorded
