SPECIFICATION FairSpec
CONSTANTS
    Pods = {x1}
    Procs = {p1, p2}
    NoPod = NoPod
    NoProc = NoProc
    UserCommands = {"prepare", "run", "wait", "gc"}
    MaxKills = 1
PROPERTIES
    AbandonedIsCollected
    WaitReturns
