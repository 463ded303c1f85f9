SPECIFICATION FairSpec
CONSTANTS
    Pods = {x1}
    Procs = {p1}
    NoPod = NoPod
    NoProc = NoProc
    UserCommands = {"run", "gc"}
    MaxKills = 1
PROPERTIES
    AbandonedIsDeleted
