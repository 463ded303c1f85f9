SPECIFICATION Spec
CONSTANTS
    Pods = {x1}
    Procs = {p1, p2}
    NoPod = NoPod
    NoProc = NoProc
    UserCommands = {"prepare", "wait"}
    MaxKills = 0
INVARIANTS
    WaitedForExit
