SPECIFICATION Spec
CONSTANTS
    Pods = {x1, x2}
    Procs = {p1, p2}
    NoPod = NoPod
    NoProc = NoProc
    UserCommands = {"prepare", "run", "runPrepared", "gc", "rm"}
    MaxKills = 0
SYMMETRY Symmetry
INVARIANTS
    NoDeadlock
