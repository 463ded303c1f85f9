SPECIFICATION Spec
CONSTANTS
    Pods = {x1}
    Procs = {p1, p2}
    NoPod = NoPod
    NoProc = NoProc
    UserCommands = {"prepare", "run", "runPrepared", "status", "wait", "gc", "rm"}
    MaxKills = 2
SYMMETRY Symmetry
INVARIANTS
    IInv
    OwnerKeepsPod
    DeleteOnlyGarbage
    OneDeleter
    ExitedIsFinal
    CollectedFirst
    LookupComplete
PROPERTIES
    ForwardOnly
    GraceHonoured
    ExpirationHonoured
    FollowsPhases
