SPECIFICATION FairSpec
CONSTANTS
    a1 = a1
    a2 = a2
    b1 = b1
    refA = refA
    refA1 = refA1
    refB = refB
    Keys = {a1, a2, b1}
    Refs = {refA, refA1, refB}
    NoVersion = NoVersion
    NameOf <- MCNameOf
    VersionOf <- MCVersionOf
    Requested = {refA}
    DepGraphs <- MCDepGraphs
    FirstRows <- MCFirstRows
    FirstRemotes <- MCFirstRemotes
    NoKey = NoKey
    MaxFaults = 1
INVARIANTS
    DependenciesFetched
    BestMatch
PROPERTIES
    FetchEnds
