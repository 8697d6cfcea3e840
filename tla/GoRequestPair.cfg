\* Two calls of the kinds whose promises the Go client keeps.
CONSTANTS
    c1 = c1
    c2 = c2
    k1 = k1
    NoKey = NoKey
    NoVm = NoVm
    Calls = {c1, c2}
    Keys = {k1}
    Hints = {}
    Requests <- SafeRequests
SPECIFICATION FairSpec
CHECK_DEADLOCK FALSE
INVARIANT SafeForksHappenOnce
PROPERTY EveryCallSettles
PROPERTY ImplementsAtMostOnce
