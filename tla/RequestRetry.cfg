\* One call of every kind (budgets, windows, late timers, termination), and two
\* writes, possibly of one operation (at most once across calls).
CONSTANTS
    c1 = c1
    c2 = c2
    k1 = k1
    NoKey = NoKey
    NoVm = NoVm
    Calls = {c1, c2}
    Keys = {k1}
    Hints = {0, 1}
    Requests <- EveryRequest
    TicksPerSec = 2
    BaseDelay = 1
    MaxDelay = 2
    HintCap = 2
    Jitter = 1
    Lateness = 3
    LongestSleep = 3
    AttemptCap = 3
SPECIFICATION MCSpec
INVARIANTS
    AtMostOneEffect
    RefusalIsFinal
    SafeToReplay
    ConflictIsForeign
    AttemptsAreKept
PROPERTIES
    ImplementsAtMostOnce
    WindowIsKept
    EveryCallSettles
