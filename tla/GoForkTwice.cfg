\* A fork with the default options, against the claim that it is keyed.
CONSTANTS
    c1 = c1
    c2 = c2
    k1 = k1
    NoKey = NoKey
    NoVm = NoVm
    Calls = {c1}
    Keys = {k1}
    Hints = {}
    Requests <- DefaultFork
SPECIFICATION Spec
CHECK_DEADLOCK FALSE
INVARIANT OneForkOneMachine
