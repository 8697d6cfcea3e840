SPECIFICATION FairSpec
CONSTANTS
    Bytes = {a}
    Mark = mark
    Retention = 1
    MaxProduced = 2
    Options <- EveryClient
    PollInitial = 1
    PollMax = 3
    MaxFailures = 2
    Margin = 3
    MaxFlight = 2
INVARIANTS ResultIsTheRuns KillIsReported StreamMatchesResult EveryByteOnce
PROPERTIES BoundedWaitEnds EndedRunIsReported
CHECK_DEADLOCK FALSE
