SPECIFICATION Spec
CONSTANTS
    Bytes = {a}
    Mark = mark
    Retention = 1
    MaxProduced = 0
    Options <- Unlimited
    PollInitial = 1
    PollMax = 3
    MaxFailures = 2
    Margin = 3
    MaxFlight = 2
PROPERTY FinishedRunIsReturned
CHECK_DEADLOCK FALSE
