SPECIFICATION FairSpec
CONSTANTS
    r1 = r1
    r2 = r2
    r3 = r3
    Requests <- MCRequests
    Http1Clients <- MCHttp1Clients
    MaxConns = 3
INVARIANTS
    SentOnce
    IdleLetsTheProcessExit
    LiveConnectionIsCurrent
    ArrivedStatusIsReported
PROPERTY EveryRequestSettles
CHECK_DEADLOCK FALSE
