SPECIFICATION Spec
CONSTANTS
    f = f
    x = x
    y = y
    rw = rw
    s = s
    t = t
    none = none
    Files <- MCFiles
    Hashes <- MCHashes
    Modes <- MCModes
    None = none
    torn = torn
    Torn = torn
    Syncs <- MCSyncs
    Granularity = 1
    Margin = 1
    Chunks = 1
    Attempts = 2
    MaxTime = 2
    MaxEdits = 1
    MaxSyncs = 3
INVARIANTS
    MatchMeansUnchanged
CHECK_DEADLOCK FALSE
SYMMETRY Symmetry
