SPECIFICATION FairSpec
CONSTANTS
    Sizes <- MCSizes
    MaxWidth = 3
INVARIANTS
    TerminalIsRestored
    FirstEndDecides
    SizeIsFollowed
PROPERTY BridgeEnds
CHECK_DEADLOCK FALSE
