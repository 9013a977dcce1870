SPECIFICATION Spec
CONSTANTS
    c1 = c1
    c2 = c2
    Conn <- Handlers
    maxBlocks = 1
    MaxRound = 3
    MaxBreaks = 0
    MaxCrashes = 0
    MaxWipes = 1
    MaxPartial = 0
    MaxFaults = 1
INVARIANTS
    RequestWithinLimit
\* the sender makes MaxRound blocks
CHECK_DEADLOCK FALSE
