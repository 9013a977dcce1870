SPECIFICATION SyncSpec
CONSTANTS
    c1 = c1
    c2 = c2
    Conn <- Handlers
    maxBlocks = 2
    MaxRound = 3
    MaxBreaks = 1
    MaxCrashes = 1
    MaxWipes = 1
    MaxPartial = 1
    MaxFaults = 2
INVARIANTS
    SentIsStored
    StoredIsPrefix
    NoSilentGap
    NoSavedGap

    
\* the sender makes MaxRound blocks
CHECK_DEADLOCK FALSE
