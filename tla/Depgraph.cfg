SPECIFICATION FairSpec
CONSTANTS
    r = r
    a = a
    x = x
    Block <- Ladder
    Deps <- LadderDeps
    KeyOrder <- Keys
    RefLimit = 2
    CacheLimit = 1
    MaxIn = 2
    MaxCrashes = 1
INVARIANTS
    IncludedOnce
    CausalOrder
    PendingFound
    NoLostWakeup
    NothingForgotten
PROPERTIES
    EveryBlockIncluded
