SPECIFICATION FairSpec
CONSTANTS
    n1 = n1
    n2 = n2
    Node <- Chains
    MaxRound = 2
    MaxMax = 4
    MaxBlocks = 3
    MaxCrashes = 2
INVARIANTS
    InOrder
    AcknowledgedIsHeard
    ListFound
    BlocksFound
    ConsumedIsDone
PROPERTIES
    EveryRoundAcknowledged
\* the rounds end with MaxRound
CHECK_DEADLOCK FALSE
