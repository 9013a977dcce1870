SPECIFICATION FairLockstepSpec
CONSTANTS
    n1 = n1
    n2 = n2
    n3 = n3
    n4 = n4
    Node <- FourNodes
    Chain <- WithoutProposer
    Proposer = n1
    SlotBlock <- FirstBlock
    MaxBlocks <- FifteenRounds
    MaxView = 1
    FireRounds = {11}
    Reached <- NextRound
PROPERTIES
    EveryChainDecides
CHECK_DEADLOCK FALSE
