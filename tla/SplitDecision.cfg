SPECIFICATION LockstepSpec
CONSTANTS
    n1 = n1
    n2 = n2
    n3 = n3
    n4 = n4
    Node <- FourNodes
    Chain <- FourChains
    Proposer = n1
    SlotBlock <- FirstBlock
    MaxBlocks <- LongSilence
    MaxView = 2
    FireRounds = {11, 27}
    Reached <- ThenCutOff
INVARIANTS
    Agreement
CHECK_DEADLOCK FALSE
