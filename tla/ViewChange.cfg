SPECIFICATION TurnSpec
CONSTANTS
    n1 = n1
    n2 = n2
    n3 = n3
    n4 = n4
    Node <- FourNodes
    Chain <- FourChains
    Proposer = n1
    SlotBlock <- FirstBlock
    MaxBlocks <- FourBlocks
    MaxView = 1
    FireBlocks = {3}
INVARIANTS
    DecisionCarried
    HNVFirst
    
    PrepareNotMissed
    
CHECK_DEADLOCK FALSE
