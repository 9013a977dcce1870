SPECIFICATION TurnSpec
CONSTANTS
    n1 = n1
    n2 = n2
    n3 = n3
    n4 = n4
    Node <- FourNodes
    Chain <- ForkedProposer
    Proposer = n1
    SlotBlock <- FirstBlock
    MaxBlocks <- ThreeBlocks
    MaxView = 1
    FireBlocks = {2}
INVARIANTS
    OneBlock
    
    
CHECK_DEADLOCK FALSE
