SPECIFICATION FairSpec
CONSTANTS
    MaxProc = 2
    NodeCount = 4
    nodeID = 1
    Registries <- TwoRegistries
    Handler = {h1}
INVARIANTS
    RunsOnComplete
    OneListens
PROPERTIES
    EndsClean
    
    PeerReached
\* the operator may start no further process
CHECK_DEADLOCK FALSE
