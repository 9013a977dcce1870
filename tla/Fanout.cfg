SPECIFICATION FairSpec
CONSTANTS
    c1 = c1
    c2 = c2
    Client <- TwoClients
    Cap = 1
    MaxTx = 3
    Failing = {c1}
INVARIANTS
    NoPanic

    
\* the transactions end with MaxTx
CHECK_DEADLOCK FALSE
