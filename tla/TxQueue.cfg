SPECIFICATION FairSpec
CONSTANTS
    a = a
    b = b
    c = c
    d = d
    Tx <- All
    size <- Sizes
    txSizeLimit = 8
    Room = 4
    Header = 1
    initialRate = 1
    rateIncr = 1
    rateDecr = 8
    MaxRate = 3
    MaxCrashes = 1
INVARIANTS
    Accounted
    BufferFits

    
