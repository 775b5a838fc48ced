CONSTANTS
    Pid = {1, 2, 3, 4, 5}
    Users = {0, 501}
    Me = 501
    Estimates = {0, 1, 2, 3}
    CallsFail = TRUE
    PidSize = 4
    IntMax = 7
    CIntMax = 40
SPECIFICATION FairSpec
INVARIANTS
    TypeOK
    LastingListed
    BufferSizeExact
PROPERTIES
    ListingReturns
