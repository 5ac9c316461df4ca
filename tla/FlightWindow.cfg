SPECIFICATION BidirSpec
CONSTANTS
    kCapacity = 4
    kGraceEntries = 1
    ChunkSize = 2
    LateOverlaps = FALSE
    MaxSeq = 6
    MaxTests = 2
    MaxDups = 1
    BurstSize = 2
    OrderWindow = 1000
CHECK_DEADLOCK FALSE
INVARIANTS
    CountersAgree
    ConfirmedExact
    RejectedOnlyLate
    GapsAreLosses
