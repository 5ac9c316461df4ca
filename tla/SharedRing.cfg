SPECIFICATION Spec
CONSTANTS
    Cap <- MCCap
    EntrySize <- MCEntrySize
    Modulus <- MCModulus
    MaxFrames <- MCMaxFrames
    MaxDrops <- MCMaxDrops
INVARIANTS
    TypeOK
    FrameIntact
    UsedIsExact
    BatchReachesHead
PROPERTIES
    DropOnlyWhenFull
    FifoSpec
CHECK_DEADLOCK FALSE
