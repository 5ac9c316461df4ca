SPECIFICATION FairSpec
CONSTANTS
    RX_RING_SIZE = 4
    AbortDelivers = TRUE
    PartialAccept = {TRUE, FALSE}
    MaxSessions = 2
    MaxFailures = 1
CHECK_DEADLOCK FALSE
INVARIANTS
    SlotsExact
    BufferUsedOnce
PROPERTY FreeSlotResubmitted
