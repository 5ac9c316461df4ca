SPECIFICATION Spec
CONSTANTS
    RX_RING_SIZE = 2
    AbortDelivers = TRUE
    PartialAccept = {TRUE}
    MaxSessions = 1
    MaxFailures = 0
CHECK_DEADLOCK FALSE
INVARIANT SuccessIsReception
