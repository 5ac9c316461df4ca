SPECIFICATION Spec
CONSTANTS
    RX_RING_SIZE = 2
    AbortDelivers = TRUE
    PartialAccept = {FALSE}
    MaxSessions = 2
    MaxFailures = 0
CHECK_DEADLOCK FALSE
PROPERTY CleanStart
