SPECIFICATION Spec
CONSTANTS
    none = none
    kLineBuffer = 256
    Routes <- MCRoutes
    Frames <- MCFrames
    Bitrates = {300000, 500000, 5000000}
    BusRate = 500000
    GsClock <- MCGsClock
    TransferSize = 64
    Unsent = 165
    MaxFrames = 2
    MaxNoise = 1
    MaxStops = 1
    MaxOpens = 3
CHECK_DEADLOCK FALSE
INVARIANTS
    ZeroPadded
