SPECIFICATION FairSpec
CONSTANTS
    none = none
    None = none
    Configs <- MCFallback
    RingCap = 2
    kMaxEchoInflight = 2
    MaxFrames = 5
    MaxCommands = 0
    MaxFaults = 0
CHECK_DEADLOCK FALSE
PROPERTY EveryFrameDrained
