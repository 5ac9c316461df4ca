SPECIFICATION FairSpec
CONSTANTS
    none = none
    None = none
    Configs <- MCConfigs
    RingCap = 3
    kMaxEchoInflight = 2
    MaxFrames = 5
    MaxCommands = 1
    MaxFaults = 2
CHECK_DEADLOCK FALSE
INVARIANTS
    BufferExclusive
    NoSilentLoss
    SentInOrderOnce
PROPERTY EveryFrameDrained
