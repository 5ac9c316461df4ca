SPECIFICATION Spec
CONSTANTS
    none = none
    None = none
    Configs <- MCOverflow
    RingCap = 3
    kMaxEchoInflight = 2
    MaxFrames = 5
    MaxCommands = 0
    MaxFaults = 0
CHECK_DEADLOCK FALSE
INVARIANT NoSilentLoss
