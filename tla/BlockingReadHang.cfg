SPECIFICATION FairSpec
CONSTANTS
    t1 = t1
    t2 = t2
    none = none
    Threads = {t1, t2}
    Channels <- MCChannels
    ChannelOf <- MCSameChannel
    RingCap = 1
    FifoCap = 1
    MaxFrames = 1
    None = none
PROPERTY CallReturns
