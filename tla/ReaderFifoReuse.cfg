SPECIFICATION Spec
CONSTANTS
    c1 = c1
    c2 = c2
    c3 = c3
    ch0 = ch0
    ch1 = ch1
    none = none
    None = none
    Channels <- MCChannels
    ChannelOf <- MCChannelOf
    Clients = {c1, c2, c3}
    kMaxReaders = 1
    kFifoSize = 3
    Scenarios <- MCReuse
    MaxPackets = 4
    MaxRegs = 2
    MaxResets = 0
CHECK_DEADLOCK FALSE
INVARIANT MatchingChannelOnly
