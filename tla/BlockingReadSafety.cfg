SPECIFICATION Spec
CONSTANTS
    t1 = t1
    t2 = t2
    none = none
    Threads = {t1, t2}
    Channels <- MCChannels
    ChannelOf <- MCSameChannel
    RingCap = 2
    FifoCap = 1
    MaxFrames = 2
    None = none
INVARIANTS
    OneDrainer
    NotificationConserved
    NoMissedNotification
    EachReaderOnce
