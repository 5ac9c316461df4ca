SPECIFICATION FairSpec
CONSTANTS
    a1 = a1
    a2 = a2
    u1 = u1
    u2 = u2
    none = none
    Adapters = {a1, a2}
    ChannelOf <- MCChannelOf
    Profiles <- MCProfiles
    Clients = {u1, u2}
    None = none
    MaxConns = 2
    MaxHeld = 2
INVARIANTS
    DriverConsistent
    RunsForClients
    ChannelsAgree
    ConnectionReachable
PROPERTIES
    ConnectEnds
    AbandonedStops
CHECK_DEADLOCK FALSE
