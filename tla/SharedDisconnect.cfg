SPECIFICATION Spec
CONSTANTS
    a1 = a1
    a2 = a2
    u1 = u1
    u2 = u2
    none = none
    Adapters = {a1, a2}
    ChannelOf <- MCChannelOf
    Profiles <- SharedProfiles
    Clients = {u1, u2}
    None = none
    MaxConns = 2
    MaxHeld = 2
PROPERTIES
    SharedDisconnectKeeps
CHECK_DEADLOCK FALSE
