SPECIFICATION Spec
CONSTANTS
    p1 = p1
    p2 = p2
    e1 = e1
    e2 = e2
    e3 = e3
    tester = tester
    None = none
    Adapters = {p1, p2}
    Engines = {e1, e2, e3}
    Tester = tester
    Handles <- MCHandles
    ChannelOf <- MCChannelOf
    Impls = {1}
    Channels = {0, 1}
    MaxReaders = 2
PROPERTIES
    PreservedRuns
CHECK_DEADLOCK FALSE
