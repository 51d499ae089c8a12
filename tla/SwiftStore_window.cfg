SPECIFICATION FairSpec
CONSTANTS
    a = a  b = b  k1 = k1  k2 = k2
    Clients = {a}
    Keys = {k1}
    Backends <- BadgerOnly
    MaxRetries = 2
    MaxCalls = 3
PROPERTIES
    CounterExpires
CHECK_DEADLOCK FALSE
