SPECIFICATION Spec
CONSTANTS
    a = a  b = b  k1 = k1  k2 = k2
    Clients = {a, b}
    Keys = {k1, k2}
    Backends <- BothBackends
    MaxRetries = 2
    MaxCalls = 3
SYMMETRY ClientSymmetry
INVARIANTS
    OneTimeUse
PROPERTIES
    ImplementsAtomicStore
CHECK_DEADLOCK FALSE
