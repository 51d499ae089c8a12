SPECIFICATION Spec
CONSTANTS
    e1 = e1  c1 = c1  c2 = c2  w1 = w1  w2 = w2  i1 = i1  i2 = i2
    Events = {e1}
    Configs = {c1, c2}
    Instances = {i1}
    Workers = {w1, w2}
    InstanceOf <- OneProcess
    RetryCount <- RetryOneTwo
    BadPayload <- BadSecond
    NoEntry = NoEntry
    Lease = 1
    MaxHold = 1
    BatchLimit = 1
    MaxFaults = 1
    MaxReplays = 2
    MaxRestarts = 0
SYMMETRY WorkerSymmetry
INVARIANTS
    AtomicPublish
    ProcessingIsHeld
    DeadIsExhausted
PROPERTIES
    ImplementsDelivery
CHECK_DEADLOCK FALSE
