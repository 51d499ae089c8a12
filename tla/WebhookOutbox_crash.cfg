SPECIFICATION FairSpec
CONSTANTS
    e1 = e1  c1 = c1  c2 = c2  w1 = w1  w2 = w2  i1 = i1  i2 = i2
    Events = {e1}
    Configs = {c1}
    Instances = {i1, i2}
    Workers = {w1, w2}
    InstanceOf <- TwoProcesses
    RetryCount <- RetryTwo
    BadPayload <- NoBadPayload
    NoEntry = NoEntry
    Lease = 1
    MaxHold = 1
    BatchLimit = 2
    MaxFaults = 1
    MaxReplays = 0
    MaxRestarts = 1
INVARIANTS
    SingleOwner
    CompletedWasDelivered
    RequestBudget
PROPERTIES
    EventuallySettled
    StopReturnsEventually
CHECK_DEADLOCK FALSE
