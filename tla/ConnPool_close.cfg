SPECIFICATION Spec
CONSTANTS
    s1 = s1
    s2 = s2
    s3 = s3
    c1 = c1
    c2 = c2
    c3 = c3
    c4 = c4
    Senders = {s1, s2, s3}
    Conns = {c1, c2, c3}
    None = None
    MaxIdle = 2
    MaxActive = 1
    MaxRetries = 2
    MaxSends = 3
SYMMETRY Symmetry
INVARIANTS
    SoleUser
    CountIsConnections
    CloseQuitsAll
PROPERTY ImplementsMailer
CHECK_DEADLOCK FALSE
