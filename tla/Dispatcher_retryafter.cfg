SPECIFICATION Spec
CONSTANTS
    MaxRetriesArg = 3
    Timeout = 10
    RetryAfters <- RetryAfterMinutes
    CustomBackoffs <- NoCustom
    Defects <- NoDefects
    MaxElapsed = 300
INVARIANTS
    FitsLease
CHECK_DEADLOCK FALSE
