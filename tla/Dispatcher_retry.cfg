SPECIFICATION FairSpec
CONSTANTS
    MaxRetriesArg = 36
    Timeout = 0
    RetryAfters <- RetryAfterMinutes
    CustomBackoffs <- NoCustom
    Defects <- AllDefects
    MaxElapsed = 0
INVARIANTS
    AttemptsAreCounted
    PanicsOnlyOnOverflow
PROPERTIES
    NoRequestOnceSettled
    Returns
    ImplementsRetryLoop
CHECK_DEADLOCK FALSE
