SPECIFICATION Spec
CONSTANTS
    r1 = r1
    r2 = r2
    Requests = {r1, r2}
    MaxCalls = 3
INVARIANT TypeOK
PROPERTIES
    IdleVaultIsLocked
    StoppedTimersEnd
CHECK_DEADLOCK FALSE
