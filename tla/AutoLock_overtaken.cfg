SPECIFICATION Spec
CONSTANTS
    r1 = r1
    r2 = r2
    Requests = {r1, r2}
    MaxCalls = 2
PROPERTY AutoLockLocks
CHECK_DEADLOCK FALSE
