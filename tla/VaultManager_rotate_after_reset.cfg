SPECIFICATION Spec
CONSTANTS
    d1 = d1
    d2 = d2
    p1 = p1
    p2 = p2
    f1 = f1
    f2 = f2
    Names = {d1, d2}
    DefaultName = d1
    Passwords = {p1, p2}
    Forms = {f1, f2}
    None = None
    Empty = Empty
    Deployments <- RotateAfterReset
INVARIANT SharedAgentKey
CHECK_DEADLOCK FALSE
