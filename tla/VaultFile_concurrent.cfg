SPECIFICATION Spec
CONSTANTS
    t1 = t1
    t2 = t2
    p1 = p1
    p2 = p2
    c1 = c1
    c2 = c2
    Threads = {t1, t2}
    Operators = {t1, t2}
    Passwords = {p1}
    Contents = {c1, c2}
    InitialContent = c1
    None = None
    Partial = Partial
    MaxSalts = 3
    Locking = TRUE
    DiskFaults = FALSE
PROPERTY BackupHoldsPrevious
