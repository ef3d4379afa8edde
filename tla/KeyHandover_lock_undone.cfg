SPECIFICATION Spec
CONSTANTS
    t1 = t1
    t2 = t2
    t3 = t3
    d1 = d1
    d2 = d2
    d3 = d3
    Tasks = {t1, t2, t3}
    Kinds = {"use", "lock", "auto_lock"}
    Names = {d1}
    Default = d1
    Old = Old
    None = None
    MaxOpen = 2
INVARIANT PasswordFits
CHECK_DEADLOCK FALSE
