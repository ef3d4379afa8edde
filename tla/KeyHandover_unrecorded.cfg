SPECIFICATION Spec
CONSTANTS
    t1 = t1
    t2 = t2
    t3 = t3
    d1 = d1
    d2 = d2
    d3 = d3
    Tasks = {t1, t2}
    Kinds = {"create", "use"}
    Names = {d1, d2}
    Default = d1
    Old = Old
    None = None
    MaxOpen = 2
INVARIANT CreationIsAudited
CHECK_DEADLOCK FALSE
