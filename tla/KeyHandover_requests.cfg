SPECIFICATION Spec
CONSTANTS
    t1 = t1
    t2 = t2
    t3 = t3
    d1 = d1
    d2 = d2
    d3 = d3
    Tasks = {t1, t2, t3}
    Kinds = {"setup", "create", "use", "lock", "auto_lock"}
    Names = {d1, d2, d3}
    Default = d1
    Old = Old
    None = None
    MaxOpen = 2
INVARIANTS
    TypeOK
    KeyIsNotLost
    ShownKeysFit
    OneAgentKey
    MemoryFits
    AuditFailsOnlySo
CHECK_DEADLOCK FALSE
SYMMETRY Alike
