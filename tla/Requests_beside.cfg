SPECIFICATION Spec
CONSTANTS
    a1 = a1
    a2 = a2
    m1 = m1
    m2 = m2
    d1 = d1
    d2 = d2
    f1 = f1
    f2 = f2
    Agents = {a1, a2}
    Admins = {m1, m2}
    Names = {d1, d2}
    Targets = {d1, d2}
    Start = d1
    Forms = {f1, f2}
    FirstForm = f1
    None = None
    Kinds = {"update", "select", "archive"}
    MaxCalls = 3
    MaxOpen = 2
INVARIANTS
    TypeOK
    ToolIsOnlyDivertedSo
PROPERTIES
    UpdateReachesItsFile
    ArchivedStaysArchived
CHECK_DEADLOCK FALSE
SYMMETRY Alike
