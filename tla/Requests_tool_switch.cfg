SPECIFICATION Spec
CONSTANTS
    a1 = a1
    a2 = a2
    m1 = m1
    m2 = m2
    d1 = d1
    d2 = d2
    f1 = f1
    f2 = f2
    Agents = {a1}
    Admins = {m1}
    Names = {d1, d2}
    Targets = {d1, d2}
    Start = d1
    Forms = {f1}
    FirstForm = f1
    None = None
    Kinds = {"select"}
    MaxCalls = 2
    MaxOpen = 2
INVARIANT ToolActsOnProfile
CHECK_DEADLOCK FALSE
