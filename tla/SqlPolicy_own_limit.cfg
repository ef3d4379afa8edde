SPECIFICATION Spec
CONSTANTS
    x = x
    y = y
    None = None
    Tables = {x, y}
    Statements <- AgentStatements
    Requested <- AgentLimits
    HardMaxima <- SubmittedMaxima
    MaxRows = {1, 2000}
    Toggles = {"insert", "drop"}
    Levels = {"readonly", "sql", "write"}
INVARIANT RowCap
