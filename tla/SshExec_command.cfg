SPECIFICATION ExecSpec
CONSTANTS
    Window = 2
    MaxChunks = 3
INVARIANTS
    ExecTypeOK
    OutputIsComplete
PROPERTIES
    CallReturns
CHECK_DEADLOCK FALSE
