SPECIFICATION Spec
CONSTANTS
    Window = 1
    Request = 2
    Reply = 2
    MaxConns = 2
    Certs = 1
    MaxFaults = 2
INVARIANTS
    TypeOK
    SecretsAreRemoved
PROPERTIES
    CallSucceeds
    CallReturns
CHECK_DEADLOCK FALSE
