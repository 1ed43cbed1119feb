SPECIFICATION Spec
CONSTANTS
    IdSpace = 2
    CallModes = {"UNARY", "BIDI_STREAMING"}
    Answers = {"result", "METHOD_NOT_FOUND"}
    Interrupts = {"REQUEST_TIMEOUT"}
    MaxCalls = 3
    MaxConns = 2
    Faults = TRUE
    TornWrites = TRUE
INVARIANTS OwnAnswer CallInv
PROPERTIES BehindUntilReconnect KeepsPromise
CHECK_DEADLOCK FALSE
