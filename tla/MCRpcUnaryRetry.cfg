SPECIFICATION Spec
CONSTANTS
    IdSpace = 4
    CallModes = {"UNARY"}
    Answers = {"result"}
    Interrupts = {"REQUEST_TIMEOUT"}
    MaxCalls = 2
    MaxConns = 1
    Faults = TRUE
    TornWrites = FALSE
INVARIANT RetryIsNotRefused
CHECK_DEADLOCK FALSE
