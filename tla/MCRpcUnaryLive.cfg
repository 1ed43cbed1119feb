SPECIFICATION FairSpec
CONSTANTS
    IdSpace = 2
    CallModes = {"UNARY"}
    Answers = {"result", "METHOD_NOT_FOUND"}
    Interrupts = {"REQUEST_TIMEOUT"}
    MaxCalls = 4
    MaxConns = 2
    Faults = FALSE
    TornWrites = FALSE
PROPERTY EveryCallAnswered
CHECK_DEADLOCK FALSE
