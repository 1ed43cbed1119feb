SPECIFICATION Spec
CONSTANTS
    HeaderSize = 2
    Base = 3
    MaxBodySize = 6
    MaxBody = 7
    MaxExtra = 2
INVARIANT ParsersAgree
PROPERTY DecisionIsStable
CHECK_DEADLOCK FALSE
