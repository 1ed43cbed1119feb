SPECIFICATION Spec
CONSTANTS
    HeaderSize = 2
    Capacity = 4
    MaxBodySize = 5
    Bodies = {1, 3}
    MaxFrames = 2
    MaxMisread = 2
INVARIANT MessageIsAFrame
CHECK_DEADLOCK FALSE
