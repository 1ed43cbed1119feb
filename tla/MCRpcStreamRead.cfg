SPECIFICATION FairSpec
CONSTANTS
    HeaderSize = 2
    Capacity = 4
    MaxBodySize = 5
    Bodies = {1, 3, 5, 6}
    MaxFrames = 2
    MaxMisread = 1
INVARIANTS MessagesAreFramesInOrder LoopsStopAtTheEnd NoSpaceMeansOversizeBody AlignedInv
PROPERTY EveryFrameRead
CHECK_DEADLOCK FALSE
