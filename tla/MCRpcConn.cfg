SPECIFICATION FairSpec
CONSTANTS
    HeaderSize = 2
    FieldSize = 1
    RingBufferSize = 5
    DefaultRingSize = 8
    MaxBodySize = 4
    MaxMessageSize = 4
    Bodies = {0, 1, 2, 4}
    MaxFrames = 2
INVARIANTS MessagesAreFrames BorrowedPayloadIntact NoSpaceMeansOversize FramingInv
PROPERTIES RejectionIsFinal EveryFrameSettled
