SPECIFICATION FairSpec
CONSTANTS
    HeaderSize = 3
    LenSize = 2
    LenSpace = 3
    NameSizes = {0, 1, 2, 4}
    SegmentSizes = {0, 1, 3}
INVARIANTS SendInv ParsesBack
PROPERTY EverySendEnds
