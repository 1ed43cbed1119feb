SPECIFICATION FairSpec
CONSTANTS
    IdSpace = 3
    ChanCap = 2
    Windows = {3, 5}
    FramesPerStream = 6
    Routes = {"known", "unknown", "broken"}
    MaxSessions = 4
INVARIANTS OwnEchoes HandlerKeepsToItsSession SessionInv
PROPERTIES SessionFinishes SessionEnds ServerLetsGo KeepsStreamPromise
CHECK_DEADLOCK FALSE
