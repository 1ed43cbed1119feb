SPECIFICATION FairSpec
CONSTANTS
    MaxClients = 4
INVARIANTS SilentServerHasError ConnectionsAccounted AtMostOneAfterStop
PROPERTY ClientsAreAccepted
CHECK_DEADLOCK FALSE
