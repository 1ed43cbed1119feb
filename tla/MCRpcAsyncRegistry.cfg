SPECIFICATION FairSpec
CONSTANTS
    Services = {s1}
    Ids = {i1, i2}
    Hosts = {h1, h2}
    Watchers = {w1}
    Coros = {c1, c2}
    NoCoro = none
    MaxOps = 2
INVARIANTS MirrorsAgree RegistryInv OwnResult
PROPERTIES ImplementsLocal OperationsEnd
CHECK_DEADLOCK FALSE
