SPECIFICATION FairSpec
CONSTANTS
    Hosts = {h1, h2}
    HostKeys = {k1, k2}
    Tasks = {t1, t2, t3}
    NoTask = NoTask
INVARIANTS
    TypeOK
    WritesUnderLock
    ConnectedIsPinned
PROPERTIES
    TrustsFirstUse
    EveryConnectEnds
