SPECIFICATION FairSpec
CONSTANTS
    NumCores = 2
    Tasks = {t1, t2}
    NoTask = NoTask
    Unsupported = {1}
    MaxVersion = 2
    MaxFaults = 1
    MaxCrashes = 0
PROPERTIES
    EverySyncEnds
    CommitGoesLive
