SPECIFICATION Spec
CONSTANTS
    NumCores = 2
    Tasks = {t1, t2}
    NoTask = NoTask
    Unsupported = {}
    MaxVersion = 1
    MaxFaults = 2
    MaxCrashes = 0

PROPERTY
    RolledBackEverywhere
