SPECIFICATION Spec
CONSTANTS
    NumCores = 2
    Tasks = {t1, t2}
    NoTask = NoTask
    Unsupported = {}
    MaxVersion = 2
    MaxFaults = 2
    MaxCrashes = 1
SYMMETRY Symmetry
INVARIANTS
    TypeOK
    AcceptedByAll
    RollbackCopyUsable
PROPERTIES
    AppliedIsLive
    RolledBackIsRestored
    SwitchesTogether
