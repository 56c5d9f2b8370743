SPECIFICATION Spec
CONSTANTS
    Jobs = {j1, j2}
    Keyed = {1}
    MaxNodes = 2
    MaxCreds = 2
    MaxWork = 3
INVARIANTS
    TypeOK
    StrayOnlyLate
PROPERTIES
    StoredIsRunning
    OneRestartPerOutage
