SPECIFICATION Spec
CONSTANTS
    Jobs = {j1}
    Keyed = {1}
    MaxNodes = 1
    MaxCreds = 1
    MaxWork = 3
INVARIANT RestartsOnlyDown
