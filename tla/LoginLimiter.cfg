SPECIFICATION Spec
CONSTANTS
    Accounts = {a1, a2, a3}
    Addresses = {i1, i2}
    Requests = {r1, r2}
    MaxAttempts = 2
    Lockout = 2
    CleanupEvery = 3
    Capacity = 2
    MaxLog = 4
    MaxFaults = 1
    MaxTime = 2
SYMMETRY Symmetry
CHECK_DEADLOCK FALSE
INVARIANTS
    TypeOK
    NoExtraGuess
    WithinCapacity
    RefusalIsEarned
    RetryAfterIsExact
