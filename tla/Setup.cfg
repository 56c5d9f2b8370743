SPECIFICATION Spec
CONSTANTS
    Requests = {r1, r2}
    MaxRows = 4
    MaxEdits = 2
    MaxCrashes = 1
INVARIANTS
    TypeOK
    SeededOnceAndWhole
    CredentialsReused
    PasswordChangedFirst
    OwnerExists
    ExistingStaysConfigured
PROPERTIES
    CompletedIsServed
    PendingUntilCompleted
