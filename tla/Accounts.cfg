SPECIFICATION Spec
CONSTANTS
    Tasks = {r1, r2}
    Permits = 1
    Names = {admin, eve}
    First = admin
    MaxUsers = 3
    MaxHashes = 1
    MaxSubs = 1
INVARIANTS
    TypeOK
    ThreadsBounded
    ServesItsOwner
    SomeAdministrator
PROPERTIES
    ReplacesVerified
CHECK_DEADLOCK FALSE
