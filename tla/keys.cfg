SPECIFICATION Spec
CONSTANTS
    Member = {a, b, c}
    Founding = {a, b}
    Waiting = {c}
    Secret = {s}
    Kept = {s}
    Luck <- OneOrNone
    MaxEvents = 4
INVARIANTS
    TypeOK
    NobodyLockedOut
    AllReadable
    RemovedCannotRead
    RotationRepairs
    PendingHasSponsor
SYMMETRY Symmetric
CHECK_DEADLOCK FALSE
