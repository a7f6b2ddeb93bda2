SPECIFICATION Spec
CONSTANTS
    Me = me
    Member = {me, b}
    Guests = {b}
    Secret = {s1, s2}
    Value = {v1, v2}
    MaxDek = 2
    MaxCopies = 1
    MaxSyncs = 1
PROPERTY SaveKeepsOthers
CHECK_DEADLOCK FALSE
