SPECIFICATION Spec
CONSTANTS
    Member = {a, b}
    Secret = {s1}
    RootId = {1, 2}
    MaxDate = 0
    NoKey = NoKey
    Proc = {a, b}
    Owner <- OneTerminal
    MaxJobs = 1
    MaxFaults = 0
    Skew = 0
    Typo = FALSE
    ColdJoin = FALSE
INVARIANTS
    EditsMerged
SYMMETRY Symmetric
CHECK_DEADLOCK FALSE
