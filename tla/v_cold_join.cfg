SPECIFICATION CoreSpec
CONSTANTS
    Member = {a, b}
    Secret = {}
    RootId = {1, 2}
    MaxDate = 0
    NoKey = NoKey
    Proc = {a, b}
    Owner <- OneTerminal
    MaxJobs = 1
    MaxFaults = 0
    Skew = 1
    Typo = FALSE
    ColdJoin = TRUE
INVARIANT OneCreation
CHECK_DEADLOCK FALSE
