SPECIFICATION FairSpec
CONSTANTS
    Member = {a, b}
    Secret = {}
    RootId = {1}
    MaxDate = 0
    NoKey = NoKey
    Proc = {a, b}
    Owner <- OneTerminal
    MaxJobs = 2
    MaxFaults = 1
    Skew = 0
    Typo = FALSE
    ColdJoin = FALSE
INVARIANTS
    CacheAhead
PROPERTIES
    CacheMonotone
    RemoteMonotone
    FilesWriteThrough
    Convergence
CHECK_DEADLOCK FALSE
