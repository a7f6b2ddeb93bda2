SPECIFICATION FairSpec
CONSTANTS
    Member = {a, b}
    Secret = {}
    RootId = {1, 2}
    MaxDate = 1
    NoKey = NoKey
    Proc = {a, b}
    Owner <- OneTerminal
    MaxJobs = 1
    MaxFaults = 0
    Skew = 0
    Typo = FALSE
    ColdJoin = FALSE
INVARIANTS
    TypeOK
    GenerationPure
    PullKeepsCache
    OneCreation
PROPERTIES
    Convergence
CHECK_DEADLOCK FALSE
