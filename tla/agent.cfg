SPECIFICATION FairSpec
CONSTANTS
    Session = {t}
    Agent = {s1, s2}
    NoAgent = NoAgent
    MaxTries = 2
    MaxTimeouts = 2
INVARIANTS
    TypeOK
    LogoutForgets
PROPERTY OrphansExpire
CHECK_DEADLOCK FALSE
