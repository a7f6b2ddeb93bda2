SPECIFICATION Spec
CONSTANTS
    Secrets <- TwoSecrets
    Tags <- ThreeTags
    Word = {1, 2}
    Blank = 0
    StartsWith <- Starts
    Value = {"", "v"}
    Members <- TwoMembers
    Me = 1
    Opening <- OneVault
    Pulled <- Elsewhere
    MaxTokens = 1
    MaxSaves = 1
    MaxFilter = 1
    MaxSyncs = 1
    MaxTimers = 1
INVARIANTS TypeOK MatchesFitText NoDeadCursor QuestionShown
PROPERTIES TagOpsComplete OnlyTouched
