SPECIFICATION FairSpec
CONSTANTS
    None = None
    Configs <- MCConfigs
    Statements <- MCStatements
    Ops = {"execute", "fetch", "begin", "commit", "rollback", "is_valid"}
    Replies = {"deadlock", "permanent", "interrupted", "io"}
    ShiftBits = 2
    MaxCalls = 3
INVARIANTS WritesOnce CallsBounded AttemptsLogged
PROPERTIES CallsEnd
CHECK_DEADLOCK FALSE
