SPECIFICATION Spec
CONSTANTS
    None = None
    Null = Null
    Contexts <- MCContexts
    Loaded <- MCLoaded
    MaxIds = 4
    MaxSteps = 4
    MaxStatements = 3
INVARIANTS TrackerFollows
PROPERTIES RelationshipsSaved RefusedKeepsChanges
CHECK_DEADLOCK FALSE
