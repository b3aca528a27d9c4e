SPECIFICATION FairSpec
CONSTANTS
    Missing = Missing
    Clients = {c1, c2}
    Downgraders = {c1}
    Objects = {1, 2}
    MaxId = 2
    FirstIds = {1, 2}
    FirstModels = {{1, 2}}
    Models = {{}, {1}, {1, 2}}
    MaxChanges = 2
    MaxScripts = 3
    Faults = {"crash", "statement", "edit", "branch"}
INVARIANTS HistorySound
PROPERTIES ScriptsInOrder ScriptEnds
CHECK_DEADLOCK FALSE
