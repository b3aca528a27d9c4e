SPECIFICATION Spec
CONSTANTS
    Keys = {k1, k2}
    Values = {a, b}
    Handles = {h1, h2}
    None = None
    MaxRegistrations = 3
    Ops = {"find", "add", "mutate", "delete", "drop", "transaction"}
    DuringSave = {}
    Faults = {}
SYMMETRY Symmetry
INVARIANTS TrackerFaithful
PROPERTIES IntentSurvives SaveSettles
CHECK_DEADLOCK FALSE
