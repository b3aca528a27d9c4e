SPECIFICATION Spec
CONSTANTS
    Keys = {k1}
    Values = {a, b}
    Handles = {h1, h2}
    None = None
    MaxRegistrations = 2
    Ops = {"find", "add", "mutate", "delete", "mark_unchanged", "detach", "drop", "clear", "save_now", "delete_now", "transaction"}
    DuringSave = {"find", "add", "detach", "drop", "clear", "delete"}
    Faults = {"statement", "external", "duplicate_key", "commit"}
SYMMETRY Symmetry
INVARIANTS RegistrySound StatesAgree
CHECK_DEADLOCK FALSE
