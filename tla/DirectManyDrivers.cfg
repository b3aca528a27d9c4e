SPECIFICATION FairSpec
CONSTANTS
    Drivers = {d1, d2}
    Callers = {c1}
    Faults = {"begin", "statement", "abort", "commit", "cancel", "cancel_begin"}
    MaxCalls = 1
    MaxStatements = 1
INVARIANTS DepthCoversEntered ScopesDistinct
PROPERTIES CallsReturn
CHECK_DEADLOCK FALSE
