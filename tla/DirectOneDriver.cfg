SPECIFICATION Spec
CONSTANTS
    Drivers = {d1}
    Callers = {c1, c2}
    Faults = {"begin", "statement", "abort", "commit", "unanswered", "cancel", "cancel_begin"}
    MaxCalls = 2
    MaxStatements = 2
SYMMETRY Symmetry
INVARIANTS TypeOK AllOrNothing RuntimeTruthful
PROPERTIES ImplementsContract
CHECK_DEADLOCK FALSE
