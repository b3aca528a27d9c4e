SPECIFICATION Spec
CONSTANTS
    N = 3
    Tables = {1, 2, 3}
    Assignments <- Sharings
INVARIANTS PlanIsLeast CycleIffNoPlan
CHECK_DEADLOCK FALSE
