SPECIFICATION FairSpec
CONSTANTS
    Drivers = {"d1", "d2"}
    Callers = {"c1"}
    Connections = {p1, p2}
    None = None
    Faults <- MCFaults
    MaxCalls = 1
    MaxStatements <- MCMaxStatements
INVARIANTS PoolSound TransactionHandleAdmitted
PROPERTIES CallsReturn ImplementsContract SlotHasOneOwner
CHECK_DEADLOCK FALSE
