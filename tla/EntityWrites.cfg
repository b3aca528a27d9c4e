SPECIFICATION Spec
CONSTANTS
    None = None
    Null = Null
    Clients = {"a", "b"}
    Scenarios <- MCScenarios
    MaxSteps = 4
INVARIANTS WritesSound
PROPERTIES WritesConfined AnswersTrue
CHECK_DEADLOCK FALSE
