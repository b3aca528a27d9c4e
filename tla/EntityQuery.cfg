SPECIFICATION Spec
CONSTANTS
    None = None
    Null = Null
    Unquotable = {""}
    TableColumns <- MCColumns
    MaxParams = 4
    Root <- MCRoot
    Target <- MCTarget
    Navigations <- MCNavigations
    Scenarios <- MCScenarios
    FilterChoices <- MCFilters
    JoinChoices <- MCJoins
    OrderChoices <- MCOrders
    PageChoices <- MCPages
    ProjectionChoices <- MCProjections
    FromChoices <- MCFrom
    KeyChoices <- MCKeys
    AggregateChoices <- MCAggregates
    HavingChoices <- MCHavings
    GroupOrderChoices <- MCGroupOrders
    ScalarChoices <- MCScalars
    Aliases = {"x"}
    RowLimits = {1, 9}
    MaxCalls = 2
INVARIANTS PoliciesHold ResultsAgree IncludesComplete TreesSound
CHECK_DEADLOCK FALSE
