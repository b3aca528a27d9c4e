SPECIFICATION Spec
CONSTANTS
  SystemSchemas = {1}
  Pairs <- MCPairs
INVARIANTS PlanRuns PlanLeads DownRestores LossesAreFlagged
CHECK_DEADLOCK FALSE
