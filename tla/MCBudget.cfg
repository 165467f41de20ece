\* Default and explicit thresholds; a call may cost two more than it has reserved.
SPECIFICATION BudgetSpec
CONSTANTS
  Policies <- MCPolicies
  MaxExcess = 2
  MaxCached = 3
INVARIANTS
  WithinBoundary
  NoPhaseSkipped
  DecisionAffordable
CHECK_DEADLOCK FALSE
