CONSTANTS
  a1 = a1
  a2 = a2
  a3 = a3
  a4 = a4
  a5 = a5
  Agents <- MCAgents
  Approvals <- MCApprovals
  MaxVersion = 2
SPECIFICATION Spec
INVARIANTS
  ExpiryDecides
  DecisionExact
PROPERTIES
  VerdictFinal
CHECK_DEADLOCK FALSE
