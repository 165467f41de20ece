\* Three agents, two proposals, two crashes, a shutdown, a store failure.
SPECIFICATION FairSpec
CONSTANTS
  a = a
  b = b
  c = c
  Agents <- MCAgents
  Proposers <- MCProposers
  Voters <- MCVoters
  Approval <- MCParticipating
  MaxProposals = 2
  MaxCrashes = 2
  MaxShutdowns = 1
  MaxFailures = 1
INVARIANTS
  DecisionRestorable
  NothingOpen
  ToldIsDurable
PROPERTIES
  EndsInStore
  ImplementsLedger
CHECK_DEADLOCK FALSE
