\* Two clients, two sessions, one write that fails.
SPECIFICATION Spec
CONSTANTS
  a = a
  b = b
  Clients <- MCClients
  MaxSessions = 2
  MaxFailures = 1
SYMMETRY Symmetry
INVARIANTS
  OneAtATime
  KnownIsFound
  CancelEnds
  AnswersStand
CHECK_DEADLOCK FALSE
