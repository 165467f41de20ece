\* One voter, two proposals, three routes, a missing team, a failing request, a broken stream.
SPECIFICATION FairSpec
CONSTANTS
  a = a
  Voters <- MCOne
  MaxProposals = 2
  TeamsMissing = TRUE
  MaxRoutes = 3
  MaxTogether = 4
  MaxErrors = 1
  MaxBreaks = 1
INVARIANTS
  NothingInvented
  FreshIsTrue
PROPERTIES
  NeverTakenBack
  EndIsShown
CHECK_DEADLOCK FALSE
