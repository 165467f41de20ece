CONSTANTS
  HistoryLimit = 4
  MaxTurns = 2
  MaxRequests = 4
  MaxVersions = 2
  MaxHistory = 6
  MaxNotices = 1
  MaxToolCalls = 1
SPECIFICATION Spec
INVARIANTS
  RequestWellFormed
  FeedbackIsCurrent
  NoCallOverlooked
CHECK_DEADLOCK FALSE
