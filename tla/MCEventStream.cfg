\* Two browsers, four events, queues of two, two broken connections.
SPECIFICATION FairSpec
CONSTANTS
  c1 = c1
  c2 = c2
  None = None
  Clients = {c1, c2}
  QueueSize = 2
  Total = 4
  MaxBreaks = 2
INVARIANTS
  NoGapNoRepeat
PROPERTY
  ImplementsFeed
CHECK_DEADLOCK FALSE
