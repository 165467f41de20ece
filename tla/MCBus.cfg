CONSTANTS
  ann = ann
  bob = bob
  cho = cho
  all = all
  Agents <- MCAgents
  Broadcast <- all
  Recipients <- MCRecipients
  MaxPosts = 2
  MaxNotices = 1
SPECIFICATION BusFairSpec
INVARIANTS
  EventMatchesQueues
  SleepersHaveNoMail
PROPERTIES
  ImplementsMailbox
CHECK_DEADLOCK FALSE
