CONSTANTS
  ann = ann
  bob = bob
  cho = cho
  Agents <- Team
  Capabilities <- TeamCapabilities
  MaxTurns <- OneTurn
  Approval <- Unanimous
  TokenBudget = 7
  ProcessedLimit = 10
  SynthesisAt = 2
  ProposalBy = 4
  CallReserve = 1
  MaxProposals = 2
  MaxMessages = 2
  Replies <- TeamReplies
  MayBeSilent = FALSE
  Usages <- OneOrTwo
SPECIFICATION FairSpec
INVARIANTS
  ReservationsInFlight
  WaitersHaveACall
  VotingIsArmed
  NobodyStranded
PROPERTIES
  FirstReasonWins
  EventuallyStops
  ImplementsLifecycle
