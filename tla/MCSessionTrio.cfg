CONSTANTS
  ann = ann
  bob = bob
  cho = cho
  Agents <- Team
  Capabilities <- TrioCapabilities
  MaxTurns <- OneTurn
  Approval <- Participating
  TokenBudget = 12
  ProcessedLimit = 30
  SynthesisAt = 2
  ProposalBy = 4
  CallReserve = 1
  MaxProposals = 2
  MaxMessages = 2
  Replies <- TrioReplies
  MayBeSilent = TRUE
  Usages <- UnitUsage
SPECIFICATION Spec
INVARIANTS
  ReviewsAreCurrent
  CallsBounded
PROPERTIES
  VotesAreInformed
  RevisedByItsProposer
