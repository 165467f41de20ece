CONSTANTS
  ann = ann
  bob = bob
  cho = cho
  Agents <- Team
  Capabilities <- TeamCapabilities
  MaxTurns <- OneTurn
  Approval <- Unanimous
  TokenBudget = 9
  ProcessedLimit = 13
  SynthesisAt = 2
  ProposalBy = 4
  CallReserve = 1
  MaxProposals = 2
  MaxMessages = 2
  Replies <- SilentReplies
  MayBeSilent = TRUE
  Usages <- UnitUsage
SPECIFICATION Spec
INVARIANTS
  QuietIsIdle
