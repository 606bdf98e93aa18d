SPECIFICATION MCSpec
CONSTANTS
  r1 = r1
  r2 = r2
  Keys = {"session"}
  Models <- AllModels
  Entries = {"tactical", "strategic"}
  Directives = {"reset", "help", "kickstart-off", "kickstart-on"}
  Toggles = {"kickstart", "fairydust"}
  MaxSessions = 1
  TTL = 0
  Cooldown = 2
  MetaWindow = 1
  MaxEscalationTurns = 2
  Nothing = Nothing
  MaxClock = 1
  Requests = {r1, r2}
  Inputs <- EveryTurn
  Tiers <- TwoTiers
  DefaultTier = "frontier"
  ModelOf <- TierModels
  SlapEnabled = "on"
  WriteOnly = "on"
  Threshold = 1
  MaxFailures = 1
  MaxSlaps = 2
  Dust <- TwoReviews
  Floor = 2
  MaxTurns = 3
  MaxThoughtSlaps = 1
  None = None
SYMMETRY Symmetry
CHECK_DEADLOCK FALSE
INVARIANTS FrontierCapped KilledTurnEscalates PromptsCapped
