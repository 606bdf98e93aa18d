SPECIFICATION FairSpec
CONSTANTS
  MaxTurns = 2
  MaxServing = 1
  MaxAdmin = 1
  MaxBoots = 3
  QueueCap = 1
  LogCap = 1
  RingCap = 2
  HydrateSessions = 1
  SessionOf <- MCSessionOf
INVARIANTS CountedOnce NoRecordAfterClose LogComplete PurgeSparesLater
PROPERTIES SavedCatchesUp StopReturns
CHECK_DEADLOCK FALSE
