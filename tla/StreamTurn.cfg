SPECIFICATION FairSpec
CONSTANTS
  MaxPeek = 2
  MaxAttempts = 2
  MaxTurnCalls = 4
  TurnRetries <- MCRetries
  Lines <- MCLines
INVARIANTS OneDone NothingLeaks
PROPERTIES KeepsPromise StreamEnds
CHECK_DEADLOCK FALSE
