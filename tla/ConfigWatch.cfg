SPECIFICATION FairSpec
CONSTANTS
  w = w
  h1 = h1
  r1 = r1
  Handlers = {h1}
  Watchers = {w}
  Requests = {r1}
  Entries = {"key"}
  OwnWindow = 2
  PerSecond = 8
  MaxErrors = 1
  MaxDoc = 2
  MaxClock = 4
  MaxEdits = 2
  MaxRestarts = 1
  None = None
PROPERTIES EditsApplied
