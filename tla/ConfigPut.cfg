SPECIFICATION Spec
CONSTANTS
  h1 = h1
  r1 = r1
  Handlers = {h1}
  Watchers = {}
  Requests = {r1}
  Entries = {"absent", "none", "key", "mask"}
  OwnWindow = 2
  PerSecond = 4
  MaxErrors = 2
  MaxDoc = 3
  MaxClock = 5
  MaxEdits = 0
  MaxRestarts = 1
  None = None
INVARIANTS ActiveKeyNeverMasked MemoryMatchesDisk
PROPERTIES OverwrittenIsBackedUp
