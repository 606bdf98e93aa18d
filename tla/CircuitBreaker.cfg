SPECIFICATION TrafficSpec
CONSTANTS
  t1 = t1
  t2 = t2
  Threads = {t1, t2}
  NoThread = NoThread
  Threshold = 2
  Cooldown = 2
INVARIANTS ClosedBelowThreshold
PROPERTIES ClosedNeverProbed Recovers
