SPECIFICATION Spec
CONSTANTS
  a1 = a1
  a2 = a2
  NoCall = NoCall
  Agents = {a1, a2}
  Streamers = {a1}
  MaxTurns <- Turns
  MaxBlocks = 4
  KeepRecent = 1
  Settings <- SomeSettings
  Habits <- SomeHabits
  Answers <- SomeAnswers
  CallIds <- Ids
  MaxCached = 3
CHECK_DEADLOCK FALSE
INVARIANTS CacheMatchesRing CallsDelivered FaithfulReplay RequestAccepted
