SPECIFICATION MCSpec
CONSTANTS
  Catalogue <- MCCatalogue
  Watched = {"regex"}
  Scenes <- ScenesOrNone
  MaxIterations = 150
CHECK_DEADLOCK FALSE
INVARIANTS BestIsBest ResultSound RuleWritten
PROPERTIES RepairsSound
