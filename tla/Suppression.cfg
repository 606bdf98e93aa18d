SPECIFICATION MCSpec
CONSTANTS
  Scenes <- ScenesOrNone
  Cap = 512
  Files = 256
  CounterSize = 256
  LowWatermark = 2
  HighWatermark = 4
  None = None
  Texts <- AllTexts
  Letters <- SmallLetters
  ShortLine = 1
  NoticeSize = 6
  Threshold = 3
  Enabled <- AllPasses
  Categories = {"generic", "file_read"}
CHECK_DEADLOCK FALSE
INVARIANTS ReadsCurrent ReferencesResolve ReasoningWhereNeeded TurnsIntact LinesKept
PROPERTIES VerdictsStay
