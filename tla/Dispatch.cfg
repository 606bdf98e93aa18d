SPECIFICATION FairSpec
CONSTANTS
  Configs <- ThreeConfigs
  Local = {"ollama"}
  CycleChecked = "on"
  MaxTurnCalls = 4
  NoTier = NoTier
INVARIANTS CallsBounded OneResponse AnswersRecordedOnce OneVerdictPerCall
PROPERTIES TurnEnds
