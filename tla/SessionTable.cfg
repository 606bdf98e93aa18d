SPECIFICATION Spec
CONSTANTS
  k1 = k1
  k2 = k2
  k3 = k3
  Keys = {k1, k2, k3}
  Models = {m1}
  Entries = {"review"}
  Directives = {"help"}
  Toggles = {"raw"}
  MaxSessions = 2
  TTL = 1
  Cooldown = 1
  MetaWindow = 1
  MaxEscalationTurns = 3
  Nothing = Nothing
  MaxClock = 3
  Turns <- SomeTurns
  Limit = 1
  MaxCalls = 4
CHECK_DEADLOCK FALSE
PROPERTIES RoomIsMade
