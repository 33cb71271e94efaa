CONSTANTS
  MaxTurns = 2
  MaxAgents = 2
  MaxTools = 0
  Preserve = 4
  StartMayFail = FALSE
  NoFile = NoFile
SPECIFICATION Spec
CHECK_DEADLOCK FALSE
INVARIANT NoFinishedTurnLost
