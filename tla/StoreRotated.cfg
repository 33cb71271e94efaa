CONSTANTS
  RotateAfter = 2
  MaxRotated = 1
  MayFail = FALSE
  Torn = FALSE
  OpensAny = TRUE
  NoPath = NoPath
  MaxMessages = 4
  MaxClock = 4
  MaxCrashes = 1
SPECIFICATION Spec
CHECK_DEADLOCK FALSE
INVARIANT NothingSavedIsLost
