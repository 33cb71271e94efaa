CONSTANTS
  Calls = {1, 2}
  Pieces = 2
  MaxRetries = 1
SPECIFICATION Spec
CHECK_DEADLOCK FALSE
INVARIANT EveryCallArrives
