CONSTANTS
  Tabs = {a, b}
  MaxPrompts = 1
  MaxCalls = 1
SPECIFICATION Spec
CHECK_DEADLOCK FALSE
INVARIANTS
  WindowIsTrue
PROPERTIES
  RequestsAreAnswered
  ClosedTabsEnd
