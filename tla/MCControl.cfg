SPECIFICATION Spec
CONSTANTS
  MaxDepth = 3
  MaxLevels = 2
  MaxLeaks = 1
INVARIANTS DepthsMatch
PROPERTIES BreakTarget ErrexitExact
CHECK_DEADLOCK FALSE
