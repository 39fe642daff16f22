SPECIFICATION Spec
CONSTANTS
  Loads = {l1, l2}
  Fields = {a, b}
  Definitions <- MCDefinitions
  RejectThreshold = 0
  DuplicateHeaders = FALSE
  MaxWidth = 2
  MaxRejected = 1
  MaxChunks = 2
  MaxTears = 1
  MaxAttempt = 12
  Unset = Unset
  Environment = {"SECRET"}
  MaxWord = 8191
  MaxPrecision = 38
SYMMETRY Symmetry
CHECK_DEADLOCK FALSE
INVARIANTS
  BreachTouchesNothing
  ReportHonest
  ColumnsGrowOnly
  NothingForgotten
  
  BackoffExact
