SPECIFICATION Spec
CONSTANTS
  Loads = {l1}
  Fields = {a, b}
  Definitions <- MCPlain
  RejectThreshold = 0
  DuplicateHeaders = TRUE
  MaxWidth = 2
  MaxRejected = 0
  MaxChunks = 1
  MaxTears = 1
  MaxAttempt = 2
  Unset = Unset
  Environment = {"SECRET"}
  MaxWord = 8191
  MaxPrecision = 38
SYMMETRY Symmetry
CHECK_DEADLOCK FALSE
INVARIANTS
  RetryConverges
