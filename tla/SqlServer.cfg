SPECIFICATION FairSpec

CONSTANTS
  Modes = {"full_refresh", "append", "merge"}
  MaxChunks = 5

CHECK_DEADLOCK FALSE

INVARIANTS
  AllOrNothing
  CountedIsCommitted

PROPERTIES
  NoTransactionSurvives
