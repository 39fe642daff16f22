SPECIFICATION Spec
CONSTANTS
  Modes = {"full_refresh", "append", "merge"}
  Keys = {k1, k2}
  Schemas = {s1, s2}
  None = None
  MaxLoads = 3
  MaxChunks = 2
  MaxRows = 2
SYMMETRY Symmetry
CHECK_DEADLOCK FALSE
INVARIANTS
  AllOrNothing
  CountedIsCommitted
  MergeCounts
PROPERTIES
  ImplementsSession
