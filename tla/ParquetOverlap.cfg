SPECIFICATION Spec

CONSTANTS
  Writers = {w1, w2, w3}
  Schemas = {s1, s2}
  None = None
  Modes = {"full_refresh", "append"}
  MaxChunks = 2
  MaxFaults = 1

SYMMETRY Symmetry
CHECK_DEADLOCK FALSE

INVARIANTS
  FactsHonest
  RefreshWhole
  
  SuccessStays
  SchemasAgree
