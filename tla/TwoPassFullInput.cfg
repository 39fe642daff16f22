SPECIFICATION Spec

CONSTANTS
  Formats = {"csv"}
  ChunkRows = 2
  MaxLines = 2
  MaxEdits = 0
  MaxReadFaults = 1
  MaxSinkFaults = 0

INVARIANTS
  DecisionOverFullInput
