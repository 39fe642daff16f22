SPECIFICATION Spec

CONSTANTS
  Formats = {"csv", "jsonl"}
  ChunkRows = 2
  MaxLines = 3
  MaxEdits = 1
  MaxReadFaults = 2
  MaxSinkFaults = 1

INVARIANTS
  
  
  ChunkShape
  ArtifactWhole
