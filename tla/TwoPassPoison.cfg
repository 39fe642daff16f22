SPECIFICATION Spec

CONSTANTS
  Formats = {"jsonl"}
  ChunkRows = 2
  MaxLines = 2
  MaxEdits = 0
  MaxReadFaults = 0
  MaxSinkFaults = 1

INVARIANTS
  PoisonKeepsSemantics
