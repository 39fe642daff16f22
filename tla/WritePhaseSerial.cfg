SPECIFICATION Spec

CONSTANTS
  MaxChunks = 3
  Parallelism = 1
  MaxAttempts = 3
  CommitsPerChunk = TRUE

INVARIANTS
  SerialPrefix
