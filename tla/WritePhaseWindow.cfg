SPECIFICATION FairSpec

CONSTANTS
  MaxChunks = 3
  Parallelism = 2
  MaxAttempts = 3
  CommitsPerChunk = TRUE

INVARIANTS
  DrainedBeforeEnd
  FirstFailureSurfaces
  CommittedCountHonest
  RetryLogIsSerial
  SuccessIsWhole

PROPERTIES
  NoStepBack
  ImplementsContract
  Terminates
