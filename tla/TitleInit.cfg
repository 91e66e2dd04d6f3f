SPECIFICATION Spec
CONSTANTS
  Word = 32
  FileChunk = 4
  FileMaxChunks = 5
  Inputs <- Everything
INVARIANTS InitIsAuthority
CHECK_DEADLOCK FALSE
