SPECIFICATION Spec
CONSTANTS
  Word = 32
  FileChunk = 4
  FileMaxChunks = 5
  Inputs <- Everything
INVARIANTS BareKeyAlone
CHECK_DEADLOCK FALSE
