SPECIFICATION Spec
CONSTANTS
  Word = 32
  FileChunk = 4
  FileMaxChunks = 5
  Inputs <- Everything
INVARIANTS
  ListingFits
  NothingSpliced
  PlaylistByPosition
  SelectionKept
  BytesTiled
  ClearOrRefused
CHECK_DEADLOCK FALSE
