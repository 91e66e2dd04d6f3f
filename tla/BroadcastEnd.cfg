SPECIFICATION Spec
CONSTANTS
  v1 = v1
  v2 = v2
  Viewers <- OneViewer
  Units = 2
  Size <- Growing
  Budget = 4
  Slots = 2
INVARIANTS EndIsIdempotent
CHECK_DEADLOCK FALSE
