SPECIFICATION Spec
CONSTANTS
  video = video
  audio = audio
  r1 = r1
  r2 = r2
  Tracks <- BothTracks
  Fragmented = {video}
  Requests <- TwoRequests
  WindowSize = 1
  TailExtra = 1
  DurationOf <- Lengths
  MaxClock = 2
SYMMETRY AnyRequest
INVARIANTS
  ListedStaysFetchable
  CacheFresh
  MpdPlayable
  StaticIsWhole
CHECK_DEADLOCK FALSE
