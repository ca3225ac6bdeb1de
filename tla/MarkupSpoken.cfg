SPECIFICATION Spec
CONSTANTS
  None = None
  Functions <- ToolParts
  MaxChunks = 2
  FrameParts = 2
  Pause = 1
  TrackRoom = 2
  PurgedRoom = 1
  MaxAudio = 0
CHECK_DEADLOCK FALSE
INVARIANTS
  NoMarkupIsSpoken
