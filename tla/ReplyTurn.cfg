SPECIFICATION Spec
CONSTANTS
  None = None
  Functions <- ToolParts
  MaxChunks = 3
  FrameParts = 2
  Pause = 1
  TrackRoom = 2
  PurgedRoom = 1
  MaxAudio = 3
CHECK_DEADLOCK FALSE
INVARIANTS
  SpeechIsExact
  
  
  EndsOnlyWhenAsked
