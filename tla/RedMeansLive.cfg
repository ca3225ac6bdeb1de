SPECIFICATION MicSpec
CONSTANTS
  chat = chat  row = row  above = above  below = below
  Buttons <- PageButtons
  MicDisplays <- PageMicDisplays
  RemoteDisplays <- PageRemoteDisplays
  MaxAsks = 2
CHECK_DEADLOCK FALSE
INVARIANTS
  RedMeansLive
