SPECIFICATION Spec
CONSTANTS
  chat = chat  row = row  above = above  below = below
  Buttons <- PageButtons
  MicDisplays <- PageMicDisplays
  RemoteDisplays <- PageRemoteDisplays
  MaxAsks = 1
  MaxCalls = 2
  MaxCandidates = 1
SYMMETRY Symmetry
CHECK_DEADLOCK FALSE
INVARIANTS
  CurrentSourceIsHeard
  MutedWhenAllOff
  PageTellsTheTruth
  NothingIsLeaked
