SPECIFICATION FairSpec
CONSTANTS
  p1 = p1  p2 = p2
  Calls <- TwoCalls
  Peers <- OnePeer
  IceCacheTtl = 2
  FetchTime = 1
  MaxTime = 3
  MaxFaults = 2
CHECK_DEADLOCK FALSE
INVARIANTS
  LostTraceHasCause
PROPERTIES
  EndedCallIsReleased
  CachedServersAreYoung
