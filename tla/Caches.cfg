SPECIFICATION CachesSpec
CONSTANTS
  r1 = r1  r2 = r2  r3 = r3
  q1 = q1  q2 = q2  k1 = k1  k2 = k2
  None = None
  Requests <- ThreeRequests
  Routes <- TwoRoutes
  Streams <- TwoStreams
  RegionOf <- TwoRegionOf
  Known <- TwoKnown
  Places <- TwoPlaces
  Nowhere <- NoPlace
  Apart <- FromBoston
  Km <- TwoKm
  Allowed <- ThreeAllowed
  CacheTtl = 2
  RequestTime = 1
  MaxTime = 4
  RouteTime = 3
  MaxVersion = 1
  MaxFaults = 1
SYMMETRY Symmetry
CHECK_DEADLOCK FALSE
INVARIANTS
  ConfigAgeIsBounded
PROPERTIES
  DecisionIsRecent
  RoutedWithinRegions
