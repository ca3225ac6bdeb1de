SPECIFICATION FairSpec
CONSTANTS
  w1 = w1  w2 = w2  s1 = s1
  Workers <- TwoWorkers
  Sessions <- OneSession
  None = None
  MaxOffers = 1
  MaxConcurrent = 1
  Headroom = 1
  MidBatch = 1
  FullBatch = 2
  MaxOffersPerSession = 1
  MaxFaults = 1
  OfferKinds = {"ok"}
CHECK_DEADLOCK FALSE
PROPERTIES
  PendingOfferIsRetried
