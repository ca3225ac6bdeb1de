SPECIFICATION FairSpec
CONSTANTS
  w1 = w1  w2 = w2  s1 = s1
  Workers <- OneWorker
  Sessions <- OneSession
  None = None
  MaxOffers = 2
  MaxConcurrent = 1
  Headroom = 0
  MidBatch = 1
  FullBatch = 2
  MaxOffersPerSession = 2
  MaxFaults = 1
  OfferKinds = {"ok"}
CHECK_DEADLOCK FALSE
INVARIANTS
  PermitsConserved
  NoZombieSession
PROPERTIES
  AnsweredByOneCall
  SigtermEndsWorker
  OfferIsRead
