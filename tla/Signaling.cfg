SPECIFICATION SignalingSpec
CONSTANTS
  c1 = c1  c2 = c2  s1 = s1  p1 = p1  p2 = p2  page = page
  Conns <- TwoConns
  Sessions <- OneSession
  None = None
  Transports = {"ws", "http"}
  MaxOffers = 1
  MaxInbox = 1
  MaxFaults = 2
  IcePeers <- TwoPeers
  Candidates = 2
  Count = 2
  MaxIceFaults = 2
  Clients <- OnePage
  MaxClientMessages = 1
CHECK_DEADLOCK FALSE
INVARIANTS
  OnlyHolderAdmitted
  ValidTokenIsHonoured
  OneAnswer
  CandidatesInOrder
PROPERTIES
  AnswerIsForwarded
  MessageIsRead
  CandidateArrives
  SocketIsClosed
  DeadPeerIsForgotten
