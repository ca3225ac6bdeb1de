SPECIFICATION FairSpec
CONSTANTS
  MaxAsk = 1
  MaxTurns = 2
  BridgeSizes = {2, 6}
  TrackSize = 1
  MaxOutputs = 1
CHECK_DEADLOCK FALSE
INVARIANTS
  InterruptionSilences
  RunningWorkerIsHeld
  HistoryIsOfOneTurn
PROPERTIES
  EveryQuestionGetsAReply
  PipelineEnds
