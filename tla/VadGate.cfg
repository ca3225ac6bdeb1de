SPECIFICATION Spec
CONSTANTS
  Accum = 2
  StartFrames = 5
  StopFrames = 5
  PreRoll = 9
  InactivityFrames = 7
  InactivityStop = 12
  MaxAsk = 1
  MaxFrames = 32
CHECK_DEADLOCK FALSE
INVARIANTS
  UtteranceIsWhole
  SpeechIsDecided
PROPERTIES
  HangUpAfterSilence
  ImplementsSignals
