SPECIFICATION Spec
CONSTANTS
  Texts <- MCTexts
  MaxTokens = 4
  WordsPerBatch = 3
  Hop = 2
  Keep = 1
  Mp3Block = 2
  FrameLen = 3
  VoiceAt = {1, 2}
  MaxSentences = 2
  MaxFrames = 2
  BodyCap = 1
  MaxFaults = 1
INVARIANTS
  HeardIsPlayable
  NothingLost
  SplitKeepsText
PROPERTIES
  EveryRequestEnds
CHECK_DEADLOCK FALSE
