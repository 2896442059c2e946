SPECIFICATION RenderSpec
CONSTANTS
  Layers = 2
  MaxGenLen = 3
  FramesAfterEos = 1
  MaxStreams = 3
  Faults = {"add", "partial", "step"}
  MaxFaults = 1
  Prime = 97
  Weight <- MCWeight
  Bias <- MCBias
  Elu <- MCElu
  LayerOut <- MCLayerOut
  Noise <- MCNoise
  DecodeSteps = 2
  ResBlocks = 1
  TimeEmbedding <- MCTimeEmbedding
  Modulation <- MCModulation
  BlockOut <- MCBlockOut
  InitialCap = 2
  GrowBy = 2
  TilingThreshold = 3
  BlockSize = 2
  Ratios <- MCRatios
  KernelSize = 3
  LastKernelSize = 2
  ResidualKernelSize = 2
  ResidualLayers = 1
  DilationBase = 2
  ResampleBy = 2
  MimiDepth = 1
  MimiWindow = 3
  VoiceOf <- MCVoiceOf
  VoiceOffset <- MCVoiceOffset
  TextOf <- MCTextOf
  BosEmb = 4
INVARIANTS
  NoneOverdue
  ReadAsAlone
  PlayedAsAlone
  StacksBounded
CHECK_DEADLOCK FALSE
