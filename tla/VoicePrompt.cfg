SPECIFICATION Spec
CONSTANTS
  Prime = 97
  Weight <- MCWeight
  Bias <- MCBias
  Elu <- MCElu
  LayerOut <- MCLayerOut
  InitialCap = 2
  TilingThreshold = 3
  BlockSize = 2
  Ratios <- MCRatios
  KernelSize = 3
  LastKernelSize = 2
  ResidualKernelSize = 2
  ResidualLayers = 1
  DilationBase = 2
  ResampleBy = 2
  MimiDepth = 1
  MimiWindow = 3
  Prompts <- MCPrompts
  ChunkFrames = 0
  WholeUpTo = 2
  ChunkTable <- MCChunkTable
  LongChunk = 3
  FlowDepth = 1
  BosBeforeVoice = 4
CHECK_DEADLOCK FALSE
INVARIANTS
  ChunkedEncodesAsWhole
