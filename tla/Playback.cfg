SPECIFICATION Spec
CONSTANTS
  Bodies <- MCBodies
  MaxPlays = 2
  MaxBad = 1
INVARIANTS
  FramesAsSent
  OneVoice
  IdleIsSilent
PROPERTIES
  PlayingEnds
CHECK_DEADLOCK FALSE
