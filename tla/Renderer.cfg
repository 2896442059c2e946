SPECIFICATION RenderSpec
CONSTANTS
  IdleWindow = 3
  SettleGrace = 4
  TickGap = 2
  Timeout = 16
  MaxRequests = 2
  MaxRedirects = 1
INVARIANTS
  StraightQuietSettles
PROPERTIES
  SettledIsQuiet
  RenderingEnds
CHECK_DEADLOCK FALSE
