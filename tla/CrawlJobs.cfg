SPECIFICATION FairSpec
CONSTANTS
  j1 = j1
  p1 = p1
  p2 = p2
  Job = {j1}
  Replica = {r1, r2}
  Site <- MCPair
  MaxDeliver = 3
  PageLimit = 1
  MaxFaults = 2
CHECK_DEADLOCK FALSE
INVARIANTS
  NoGaps
  DoneIsWhole
  PagedWhole
PROPERTIES
  DoneStays
  EveryJobEnds
