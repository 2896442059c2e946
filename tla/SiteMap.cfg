SPECIFICATION MapSpec
CONSTANTS
  home = home
  a = a
  aSlash = aSlash
  b = b
  c = c
  d = d
  forbidden = forbidden
  outside = outside
  Url <- MCUrl
  Canonical <- MCCanonical
  Start = home
  Declared = {}
  Admitted <- MCAdmitted
  Allowed <- MCAllowed
  PageLinks <- MCPageLinks
  MaxDepth = 2
  MaxPages = 4
  Concurrency = 3
  Limit = 4
  UseSitemap = TRUE
  InSitemaps <- MCInSitemaps
INVARIANTS
  ReadOnce
  BreadthFirst
  NothingMissed
  NothingDropped
PROPERTIES
  WalkEnds
