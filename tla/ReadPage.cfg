SPECIFICATION ReadSpec
CONSTANTS
  Readers = {r1, r2}
  Urls = {u1, u2}
  Bars = TRUE
INVARIANTS
  ProxyIsEarned
  MarkedIsProxied
  LiftedIsSeen
