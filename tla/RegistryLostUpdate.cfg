SPECIFICATION Spec
CONSTANTS
  app = app
  r1 = r1
  r2 = r2
  App = {app}
  Request <- MCRequest
  Kind <- MCKind
  Target <- MCTarget
  NoKey = "none"
  Grace = 1
  StartTime = 2
  MaxTime = 4
  MaxFaults = 0
  Replica = {r1, r2}
  AnsweredBy <- MCAnsweredBy
  EnvApp = {app}
  EnvKey = "env"
  Ttl = 2
CHECK_DEADLOCK FALSE
PROPERTIES
  RevokedForGood
