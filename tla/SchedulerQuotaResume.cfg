SPECIFICATION Spec
CONSTANTS
  Ticks <- Nobody
  Manuals <- ManualsA
  Requests <- Nobody
  Robots <- A
  RobotOf <- MCRobotOf
  Urgency <- MCUrgency
  Priority <- MCPriority
  QuotaMax <- One
  QuotaQueue <- Two
  Autonomous <- A
  Daemons <- Nobody
  Objects <- ObjectA
  Shows <- MCShows
  Workers = {w1, w2}
  MaxQueue = 3
  Phases = 1
  Controlled <- ManualA
  Asking <- Nobody
  None = None
INVARIANTS
  UpToQuotaMax
CHECK_DEADLOCK FALSE
