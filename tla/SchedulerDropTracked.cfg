SPECIFICATION Spec
CONSTANTS
  Ticks <- TickA
  Manuals <- ManualsA
  Requests <- Nobody
  Robots <- A
  RobotOf <- MCRobotOf
  Urgency <- MCUrgency
  Priority <- MCPriority
  QuotaMax <- One
  QuotaQueue <- Two
  Autonomous <- A
  Daemons <- Nobody
  Objects <- ObjectA
  Shows <- MCShows
  Workers = {w1, w2}
  MaxQueue = 1
  Phases = 1
  Controlled <- Nobody
  Asking <- Nobody
  None = None
INVARIANTS
  TrackedIsAlive
CHECK_DEADLOCK FALSE
