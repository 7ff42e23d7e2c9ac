SPECIFICATION Spec
CONSTANTS
  Ticks <- Nobody
  Manuals <- Nobody
  Requests <- RequestA
  Robots <- A
  RobotOf <- MCRobotOf
  Urgency <- MCUrgency
  Priority <- MCPriority
  QuotaMax <- One
  QuotaQueue <- Two
  Autonomous <- Nobody
  Daemons <- Nobody
  Objects <- ObjectA
  Shows <- MCShows
  Workers = {w1}
  MaxQueue = 3
  Phases = 1
  Controlled <- Nobody
  Asking <- Nobody
  None = None
PROPERTIES
  CleanupComesLast
CHECK_DEADLOCK FALSE
