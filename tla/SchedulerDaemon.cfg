SPECIFICATION Spec
CONSTANTS
  Ticks <- TicksA
  Manuals <- Nobody
  Requests <- Nobody
  Robots <- A
  RobotOf <- MCRobotOf
  Urgency <- MCUrgency
  Priority <- MCPriority
  QuotaMax <- Two
  QuotaQueue <- Two
  Autonomous <- A
  Daemons <- A
  Objects <- ObjectA
  Shows <- MCShows
  Workers = {w1, w2}
  MaxQueue = 3
  Phases = 1
  Controlled <- Nobody
  Asking <- Nobody
  None = None
INVARIANTS
  DaemonRunsOnce
CHECK_DEADLOCK FALSE
