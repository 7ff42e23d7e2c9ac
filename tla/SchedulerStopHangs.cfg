SPECIFICATION FairSpec
CONSTANTS
  Ticks <- Nobody
  Manuals <- ManualA
  Requests <- Nobody
  Robots <- A
  RobotOf <- MCRobotOf
  Urgency <- MCUrgency
  Priority <- MCPriority
  QuotaMax <- One
  QuotaQueue <- Two
  Autonomous <- A
  Daemons <- Nobody
  Objects <- ObjectA
  Shows <- MCShows
  Workers = {w1}
  MaxQueue = 3
  Phases = 1
  Controlled <- ManualA
  Asking <- Nobody
  None = None
PROPERTIES
  StopCompletes
CHECK_DEADLOCK FALSE
