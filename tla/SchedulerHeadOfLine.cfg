SPECIFICATION FairSpec
CONSTANTS
  Ticks <- TickA
  Manuals <- ManualsB
  Requests <- Nobody
  Robots <- AB
  RobotOf <- MCRobotOf
  Urgency <- MCUrgency
  Priority <- MCPriority
  QuotaMax <- One
  QuotaQueue <- Two
  Autonomous <- AB
  Daemons <- Nobody
  Objects <- ObjectsAB
  Shows <- MCShows
  Workers = {w1}
  MaxQueue = 3
  Phases = 1
  Controlled <- Nobody
  Asking <- ManualsB
  None = None
PROPERTIES
  OthersRun
CHECK_DEADLOCK FALSE
