SPECIFICATION FairSpec
CONSTANTS
  Ticks <- TickA
  Manuals <- ManualA
  Requests <- Nobody
  Robots <- A
  RobotOf <- MCRobotOf
  Urgency <- MCUrgency
  Priority <- MCPriority
  QuotaMax <- One
  QuotaQueue <- Two
  Autonomous <- Nobody
  Daemons <- Nobody
  Objects <- ObjectA
  Shows <- MCShows
  Workers = {w1}
  MaxQueue = 3
  Phases = 1
  Controlled <- ManualA
  Asking <- TickA
  None = None
INVARIANTS
  ControlReaches
PROPERTIES
  StoppedEnds
  StopReturns
  KeepsPromise
CHECK_DEADLOCK FALSE
