SPECIFICATION FairSpec
CONSTANTS
  Ticks <- Nobody
  Manuals <- ManualsB
  Requests <- Nobody
  Robots <- B
  RobotOf <- MCRobotOf
  Urgency <- MCUrgency
  Priority <- MCPriority
  QuotaMax <- One
  QuotaQueue <- Two
  Autonomous <- B
  Daemons <- Nobody
  Objects <- ObjectsB
  Shows <- MCShows
  Workers = {w1, w2}
  MaxQueue = 2
  Phases = 1
  Controlled <- Nobody
  Asking <- ManualB
  None = None
INVARIANTS
  SlotsHeld
PROPERTIES
  QueuedRuns
CHECK_DEADLOCK FALSE
