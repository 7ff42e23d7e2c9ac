SPECIFICATION Spec
CONSTANTS
  Ticks <- TickB
  Manuals <- ManualsA
  Requests <- RequestA
  Robots <- AB
  RobotOf <- MCRobotOf
  Urgency <- MCUrgency
  Priority <- MCPriority
  QuotaMax <- One
  QuotaQueue <- Two
  Autonomous <- AB
  Daemons <- Nobody
  Objects <- ObjectsAB
  Shows <- MCShows
  Workers = {w1, w2}
  MaxQueue = 2
  Phases = 0
  Controlled <- Nobody
  Asking <- Nobody
  None = None
INVARIANTS
  OnePlace
  QuotaKept
PROPERTIES
  KeepsPromise
SYMMETRY WorkerSymmetry
CHECK_DEADLOCK FALSE
