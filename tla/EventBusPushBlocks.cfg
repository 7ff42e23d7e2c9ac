SPECIFICATION HangingPushSpec
CONSTANTS
  p1 = p1
  p2 = p2
  k = k
  None = None
  Pushes = {p1, p2}
  Calls = {}
  Queues = {}
  QueueIds = {k}
  MaxWorkers = 1
  ReservedWorkers = 0
  QueueSize = 1
  MaxStarts = 1
PROPERTIES
  PushReturns
CHECK_DEADLOCK FALSE
