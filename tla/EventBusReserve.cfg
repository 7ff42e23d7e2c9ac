SPECIFICATION HangingPushSpec
CONSTANTS
  p1 = p1
  p2 = p2
  c1 = c1
  k = k
  None = None
  Pushes = {p1, p2}
  Calls = {c1}
  Queues = {}
  QueueIds = {k}
  MaxWorkers = 2
  ReservedWorkers = 1
  QueueSize = 1
  MaxStarts = 1
PROPERTIES
  CallsNotStarved
CHECK_DEADLOCK FALSE
