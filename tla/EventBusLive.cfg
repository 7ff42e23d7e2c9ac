SPECIFICATION FairSpec
CONSTANTS
  p1 = p1
  c1 = c1
  q1 = q1
  k = k
  None = None
  Pushes = {p1}
  Calls = {c1}
  Queues = {q1}
  QueueIds = {k}
  MaxWorkers = 1
  ReservedWorkers = 1
  QueueSize = 1
  MaxStarts = 1
PROPERTIES
  QueuedSettles
  CallAnswered
  StopReturns
CHECK_DEADLOCK FALSE
