SPECIFICATION Spec
CONSTANTS
  p1 = p1
  q1 = q1
  k = k
  None = None
  Pushes = {p1}
  Calls = {}
  Queues = {q1}
  QueueIds = {k}
  MaxWorkers = 1
  ReservedWorkers = 0
  QueueSize = 1
  MaxStarts = 1
INVARIANTS
  NoQueueCreatedAfterStop
CHECK_DEADLOCK FALSE
