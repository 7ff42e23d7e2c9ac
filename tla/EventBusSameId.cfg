SPECIFICATION Spec
CONSTANTS
  p1 = p1
  p2 = p2
  q1 = q1
  q2 = q2
  k = k
  None = None
  Pushes = {p1, p2}
  Calls = {}
  Queues = {q1, q2}
  QueueIds = {k}
  MaxWorkers = 2
  ReservedWorkers = 0
  QueueSize = 1
  MaxStarts = 1
INVARIANTS
  SameQueueNeverConcurrent
CHECK_DEADLOCK FALSE
