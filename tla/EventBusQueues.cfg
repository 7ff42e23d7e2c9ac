SPECIFICATION Spec
CONSTANTS
  p1 = p1
  p2 = p2
  q1 = q1
  q2 = q2
  k = k
  None = None
  Pushes = {p1, p2}
  Calls = {}
  Queues = {q1, q2}
  QueueIds = {k}
  MaxWorkers = 2
  ReservedWorkers = 1
  QueueSize = 2
  MaxStarts = 2
SYMMETRY Interchangeable
INVARIANTS
  MapHoldsOpenQueues
  ExitedQueueIsEmpty
  StoppedQueuesQuiet
PROPERTIES
  KeepsPromise
CHECK_DEADLOCK FALSE
