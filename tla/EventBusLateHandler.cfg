SPECIFICATION Spec
CONSTANTS
  p1 = p1
  k = k
  None = None
  Pushes = {p1}
  Calls = {}
  Queues = {}
  QueueIds = {k}
  MaxWorkers = 1
  ReservedWorkers = 0
  QueueSize = 1
  MaxStarts = 1
INVARIANTS
  NoHandlerAfterStop
CHECK_DEADLOCK FALSE
