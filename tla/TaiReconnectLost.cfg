SPECIFICATION Spec
CONSTANTS
  Tunnels = {t1, t2}
  Posts = {}
  Requests = {}
  Forwards = {}
  None = None
PROPERTIES
  LeavesAlone
CHECK_DEADLOCK FALSE
