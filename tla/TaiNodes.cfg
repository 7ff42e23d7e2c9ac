SPECIFICATION FairSpec
CONSTANTS
  Tunnels = {t1}
  Posts = {t2}
  Requests = {r1, r2}
  Forwards = {f1, f2}
  None = None
INVARIANTS
  NoGhostNode
  ReleasedWithNode
  AnswersMatch
PROPERTIES
  LostNodeLeaves
CHECK_DEADLOCK FALSE
