SPECIFICATION Spec
CONSTANTS
    Contexts = {root}
    Root = root
    Readers = {r1}
    Managers = {m1, m2}
    NoManager = NoManager
    Tags <- OwnNodes
    LiveSize = 3
    OutSize = 3
    MaxUpdates = 3
    MaxClock = 0
INVARIANTS
    EndedTraceIsCompleted
CHECK_DEADLOCK FALSE
