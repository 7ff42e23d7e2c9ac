SPECIFICATION FairSpec
CONSTANTS
    Contexts = {root}
    Root = root
    Readers = {r1}
    Managers = {m1}
    NoManager = NoManager
    Tags <- OwnNodes
    LiveSize = 3
    OutSize = 1
    MaxUpdates = 3
    MaxClock = 0
PROPERTIES
    CancelStopsGoroutine
CHECK_DEADLOCK FALSE
