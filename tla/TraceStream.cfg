SPECIFICATION FairSpec
CONSTANTS
    Contexts = {root, fork}
    Root = root
    Readers = {r1}
    Managers = {m1, m2}
    NoManager = NoManager
    Tags <- OwnNodes
    LiveSize = 1
    OutSize = 2
    MaxUpdates = 3
    MaxClock = 0
INVARIANTS
    NoUpdateLost NoneTwice InContextOrder
CHECK_DEADLOCK FALSE
PROPERTIES StreamEnds GoroutineReleased
