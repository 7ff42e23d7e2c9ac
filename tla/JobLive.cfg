SPECIFICATION FairSpec
CONSTANTS
    j1 = j1
    a = a
    b = b
    Jobs = {j1}
    Execs = {a}
    Workers = {w1, w2}
    Pushes = {p1}
    JobOf <- OneJob
    Priority <- SomePriority
    Enabled = {j1}
    Once = {j1}
    Timed = {a}
    QueueCap = 1
    None = None
    Gone = Gone
    Checker = Checker
    MaxFaults = 1
PROPERTIES AcceptedRuns LostJobDetected WorkersStop
CHECK_DEADLOCK FALSE
