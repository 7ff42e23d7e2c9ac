SPECIFICATION Spec
CONSTANTS
    j1 = j1
    a = a
    b = b
    Jobs = {j1}
    Execs = {a, b}
    Workers = {w1, w2}
    Pushes = {p1}
    JobOf <- OneJob
    Priority <- SomePriority
    Enabled = {}
    Once = {j1}
    Timed = {}
    QueueCap = 1
    None = None
    Gone = Gone
    Checker = Checker
    MaxFaults = 1
INVARIANTS CompletedMeansSuccess
CHECK_DEADLOCK FALSE
