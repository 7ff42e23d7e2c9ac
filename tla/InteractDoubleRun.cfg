SPECIFICATION Spec
CONSTANTS
    Requests = {r1, r2, r3}
    Execs = {e1, e2}
    NoExec = NoExec
    MaxQuota = 1
    MaxRestarts = 1
INVARIANTS
    AlwaysOneDriver
CHECK_DEADLOCK FALSE
