SPECIFICATION FairSpec
CONSTANTS
    Requests = {r1, r2, r3}
    Execs = {e1, e2}
    NoExec = NoExec
    MaxQuota = 1
    MaxRestarts = 1
INVARIANTS
    WaitingIsResumable OneDriver NoTaskLost
CHECK_DEADLOCK FALSE
PROPERTIES TerminalIsFinal SlotReturned
