SPECIFICATION Spec
CONSTANTS
    Execs = {e1}
    Workers = {w1, w2}
    NoExec = NoExec
    MaxAttempts = 2
    BatchSize = 2
    PendingCap = 1
    Managers = TRUE
    MaxFaults = 0
    AttemptBound = 2
PROPERTY OutcomeLandsOnOwnAttempt
