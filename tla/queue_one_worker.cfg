SPECIFICATION UnattendedSpec
CONSTANTS
    Execs = {e1, e2}
    Workers = {w1}
    NoExec = NoExec
    MaxAttempts = 2
    BatchSize = 2
    PendingCap = 2
    Managers = TRUE
    MaxFaults = 1
    AttemptBound = 2
INVARIANT RetryWithinBudget
PROPERTY TimedOutOnlyOverdue
