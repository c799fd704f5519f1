SPECIFICATION FairSpec
CONSTANTS
    Execs = {e1}
    Workers = {w1, w2}
    NoExec = NoExec
    MaxAttempts = 2
    BatchSize = 2
    PendingCap = 2
    Managers = TRUE
    MaxFaults = 1
    AttemptBound = 2
PROPERTIES RunsSettle CancelTakesEffect PauseQuiesces PendingDrains
