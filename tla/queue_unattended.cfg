SPECIFICATION UnattendedSpec
CONSTANTS
    Execs = {e1}
    Workers = {w1, w2, w3}
    NoExec = NoExec
    MaxAttempts = 2
    BatchSize = 2
    PendingCap = 1
    Managers = TRUE
    MaxFaults = 1
    AttemptBound = 2
SYMMETRY WorkerSymmetry
INVARIANTS SoleRunner RunnerHoldsRow
