SPECIFICATION Spec
CONSTANTS
    Requests = {r1, r2}
    Execs = {e1}
    Gates = {g1, g2}
    MaxDeciding = 2
    Limit = 2
    Retries = TRUE
    MaxHandRetries = 1
    AttemptBound = 1
    MaxFaults = 1
SYMMETRY GateSymmetry
INVARIANTS TypeOK AppliedOnce
