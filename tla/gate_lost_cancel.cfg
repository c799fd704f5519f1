SPECIFICATION Spec
CONSTANTS
    Requests = {r1}
    Execs = {e1}
    Gates = {g1}
    MaxDeciding = 1
    Limit = 2
    Retries = TRUE
    MaxHandRetries = 0
    AttemptBound = 2
    MaxFaults = 0
INVARIANT DenialStops
