SPECIFICATION FairSpec
CONSTANTS
    Requests = {r1, r2}
    Execs = {e1}
    Gates = {g1, g2}
    MaxDeciding = 1
    Limit = 2
    Retries = FALSE
    MaxHandRetries = 0
    AttemptBound = 1
    MaxFaults = 1
INVARIANT DenialStops
PROPERTIES DecisionsApplied ImplementsContract
