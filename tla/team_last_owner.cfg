SPECIFICATION TeamSpec
CONSTANTS
    People = {q1, q2, q3}
    FirstOwner = q1
    Admins = {a1, a2}
    MaxTeamCalls = 3
INVARIANT OwnerRemains
CHECK_DEADLOCK FALSE
