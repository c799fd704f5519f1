SPECIFICATION ApiSpec
CONSTANTS
    Requests = {i1}
    Connections = {n1}
    Organizations = {o1}
    NoConnection = none
    NoOrg = none
INVARIANT AnsweredIsKept
CHECK_DEADLOCK FALSE
