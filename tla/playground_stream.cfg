CONSTANTS
    Requests = {r1}
    Budget = 2
SPECIFICATION Spec
INVARIANT CompletedStreamIsLogged
CHECK_DEADLOCK FALSE
