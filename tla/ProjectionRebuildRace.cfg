\* Two processes on one store, one handler, pages of two events, one rebuild.
CONSTANTS
    c1 = c1
    c2 = c2
    p1 = p1
    p2 = p2
    Callers = {c1, c2}
    Processes = {p1, p2}
    Deployments <- SharedWithRebuild
    NumHandlers = 1
    Streams = {s1}
    Limit = 2
    MaxRounds = 2
    MaxEvents = 3
SPECIFICATION Spec
INVARIANTS
    StateIsReplay
CHECK_DEADLOCK FALSE
