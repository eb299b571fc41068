\* Two callers, two handlers, one stream, pages of two events; one process with a
\* rebuild, a failing reduction and a crash, or two processes on one store.
CONSTANTS
    c1 = c1
    c2 = c2
    p1 = p1
    p2 = p2
    Callers = {c1, c2}
    Processes = {p1, p2}
    Deployments <- LocalOrShared
    NumHandlers = 2
    Streams = {s1}
    Limit = 2
    MaxRounds = 2
    MaxEvents = 3
SPECIFICATION FairSpec
INVARIANTS
    ReadModelsAreExact
PROPERTIES
    DrainReachesItsHead
    EventuallyCurrent
CHECK_DEADLOCK FALSE
