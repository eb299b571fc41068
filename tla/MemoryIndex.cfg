\* One caller, two memories and every disturbance, or two callers whose syncs overlap;
\* syncs keep being started.
CONSTANTS
    c1 = c1
    c2 = c2
    m1 = m1
    m2 = m2
    Callers = {c1, c2}
    Memories = {m1, m2}
    Limit = 2
    Budgets <- Scenarios
SPECIFICATION FairSpec
PROPERTIES
    SeparateSyncsFollowQueue
    OverlappingSyncsLoseNothing
    EventuallyCaughtUp
CHECK_DEADLOCK FALSE
