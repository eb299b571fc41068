\* One plan, three callers.
CONSTANTS
    Callers = {c1, c2, c3}
    Plans = {p1}
    RunIds = {r1, r2}
    Contents = {x, y}
    MaxRevision = 4
    NoId = NoId
SPECIFICATION Spec
SYMMETRY Symmetry
INVARIANTS
    PlanConsumedOnce
    ApprovedIsFinal
PROPERTIES
    NamedRevisionIsLatest
CHECK_DEADLOCK FALSE
