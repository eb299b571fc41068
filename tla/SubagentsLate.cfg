\* Two jobs, one caller who cancels and requeues one of them, two children at a time.
CONSTANTS
    Jobs = {1, 2}
    Callers = {c1}
    Messages = {1, 2, 3}
    Drain = Drain
    NoRun = NoRun
    MaxConcurrent = 2
    InboxLimit = 2
    ScopeLimit = 2
    BatchLimit = 1
    MaxTurns = 2
    Budgets <- Requeue
SPECIFICATION Spec
INVARIANTS
    LateOutputNotCommitted
CHECK_DEADLOCK FALSE
