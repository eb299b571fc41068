\* Two callers cancel and requeue the same job.
CONSTANTS
    Jobs = {1, 2}
    Callers = {c1, c2}
    Messages = {1, 2, 3}
    Drain = Drain
    NoRun = NoRun
    MaxConcurrent = 2
    InboxLimit = 2
    ScopeLimit = 2
    BatchLimit = 1
    MaxTurns = 2
    Budgets <- Requeue
SPECIFICATION Spec
INVARIANTS
    EndedInboxIsClosed
CHECK_DEADLOCK FALSE
