\* Two jobs of which one is requeued, or one job whose inbox fills up, or one job with
\* a requeue and a crash; one caller beside the drain, which runs two children.
CONSTANTS
    Jobs = {1, 2}
    Callers = {c1}
    Messages = {1, 2, 3}
    Drain = Drain
    NoRun = NoRun
    MaxConcurrent = 2
    InboxLimit = 2
    ScopeLimit = 2
    BatchLimit = 1
    MaxTurns = 2
    Budgets <- Scenarios
SPECIFICATION FairSpec
INVARIANTS
    MessagesAccounted
    EndedInboxIsClosed
PROPERTIES
    ReceiptsAreFinal
    InboxesSettle
CHECK_DEADLOCK FALSE
