\* Batches of two items, two tasks sharing the worker, two failures, a crash
\* and a reset; everything that disturbs the export happens finitely often.
SPECIFICATION FairSpec
CONSTANTS
    Callers = {c1, c2}
    NoCaller = NoCaller
    Limit = 2
    MaxRounds = 2
    MaxApp = 2
    MaxEvents = 23
    MaxFailures = 2
    MaxCrashes = 1
    MaxResets = 1
CHECK_DEADLOCK FALSE
INVARIANTS
    DeliveredAtLeastOnce
    RecordedUnknownBlocks
PROPERTIES
    CatchesUp
