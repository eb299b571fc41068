\* Batches of two items, one failure; no crash and no reset.
SPECIFICATION Spec
CONSTANTS
    Callers = {c1}
    NoCaller = NoCaller
    Limit = 2
    MaxRounds = 2
    MaxApp = 2
    MaxEvents = 30
    MaxFailures = 1
    MaxCrashes = 0
    MaxResets = 0
CHECK_DEADLOCK FALSE
INVARIANTS
    UnknownBlocksReplay
