\* One event whose export is refused again and again; no crash, no reset.
SPECIFICATION Spec
CONSTANTS
    Callers = {c1}
    NoCaller = NoCaller
    Limit = 2
    MaxRounds = 2
    MaxApp = 1
    MaxEvents = 30
    MaxFailures = 3
    MaxCrashes = 0
    MaxResets = 0
CHECK_DEADLOCK FALSE
INVARIANTS
    RetryPositionWithinJournal
