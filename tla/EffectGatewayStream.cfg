\* One streaming command whose risk may be reviewed automatically, one chunk,
\* three owners; the lease may expire under a live owner.  Fairness is that of
\* FairSpec.
SPECIFICATION FairSpec
CONSTANTS
    Requests = {s}
    Streaming = {s}
    Commands = {s}
    RiskAuto = TRUE
    Fenced = TRUE
    MaxGen = 3
    MaxChunks = 1
    MaxPending = 2
INVARIANTS
    OutcomeAccounted
    StartedIsAuthorized
    ReleaseIsEvidenced
    TakeoverLeavesNothingOpen
PROPERTIES
    LaunchedCallReturns
    RecoveryEnds
CHECK_DEADLOCK FALSE
