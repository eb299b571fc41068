\* Two plain calls, no risk review; the second owner recovers at most one open
\* effect, so that the recovery bound is met as well.
SPECIFICATION Spec
CONSTANTS
    Requests = {p, q}
    Streaming = {}
    Commands = {}
    RiskAuto = FALSE
    Fenced = TRUE
    MaxGen = 2
    MaxChunks = 0
    MaxPending = 1
SYMMETRY Symmetry
INVARIANTS
    OutcomeAccounted
    TakeoverLeavesNothingOpen
CHECK_DEADLOCK FALSE
