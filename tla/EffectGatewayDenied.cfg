\* One plain call in one process that never loses its lease.
SPECIFICATION Spec
CONSTANTS
    Requests = {p}
    Streaming = {}
    Commands = {}
    RiskAuto = FALSE
    Fenced = FALSE
    MaxGen = 1
    MaxChunks = 2
    MaxPending = 2
CHECK_DEADLOCK FALSE
INVARIANTS
    DeniedCallIsClosed
