\* Two threads, two streams, three records, a checkpoint every second record,
\* one fault, no projections; encrypted or plaintext, either verification at
\* every startup.
SPECIFICATION Spec
CONSTANTS
    Threads = {t1, t2}
    NoThread = NoThread
    Streams = {sa, sb}
    Protections = {TRUE, FALSE}
    StartupModes = {"Incremental", "Full"}
    Projections = {}
    Counting = {}
    CheckpointInterval = 2
    MaxEvents = 3
    MaxPosition = 0
    MaxFaults = 1
SYMMETRY Symmetry
INVARIANTS
    TypeOK
    StreamsGapless
    WritableIsAnchored
    AcknowledgedSurvive
PROPERTIES
    AnchoredHistoryGrows
    ImplementsEventLog
