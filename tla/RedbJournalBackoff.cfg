\* One thread, at most one record, no fault: a retry projection that has counted
\* more failures than there are events makes verification quarantine the journal.
SPECIFICATION Spec
CONSTANTS
    Threads = {t1}
    NoThread = NoThread
    Streams = {sa}
    Protections = {TRUE, FALSE}
    StartupModes = {"Incremental", "Full"}
    Projections = {view, retry}
    Counting = {retry}
    CheckpointInterval = 1
    MaxEvents = 1
    MaxPosition = 2
    MaxFaults = 0
INVARIANTS
    UndamagedIsTrusted
