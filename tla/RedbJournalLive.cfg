\* Two threads, one stream, one record, one fault, and two projections, one of
\* which follows the outbox while the other counts failures, so that a journal
\* can be quarantined and, the retry projection reset, trusted again; weak
\* fairness of the threads' own steps.
SPECIFICATION FairSpec
CONSTANTS
    Threads = {t1, t2}
    NoThread = NoThread
    Streams = {sa}
    Protections = {TRUE, FALSE}
    StartupModes = {"Incremental", "Full"}
    Projections = {view, retry}
    Counting = {retry}
    CheckpointInterval = 1
    MaxEvents = 1
    MaxPosition = 2
    MaxFaults = 1
INVARIANTS
    NoFalseAlarm
PROPERTIES
    QuarantineLiftedOnlyWhenIntact
    WriterReleased
    QuarantineCompletes
