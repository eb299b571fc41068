------------------------- MODULE MCProjectionWorker -------------------------
\* Instances of ProjectionWorker for TLC.
EXTENDS ProjectionWorker, TLC

CONSTANTS c1, c2, p1, p2

\* Two callers of one process on the redb store.
Local == [home |-> c1 :> p1 @@ c2 :> p1, transaction |-> TRUE,
          budget |-> [events |-> 3, rebuilds |-> 1, faults |-> 1, crashes |-> 1]]

\* A process per caller on the PostgreSQL store; nobody rebuilds.
Shared == [home |-> c1 :> p1 @@ c2 :> p2, transaction |-> FALSE,
           budget |-> [events |-> 2, rebuilds |-> 0, faults |-> 0, crashes |-> 0]]

\* The same, and one of the processes rebuilds.
SharedRebuild == [Shared EXCEPT !.budget = [events |-> 3, rebuilds |-> 1, faults |-> 0,
                                            crashes |-> 0]]

LocalOrShared == {Local, Shared}

SharedWithRebuild == {SharedRebuild}
=============================================================================
