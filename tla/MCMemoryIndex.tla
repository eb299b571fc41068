---------------------------- MODULE MCMemoryIndex ----------------------------
\* Instances of MemoryIndex for TLC.
EXTENDS MemoryIndex, TLC

CONSTANTS c1, c2, m1, m2

Budget(cs, ms, e, f, k, r) ==
    [callers |-> cs, memories |-> ms, events |-> e, faults |-> f, crashes |-> k, rebuilds |-> r]

\* One caller and two memories: four events, or three and a rebuild that is cut short
\* and repeated.  Two callers and one memory: with a rebuild and a fault, or a crash.
Scenarios ==
    {Budget({c1}, {m1, m2}, 4, 1, 1, 1), Budget({c1}, {m1, m2}, 3, 1, 2, 2),
     Budget({c1, c2}, {m1}, 2, 1, 0, 1), Budget({c1, c2}, {m1}, 2, 0, 1, 0)}

\* Two callers and a memory that changes twice, without a disturbance.
TwoSyncs == {Budget({c1, c2}, {m1}, 2, 0, 0, 0)}
=============================================================================
