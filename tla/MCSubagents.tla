----------------------------- MODULE MCSubagents -----------------------------
\* Instances of Subagents for TLC.
EXTENDS Subagents, TLC

\* Two jobs, one of them requeued; or one job and an inbox that fills up; or one job
\* that is requeued, messages for both attempts, and a crash.
Scenarios ==
    {[jobs |-> 2, messages |-> 0, requeues |-> 1, crashes |-> 0],
     [jobs |-> 1, messages |-> 3, requeues |-> 0, crashes |-> 0],
     [jobs |-> 1, messages |-> 2, requeues |-> 1, crashes |-> 1]}

\* Two jobs, one of them requeued.
Requeue == {[jobs |-> 2, messages |-> 0, requeues |-> 1, crashes |-> 0]}
=============================================================================
