---------------------------- MODULE MCHostedLease ----------------------------
\* Instances of HostedLease for TLC.
EXTENDS HostedLease, TLC

\* Late writes of owners whose lease expired, or admissions racing an edit beside
\* an expiry and a crash.
WritesOrTasks ==
    {[writes |-> 2, tasks |-> 0, expiries |-> 1, crashes |-> 0],
     [writes |-> 0, tasks |-> 1, expiries |-> 1, crashes |-> 1]}

\* One admission and nothing that goes wrong.
OneTask == {[writes |-> 0, tasks |-> 1, expiries |-> 0, crashes |-> 0]}
=============================================================================
