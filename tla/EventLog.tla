------------------------------ MODULE EventLog ------------------------------
(***************************************************************************)
(* What the event journal promises to the rest of Colossus, whatever the   *)
(* adapter: the port EventJournal of crates/colossus-ports/src/journal.rs. *)
(*                                                                         *)
(* The log only grows, by transactions that leave every stream's versions  *)
(* without gap; it grows only while the journal accepts writes; the        *)
(* journal accepts writes only when the history that was once anchored     *)
(* outside the database is still the beginning of the log; and the         *)
(* anchored history itself is never shortened or rewritten.  An operator   *)
(* may put an older copy of the database back while nobody is writing.     *)
(***************************************************************************)
EXTENDS RecordLog

VARIABLES
    log,        \* the records, in global sequence order
    anchored,   \* the history vouched for by the external secure anchor
    accepting   \* TRUE while appends are admitted

elVars == <<log, anchored, accepting>>

Init == log = <<>> /\ anchored = <<>> /\ accepting = FALSE

(* The last writer before the journal closes may still commit. *)
AppendBatch ==
    /\ accepting
    /\ Len(log') > Len(log)
    /\ Prefix(log, log')
    /\ WellVersioned(log')
    /\ accepting' \in BOOLEAN
    /\ UNCHANGED anchored

Anchor ==
    /\ Prefix(anchored, log)
    /\ anchored' = log
    /\ UNCHANGED <<log, accepting>>

Open ==
    /\ ~accepting
    /\ accepting'
    /\ Prefix(anchored, log)
    /\ UNCHANGED <<log, anchored>>

Close == accepting /\ ~accepting' /\ UNCHANGED <<log, anchored>>

Restore ==
    /\ ~accepting
    /\ WellVersioned(log')
    /\ UNCHANGED <<anchored, accepting>>

Next == AppendBatch \/ Anchor \/ Open \/ Close \/ Restore

Spec == Init /\ [][Next]_elVars
=============================================================================
