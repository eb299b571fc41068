----------------------------- MODULE RecordLog ------------------------------
(***************************************************************************)
(* Operators on a log of journal records, shared by the journal and the    *)
(* specification of what a journal promises.  A record has the fields      *)
(* stream_id, stream_version and event_id of an EventEnvelope.             *)
(***************************************************************************)
EXTENDS Naturals, Sequences, FiniteSets

(* How many of the first n records of l belong to stream s. *)
CountIn(l, s, n) == Cardinality({i \in 1..n : l[i].stream_id = s})

(* Replaying l gives the records of every stream the versions 1, 2, 3, ... *)
WellVersioned(l) ==
    \A i \in 1..Len(l) : l[i].stream_version = CountIn(l, l[i].stream_id, i)

(* p is a beginning of l: the two chains share the hash of record Len(p). *)
Prefix(p, l) == Len(p) <= Len(l) /\ \A i \in 1..Len(p) : p[i] = l[i]
=============================================================================
