--------------------------- MODULE ProjectionWorker ---------------------------
(***************************************************************************)
(* ProjectionWorker of colossus-projection: disposable read models kept    *)
(* current from the journal.  A round reads, handler after handler, the    *)
(* stored position and a page of the journal, reduces the page event by    *)
(* event against the store seen through an overlay of the round's own      *)
(* mutations, and commits all batches at the end; each batch is accepted   *)
(* only at the position it was staged from.  drain repeats rounds, rebuild *)
(* resets the read models first.                                           *)
(*                                                                         *)
(* Callers of one process exclude each other with operation_gate.  Several *)
(* processes may share the PostgreSQL store, where the gate of one says    *)
(* nothing to the other and the batches of a round are transactions of     *)
(* their own.                                                              *)
(*                                                                         *)
(* The reducer is EffectRecoveryProjection, the only one whose records are *)
(* removed again; the others read, merge and write a record in the same    *)
(* way.  A record is the sequence of the latest event of its stream (0: no *)
(* record).                                                                *)
(***************************************************************************)
EXTENDS Integers, Sequences, FiniteSets, FiniteSetsExt

CONSTANTS
    Callers,
    Processes,
    Deployments,     \* ways to run the worker, each with bounds of its own
    NumHandlers,
    Streams,         \* effect streams
    Limit,           \* batch_limit of drain
    MaxRounds,       \* bound: max_rounds that a caller asks for
    MaxEvents        \* bound: events of the journal, in any deployment

\* What is left of the bounds: events appended, rebuilds asked for, failing
\* reductions, crashes of a process.
Budget == [events: 0 .. MaxEvents, rebuilds: Nat, faults: Nat, crashes: Nat]

\* home[c]: the process that c runs in; transaction: apply_all is one transaction
\* (redb), or one per batch (PostgreSQL).
Deployment == [home: [Callers -> Processes], transaction: BOOLEAN, budget: Budget]

ASSUME ProjectionAssumption ==
    /\ {NumHandlers, Limit, MaxRounds} \subseteq Nat \ {0}
    /\ MaxEvents \in Nat
    /\ Deployments \subseteq Deployment

VARIABLES
    deployment,
    journal,  \* the outbox and its events, in global order
    pos,      \* pos[h]: position of handler h
    rec,      \* rec[h][s]: the record of stream s in projection h
    gate,     \* gate[p]: operation_gate of process p is held
    frame,    \* what each caller is doing
    budget    \* ghost: what is left of the bounds

vars == <<deployment, journal, pos, rec, gate, frame, budget>>
store == <<pos, rec>>

\* Home[c] names the process of c.
Home == deployment.home

Handlers == 1 .. NumHandlers

Kinds == {"started", "closed", "other"}

Event == [stream: Streams, kind: Kinds]

Untouched == -1

\* The records that a projection has mutated in this round.
NoRecords == [s \in Streams |-> Untouched]

Empty == [s \in Streams |-> 0]

\* PendingProjection of the overlay; through = expected: nothing staged.
NothingStaged == [expected |-> 0, through |-> 0, records |-> NoRecords]

Pending == [expected: Nat, through: Nat, records: [Streams -> Nat \cup {Untouched}]]

Idle == [pc |-> "idle"]

\* resets: projections still to be reset; rounds: rounds left, this one included;
\* handler: the one at hand; from: its position; pages: the last sequence of each
\* page read in this round, by the position it starts after (-1: not read); item:
\* the event at hand; asked: the journal head when the operation began.
Busy == [pc: {"reset", "position", "page", "project", "apply", "status"},
         resets: Seq(Handlers), rounds: Nat, handler: Nat, from: Nat,
         pages: [0 .. MaxEvents -> Nat \cup {-1}], item: Nat, applied: Nat,
         pending: [Handlers -> Pending], asked: Nat]

TypeOK ==
    /\ deployment \in Deployments
    /\ journal \in Seq(Event)
    /\ pos \in [Handlers -> 0 .. Len(journal)]
    /\ rec \in [Handlers -> [Streams -> 0 .. Len(journal)]]
    /\ gate \in [Processes -> BOOLEAN]
    /\ frame \in [Callers -> {Idle} \cup Busy]
    /\ \A c \in Callers : frame[c] # Idle => gate[Home[c]]
    /\ budget \in Budget

Init ==
    /\ deployment \in Deployments
    /\ journal = << >>
    /\ pos = [h \in Handlers |-> 0]
    /\ rec = [h \in Handlers |-> Empty]
    /\ gate = [p \in Processes |-> FALSE]
    /\ frame = [c \in Callers |-> Idle]
    /\ budget = deployment.budget

At(c, where) == frame[c].pc = where

\* The guard of the operation is dropped, with everything the round staged.
Return(c) ==
    /\ frame' = [frame EXCEPT ![c] = Idle]
    /\ gate' = [gate EXCEPT ![Home[c]] = FALSE]

NoPages == [n \in 0 .. MaxEvents |-> -1]

NothingPending == [h \in Handlers |-> NothingStaged]

-----------------------------------------------------------------------------
\* Any component appends; the worker only reads the journal.
Record(e) ==
    /\ budget.events > 0
    /\ budget' = [budget EXCEPT !.events = @ - 1]
    /\ journal' = Append(journal, e)
    /\ UNCHANGED <<pos, rec, gate, frame>>

Entered(resets, rounds) ==
    [pc |-> IF resets = << >> THEN "position" ELSE "reset", resets |-> resets,
     rounds |-> rounds, handler |-> 1, from |-> 0, pages |-> NoPages, item |-> 0,
     applied |-> 0, pending |-> NothingPending, asked |-> Len(journal)]

Enter(c, resets, rounds) ==
    /\ frame[c] = Idle
    /\ ~gate[Home[c]]
    /\ gate' = [gate EXCEPT ![Home[c]] = TRUE]
    /\ frame' = [frame EXCEPT ![c] = Entered(resets, rounds)]
    /\ UNCHANGED <<journal, store>>

\* run_once is the drain of one round.
Drain(c, rounds) ==
    /\ Enter(c, << >>, rounds)
    /\ UNCHANGED budget

\* rebuild of one projection, or of all of them in order.
Rebuild(c) ==
    /\ budget.rebuilds > 0
    /\ budget' = [budget EXCEPT !.rebuilds = @ - 1]
    /\ \E resets \in {<<h>> : h \in Handlers} \cup {[h \in Handlers |-> h]} :
           Enter(c, resets, MaxRounds)

\* ProjectionStore::reset: records and position, one transaction per projection.
Reset(c) ==
    /\ At(c, "reset")
    /\ LET h == Head(frame[c].resets) IN
       /\ rec' = [rec EXCEPT ![h] = Empty]
       /\ pos' = [pos EXCEPT ![h] = 0]
    /\ frame' = [frame EXCEPT
           ![c].resets = Tail(@),
           ![c].pc = IF Len(frame[c].resets) = 1 THEN "position" ELSE "reset"]
    /\ UNCHANGED <<journal, gate, budget>>

ReadPosition(c) ==
    /\ At(c, "position")
    /\ frame' = [frame EXCEPT ![c].from = pos[frame[c].handler], ![c].pc = "page"]
    /\ UNCHANGED <<journal, store, gate, budget>>

\* The frame once the handler at hand is done.
NextHandler(f) ==
    IF f.handler = NumHandlers THEN [f EXCEPT !.pc = "apply"]
    ELSE [f EXCEPT !.pc = "position", !.handler = @ + 1]

\* Mutant: the head is taken for an exclusive bound of the page.
PageEndExclusive(from) == Min({from + Limit, Max({from, Len(journal) - 1})})

\* The last sequence of a page read now.
PageEnd(from) == Min({from + Limit, Len(journal)})

\* The page of an earlier handler at the same position is used again.
ReadPage(c) ==
    /\ At(c, "page")
    /\ LET f == frame[c]
           last == IF f.pages[f.from] # -1 THEN f.pages[f.from] ELSE PageEnd(f.from)
           g == [f EXCEPT !.pages[f.from] = last]
       IN frame' = [frame EXCEPT ![c] =
              IF last = f.from THEN NextHandler(g)
              ELSE [g EXCEPT !.pc = "project", !.item = f.from + 1]]
    /\ UNCHANGED <<journal, store, gate, budget>>

\* Mutant: the reducer reads the store and not the overlay.
GetFromStore(f, s) == rec[f.handler][s]

\* ProjectionOverlay::get of the handler at hand.
Get(f, s) ==
    IF f.pending[f.handler].records[s] # Untouched
    THEN f.pending[f.handler].records[s]
    ELSE rec[f.handler][s]

\* The record of the event's stream after the event, Untouched if the event does
\* not mutate it.
Project(f, n) ==
    CASE journal[n].kind = "started" -> n
      [] journal[n].kind = "closed" -> 0
      [] journal[n].kind = "other" ->
             IF Get(f, journal[n].stream) = 0 THEN Untouched ELSE n

\* ProjectionOverlay::stage: only the first event of a round sets the position
\* that the batch expects.
Stage(f, n) ==
    LET p == f.pending[f.handler]
        mutation == Project(f, n)
    IN [expected |-> f.from,
        through |-> n,
        records |-> IF mutation = Untouched THEN p.records
                    ELSE [p.records EXCEPT ![journal[n].stream] = mutation]]

\* Mutant: applied counts what the last handler did only.
ReduceCountsLast(c) ==
    /\ At(c, "project")
    /\ LET f == frame[c]
           last == f.pages[f.from]
           g == [f EXCEPT !.pending[f.handler] = Stage(f, f.item)]
       IN frame' = [frame EXCEPT ![c] =
              IF f.item = last
              THEN NextHandler([g EXCEPT !.applied =
                       IF f.handler = NumHandlers THEN last - f.from ELSE 0])
              ELSE [g EXCEPT !.item = @ + 1]]
    /\ UNCHANGED <<journal, store, gate, budget>>

\* One event of the page is reduced and staged.
Reduce(c) ==
    /\ At(c, "project")
    /\ LET f == frame[c]
           last == f.pages[f.from]
           g == [f EXCEPT !.pending[f.handler] = Stage(f, f.item)]
       IN frame' = [frame EXCEPT ![c] =
              IF f.item = last THEN NextHandler([g EXCEPT !.applied = @ + (last - f.from)])
              ELSE [g EXCEPT !.item = @ + 1]]
    /\ UNCHANGED <<journal, store, gate, budget>>

\* decrypt_payload or the reducer fails: the round is given up before anything
\* is committed.
ReduceFails(c) ==
    /\ At(c, "project")
    /\ budget.faults > 0
    /\ budget' = [budget EXCEPT !.faults = @ - 1]
    /\ Return(c)
    /\ UNCHANGED <<journal, store>>

Staged(f) == {h \in Handlers : f.pending[h].through # f.pending[h].expected}

\* The batches of one transaction: all of them, or the first one left.
InTransaction(f) ==
    IF deployment.transaction \/ Staged(f) = {} THEN Staged(f) ELSE {Min(Staged(f))}

\* The optimistic check of apply and apply_all.
PositionMatches(f, h) == pos[h] = f.pending[h].expected

Applied(f, h) ==
    [s \in Streams |-> IF f.pending[h].records[s] = Untouched THEN rec[h][s]
                       ELSE f.pending[h].records[s]]

\* apply_all; a conflict fails the operation and rolls its transaction back.
ApplyAll(c) ==
    /\ At(c, "apply")
    /\ LET f == frame[c]
           batches == InTransaction(f)
       IN \/ /\ \A h \in batches : PositionMatches(f, h)
             /\ pos' = [h \in Handlers |->
                    IF h \in batches THEN f.pending[h].through ELSE pos[h]]
             /\ rec' = [h \in Handlers |->
                    IF h \in batches THEN Applied(f, h) ELSE rec[h]]
             /\ frame' = [frame EXCEPT
                    ![c].pc = IF batches = Staged(f) THEN "status" ELSE "apply",
                    ![c].pending = [h \in Handlers |->
                        IF h \in batches THEN NothingStaged ELSE f.pending[h]]]
             /\ UNCHANGED gate
          \/ /\ \E h \in batches : ~PositionMatches(f, h)
             /\ Return(c)
             /\ UNCHANGED store
    /\ UNCHANGED <<journal, budget>>

\* status: every projection is at the head of the journal, which is not in
\* recovery mode: the journal of this module never is.
Ready == \A h \in Handlers : pos[h] = Len(journal)

\* The end of a round of drain: ready, no progress, or no round left.
Status(c) ==
    /\ At(c, "status")
    /\ IF Ready \/ frame[c].applied = 0 \/ frame[c].rounds = 1
       THEN Return(c)
       ELSE /\ frame' = [frame EXCEPT ![c].pc = "position", ![c].rounds = @ - 1,
                                      ![c].handler = 1, ![c].from = 0, ![c].item = 0,
                                      ![c].pages = NoPages, ![c].applied = 0]
            /\ UNCHANGED gate
    /\ UNCHANGED <<journal, store, budget>>

\* The process dies: its locks and overlays are gone, the store is not.
Crash(p) ==
    /\ budget.crashes > 0
    /\ \E c \in Callers : Home[c] = p /\ frame[c] # Idle
    /\ budget' = [budget EXCEPT !.crashes = @ - 1]
    /\ frame' = [c \in Callers |-> IF Home[c] = p THEN Idle ELSE frame[c]]
    /\ gate' = [gate EXCEPT ![p] = FALSE]
    /\ UNCHANGED <<journal, store>>

\* A step of an operation under way.
Step(c) ==
    \/ Reset(c)
    \/ ReadPosition(c)
    \/ ReadPage(c)
    \/ Reduce(c)
    \/ ReduceFails(c)
    \/ ApplyAll(c)
    \/ Status(c)

Next ==
    /\ \/ \E e \in Event : Record(e)
       \/ \E c \in Callers :
              \/ \E rounds \in 1 .. MaxRounds : Drain(c, rounds)
              \/ Rebuild(c)
              \/ Step(c)
       \/ \E p \in Processes : Crash(p)
    /\ UNCHANGED deployment

Spec == Init /\ [][Next]_vars

-----------------------------------------------------------------------------
\* What the record of s must be after the first n events, said of the journal
\* as a whole: nothing unless the last start comes after the last close, and
\* then the latest event of the stream.
About(s, n, kinds) == {m \in 1 .. n : journal[m].stream = s /\ journal[m].kind \in kinds}

IsRecord(s, n, value) ==
    LET open == \E m \in About(s, n, {"started"}) :
                    \A k \in About(s, n, {"closed"}) : k < m
    IN IF open THEN value \in About(s, n, Kinds) /\ \A m \in About(s, n, Kinds) : m <= value
       ELSE value = 0

\* Whatever was interrupted, reset or raced, every read model holds exactly what
\* its position says: the records of the journal's first pos[h] events.
StateIsReplay ==
    \A h \in Handlers : \A s \in Streams : IsRecord(s, pos[h], rec[h][s])

\* operation_gate: no two operations of a process overlap, so that no batch of a
\* round is ever refused and no position moves under a round.
NoBatchRefused ==
    \A c \in Callers : frame[c] # Idle /\ (\A d \in Callers : Home[d] = Home[c]) =>
        /\ \A h \in Staged(frame[c]) : PositionMatches(frame[c], h)
        /\ frame[c].pc \in {"page", "project"} => frame[c].from = pos[frame[c].handler]

\* The read models are exact, and in one process nothing is refused to keep them so.
ReadModelsAreExact == TypeOK /\ StateIsReplay /\ NoBatchRefused

\* A drain or rebuild that stops with rounds to spare, neither failed nor
\* crashed, has brought every projection past the head at the time it was called,
\* even if the journal grew meanwhile.
DrainReachesItsHead ==
    [][\A c \in Callers :
           frame[c] # Idle /\ frame[c].pc = "status" /\ frame[c].rounds > 1
                /\ frame'[c] = Idle /\ budget' = budget
           => \A h \in Handlers : pos[h] >= frame[c].asked]_vars

\* The maintenance interval asks for drains again and again, and an operation
\* that holds the gate goes on.
FairSpec ==
    /\ Spec
    /\ \A c \in Callers : WF_vars(Step(c) /\ UNCHANGED deployment)
    /\ \A c \in Callers : WF_vars(/\ \E rounds \in 1 .. MaxRounds : Drain(c, rounds)
                                  /\ UNCHANGED deployment)

\* Once the journal stops growing and nothing fails any more, every projection
\* gets to its head and stays there, after crashes, failures and rebuilds.
EventuallyCurrent == <>[]Ready
=============================================================================
