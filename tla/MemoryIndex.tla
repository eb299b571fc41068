----------------------------- MODULE MemoryIndex -----------------------------
(***************************************************************************)
(* The disposable search index of colossus-memory: MemoryService           *)
(* synchronises one index from the journal through the external work       *)
(* queue, and rebuilds it on request.                                      *)
(*                                                                         *)
(* Three durable places move one after the other: the index (documents,    *)
(* event markers and its own position), the queue position, and the        *)
(* consumer's retry state.  A sync is started by every memory operation    *)
(* and search, without a lock: it reads both positions, applies a batch    *)
(* event by event, stores the index position, then acknowledges the batch. *)
(* The process may crash between any two of these.                         *)
(*                                                                         *)
(* An event is the memory it is about and whether it stores or removes     *)
(* it; a document is the sequence of the event whose text it holds (0: no  *)
(* document).                                                              *)
(***************************************************************************)
EXTENDS Naturals, Sequences, FiniteSets, FiniteSetsExt

CONSTANTS
    Callers,      \* tasks that may synchronise or rebuild
    Memories,
    Limit,        \* batch limit of sync_one, 256 in the code
    Budgets       \* bounds: callers at work, memories recorded, events of the
                  \* journal, adapter failures, crashes, rebuilds

ASSUME MemoryIndexAssumption ==
    /\ Limit \in Nat \ {0}
    /\ Budgets \subseteq [callers: SUBSET Callers, memories: SUBSET Memories, events: Nat,
                         faults: Nat, crashes: Nat, rebuilds: Nat]

VARIABLES
    journal,    \* the outbox: [mem, put] per event
    docs,       \* docs[m]: the document of m
    marks,      \* events with an __event__ marker in the index
    indexPos,   \* MemoryIndex::position, the __position__ document
    queuePos,   \* position of external-work:<consumer>
    retry,      \* retry state: "none", "later" (retryable) or "blocked"
    pc, frame,  \* where each caller is, and its locals
    budget      \* ghost: what is left of the bounds

vars == <<journal, docs, marks, indexPos, queuePos, retry, pc, frame, budget>>
index == <<docs, marks, indexPos>>
queue == <<queuePos, retry>>

Event == [mem: Memories, put: BOOLEAN]

\* from: the local position; first..last: the batch; item: the event at hand;
\* rebuild: the caller is in rebuild_index; values: list_active as it read it.
Frame == [from: Nat, first: Nat, last: Nat, item: Nat, rebuild: BOOLEAN,
          values: [Memories -> Nat]]

Pcs == {"idle", "positions", "compare", "pending", "processed", "apply", "setPosition",
        "acknowledge", "clear", "failed", "unverified",
        "reset", "resetRetry", "setZero", "rebuild"}

Max0(S) == IF S = {} THEN 0 ELSE Max(S)

\* The document of m after the first n events: the last one that is about m, if
\* it stores it (get_memory and list_active over the same events).
Canonical(m, n) ==
    LET last == Max0({s \in 1 .. n : journal[s].mem = m}) IN
    IF last # 0 /\ journal[last].put THEN last ELSE 0

NoValues == [m \in Memories |-> 0]

NoFrame == [from |-> 0, first |-> 0, last |-> 0, item |-> 0, rebuild |-> FALSE,
            values |-> NoValues]

TypeOK ==
    /\ journal \in Seq(Event)
    /\ docs \in [Memories -> 0 .. Len(journal)]
    /\ marks \subseteq 1 .. Len(journal)
    /\ indexPos \in 0 .. Len(journal)
    /\ queuePos \in 0 .. Len(journal)
    /\ retry \in {"none", "later", "blocked"}
    /\ pc \in [Callers -> Pcs]
    /\ frame \in [Callers -> Frame]

Init ==
    /\ journal = << >>
    /\ docs = NoValues
    /\ marks = {}
    /\ indexPos = 0
    /\ queuePos = 0
    /\ retry = "none"
    /\ pc = [c \in Callers |-> "idle"]
    /\ frame = [c \in Callers |-> NoFrame]
    /\ budget \in Budgets

Spend(b) == budget[b] > 0 /\ budget' = [budget EXCEPT ![b] = @ - 1]

Goto(c, l) == pc' = [pc EXCEPT ![c] = l]

Return(c) == Goto(c, "idle") /\ frame' = [frame EXCEPT ![c] = NoFrame]

-----------------------------------------------------------------------------
\* A memory is created or updated (put), archived or superseded; only a stored
\* memory can be removed.
Record(m, put) ==
    /\ m \in budget.memories /\ Len(journal) < budget.events
    /\ put \/ Canonical(m, Len(journal)) # 0
    /\ journal' = Append(journal, [mem |-> m, put |-> put])
    /\ UNCHANGED <<index, queue, pc, frame, budget>>

\* Mutant: a retryable failure closes the gate for good.
StartSyncOnlyClean(c) ==
    /\ pc[c] = "idle" /\ c \in budget.callers
    /\ retry = "none"
    /\ Goto(c, "positions")
    /\ UNCHANGED <<journal, index, queue, frame, budget>>

\* sync_with_retry: enforce_retry_gate lets a sync through when there is no retry
\* state or the wait of a retryable one is over (time passes freely here).
StartSync(c) ==
    /\ pc[c] = "idle" /\ c \in budget.callers
    /\ retry # "blocked"
    /\ Goto(c, "positions")
    /\ UNCHANGED <<journal, index, queue, frame, budget>>

\* sync_one reads the queue position, then the index position; an index position
\* behind the acknowledged one is a verification failure.
Positions(c) ==
    /\ pc[c] = "positions"
    /\ frame' = [frame EXCEPT ![c].from = queuePos]
    /\ Goto(c, "compare")
    /\ UNCHANGED <<journal, index, queue, budget>>

Compare(c) ==
    /\ pc[c] = "compare"
    /\ Goto(c, IF indexPos < frame[c].from THEN "unverified" ELSE "pending")
    /\ UNCHANGED <<journal, index, queue, frame, budget>>

\* ExternalWorkQueue::pending reads the queue position again.
Pending(c) ==
    LET last == Min({Len(journal), queuePos + Limit}) IN
    /\ pc[c] = "pending"
    /\ frame' = [frame EXCEPT ![c].first = queuePos + 1, ![c].last = last,
                              ![c].item = queuePos + 1]
    /\ Goto(c, IF last = queuePos THEN "clear" ELSE "processed")
    /\ UNCHANGED <<journal, index, queue, budget>>

\* The step after an item: the next one, or the checkpoint.
AfterItem(c) ==
    IF frame[c].item = frame[c].last
    THEN Goto(c, "setPosition") /\ UNCHANGED frame
    ELSE Goto(c, "processed") /\ frame' = [frame EXCEPT ![c].item = @ + 1]

\* TantivyMemoryIndex::processed looks for the event's marker.
IsProcessed(s) == s \in marks

\* upsert and remove, first half: the marker is read before the writer is locked.
Processed(c) ==
    /\ pc[c] = "processed"
    /\ \/ IsProcessed(frame[c].item) /\ AfterItem(c)
       \/ ~ IsProcessed(frame[c].item) /\ Goto(c, "apply") /\ UNCHANGED frame
    /\ UNCHANGED <<journal, index, queue, budget>>

\* What upsert and remove leave of the memory's document.
DocumentAfter(e, s) == IF e.put THEN s ELSE 0

\* Second half: document and marker in one commit under the writer lock.
Apply(c) ==
    LET s == frame[c].item  e == journal[s] IN
    /\ pc[c] = "apply"
    /\ docs' = [docs EXCEPT ![e.mem] = DocumentAfter(e, s)]
    /\ marks' = marks \cup {s}
    /\ AfterItem(c)
    /\ UNCHANGED <<journal, indexPos, queue, budget>>

\* Mutant: the batch is acknowledged before the index position is stored.
AcknowledgeFirst(c) ==
    /\ pc[c] = "setPosition"
    /\ \/ /\ queuePos = frame[c].from
          /\ queuePos' = frame[c].last
          /\ Goto(c, "acknowledge")
       \/ queuePos # frame[c].from /\ Goto(c, "failed") /\ UNCHANGED queuePos
    /\ UNCHANGED <<journal, index, retry, frame, budget>>

SetPosition(c) ==
    /\ pc[c] = "setPosition"
    /\ indexPos' = frame[c].last
    /\ Goto(c, "acknowledge")
    /\ UNCHANGED <<journal, docs, marks, queue, frame, budget>>

\* Mutant: the position moves on by the length of the batch, whoever moved it before.
AcknowledgeCounts(c) ==
    LET f == frame[c]  n == f.last - f.first + 1 IN
    /\ pc[c] = "acknowledge"
    /\ queuePos + n <= Len(journal)
    /\ queuePos' = queuePos + n
    /\ frame' = [frame EXCEPT ![c].from = f.last]
    /\ Goto(c, IF n < Limit THEN "clear" ELSE "pending")
    /\ UNCHANGED <<journal, index, retry, budget>>

\* acknowledge_batch compares position and first item with the position the sync
\* read; a full batch goes round again.
Acknowledge(c) ==
    LET f == frame[c] IN
    /\ pc[c] = "acknowledge"
    /\ \/ /\ queuePos = f.from /\ f.first = f.from + 1
          /\ queuePos' = f.last
          /\ frame' = [frame EXCEPT ![c].from = f.last]
          /\ Goto(c, IF f.last - f.first + 1 < Limit THEN "clear" ELSE "pending")
       \/ /\ ~ (queuePos = f.from /\ f.first = f.from + 1)
          /\ Goto(c, "failed")
          /\ UNCHANGED <<queuePos, frame>>
    /\ UNCHANGED <<journal, index, retry, budget>>

\* The sync succeeded: clear_failure.
Clear(c) ==
    /\ pc[c] = "clear"
    /\ retry' = "none"
    /\ Return(c)
    /\ UNCHANGED <<journal, index, queuePos, budget>>

\* record_failure: conflicts and adapter errors are retryable; a verification
\* failure, a missing record or recovery mode blocks the consumer.  rebuild_index
\* only reports the error.
Failed(c) ==
    /\ pc[c] \in {"failed", "unverified"}
    /\ retry' = IF frame[c].rebuild THEN retry
                ELSE IF pc[c] = "unverified" THEN "blocked" ELSE "later"
    /\ Return(c)
    /\ UNCHANGED <<journal, index, queuePos, budget>>

\* An index or queue operation fails, with an error of either kind; what it would
\* have written is not written.
Fault(c) ==
    /\ pc[c] \in {"positions", "compare", "pending", "processed", "apply", "setPosition",
                  "acknowledge", "reset", "resetRetry", "setZero", "rebuild"}
    /\ Spend("faults")
    /\ \E l \in {"failed", "unverified"} : Goto(c, l)
    /\ UNCHANGED <<journal, index, queue, frame>>

-----------------------------------------------------------------------------
\* rebuild_index: the canonical records are listed first, by an operator who may
\* act on a blocked consumer too.
StartRebuild(c) ==
    /\ pc[c] = "idle" /\ c \in budget.callers
    /\ Spend("rebuilds")
    /\ frame' = [frame EXCEPT ![c] =
                   [NoFrame EXCEPT !.rebuild = TRUE,
                                   !.values = [m \in Memories |-> Canonical(m, Len(journal))]]]
    /\ Goto(c, "reset")
    /\ UNCHANGED <<journal, index, queue>>

\* Queue position, then retry state (reset and clear_failure), then the index
\* position, each durable on its own.
Reset(c) ==
    /\ pc[c] = "reset"
    /\ queuePos' = 0
    /\ Goto(c, "resetRetry")
    /\ UNCHANGED <<journal, index, retry, frame, budget>>

ResetRetry(c) ==
    /\ pc[c] = "resetRetry"
    /\ retry' = "none"
    /\ Goto(c, "setZero")
    /\ UNCHANGED <<journal, index, queuePos, frame, budget>>

SetZero(c) ==
    /\ pc[c] = "setZero"
    /\ indexPos' = 0
    /\ Goto(c, "rebuild")
    /\ UNCHANGED <<journal, docs, marks, queue, frame, budget>>

\* TantivyMemoryIndex::rebuild, one commit: markers and position go with the
\* documents (delete_all_documents); then sync_one replays the journal.
Rebuild(c) ==
    /\ pc[c] = "rebuild"
    /\ docs' = frame[c].values
    /\ marks' = {}
    /\ indexPos' = 0
    /\ Goto(c, "positions")
    /\ UNCHANGED <<journal, queue, frame, budget>>

\* The process stops; index, queue and journal are as last committed.
Crash ==
    /\ \E c \in Callers : pc[c] # "idle"
    /\ Spend("crashes")
    /\ pc' = [c \in Callers |-> "idle"]
    /\ frame' = [c \in Callers |-> NoFrame]
    /\ UNCHANGED <<journal, index, queue>>

SyncStep(c) ==
    \/ Positions(c) \/ Compare(c) \/ Pending(c) \/ Processed(c) \/ Apply(c)
    \/ SetPosition(c) \/ Acknowledge(c) \/ Clear(c) \/ Failed(c)
    \/ Reset(c) \/ ResetRetry(c) \/ SetZero(c) \/ Rebuild(c)

Next ==
    \/ \E m \in Memories, put \in BOOLEAN : Record(m, put)
    \/ \E c \in Callers : StartSync(c) \/ StartRebuild(c) \/ SyncStep(c) \/ Fault(c)
    \/ Crash

Spec == Init /\ [][Next]_vars

\* A started sync runs on (the runtime polls its task), and syncs keep being
\* started by memory operations and searches.
FairSpec == /\ Spec
            /\ \A c \in Callers : WF_vars(StartSync(c)) /\ WF_vars(SyncStep(c))

-----------------------------------------------------------------------------
\* An acknowledged journal is an applied journal: when the queue has no more work
\* for the consumer, every document is the one the canonical records call for,
\* across batches cut short by failures, crashes and rebuilds.
CaughtUpIsCurrent ==
    queuePos = Len(journal) => \A m \in Memories : docs[m] = Canonical(m, Len(journal))

\* The same, asked only when no sync is under way.
RestIsCurrent == (\A c \in Callers : pc[c] = "idle") => CaughtUpIsCurrent

\* The index position never falls behind the acknowledged one, so a sync never
\* finds the index unverifiable and never blocks its own consumer ("the inverse
\* ordering could lose external work permanently", sync_one;
\* "Last durably applied global journal sequence", MemoryIndex::position).
IndexNotBehindQueue ==
    (\A c \in Callers : pc[c] \notin {"setZero", "rebuild"}) => indexPos >= queuePos

\* The index is at least as far as the queue says, and is what the queue says.
IndexFollowsQueue == TypeOK /\ CaughtUpIsCurrent /\ IndexNotBehindQueue

\* No two callers are inside a sync or a rebuild at once.
SyncsDoNotOverlap ==
    \A c, d \in Callers : pc[c] # "idle" /\ pc[d] # "idle" => c = d

\* As long as syncs and rebuilds do not overlap, the index follows the queue,
\* whoever runs them and wherever they are cut short.
SeparateSyncsFollowQueue == []SyncsDoNotOverlap => []IndexFollowsQueue

\* Between the reset of the queue and the replacement of the index, the caller
\* that rebuilds is the only one at work.
RebuildsAlone ==
    \A c, d \in Callers :
        pc[c] \in {"resetRetry", "setZero", "rebuild"} /\ pc[d] # "idle" => c = d

\* The queue has let go only of events whose marker is in the index.
AcknowledgedIsApplied == 1 .. queuePos \subseteq marks

\* Overlapping syncs may apply an older event over a newer one, but they lose none:
\* however many callers read the same batch, fail half way or are refused the
\* acknowledgement, an event leaves the queue only after it was applied, as long
\* as no sync runs inside a rebuild ("a safe idempotent batch replay; the inverse
\* ordering could lose external work permanently", sync_one).
OverlappingSyncsLoseNothing == []RebuildsAlone => []AcknowledgedIsApplied

\* The queue is worked off: again and again its position is at the head of the
\* journal, unless a failure that is not retryable has blocked the consumer until
\* an operator rebuilds the index.  Failures, crashes and conflicts between
\* overlapping syncs do not stop it.  What the index then holds is said by
\* IndexFollowsQueue and, for overlapping syncs, AcknowledgedIsApplied.
EventuallyCaughtUp == []<>(queuePos = Len(journal) \/ retry = "blocked")
=============================================================================
