----------------------------- MODULE AuditExport -----------------------------
(***************************************************************************)
(* Export of audit evidence to an external destination: the service of     *)
(* crates/colossus-audit over the durable work queue of                    *)
(* crates/colossus-projection/src/external_work.rs.                        *)
(*                                                                         *)
(* A consumer has a durable position in the journal's outbox and at most   *)
(* one durable retry state.  A drain exports a batch, item by item,        *)
(* through the effect gateway (which itself journals events of the         *)
(* exporter's own actor), then acknowledges the whole batch.  The worker   *)
(* drains every second and on request, an operator may reset the consumer; *)
(* both hold the worker's maintenance lock.  The process may crash at any  *)
(* point; journal, position and retry state survive.                       *)
(*                                                                         *)
(* An event is represented by who caused it: "app", or "own" for the       *)
(* exporter's actor.  The optimistic read-modify-write loops of            *)
(* record_failure and clear_failure are single steps.                      *)
(***************************************************************************)
EXTENDS Naturals, Sequences, FiniteSets

CONSTANTS
    Callers,      \* tasks of the worker: its background drain, operators
    NoCaller,     \* the maintenance lock is free
    Limit,        \* batch limit of run_once, 256 in the code
    MaxRounds,    \* rounds of one drain, 16384 in the code
    MaxApp,       \* bound: events of the application
    MaxEvents,    \* bound: events of the journal
    MaxFailures,  \* bound: failed exports and failed store operations
    MaxCrashes,   \* bound: crashes of the process
    MaxResets     \* bound: resets by the operator

ASSUME CallersAssumption == NoCaller \notin Callers
ASSUME BatchAssumption == Limit \in Nat \ {0} /\ MaxRounds \in Nat \ {0}
ASSUME BoundsAssumption == {MaxApp, MaxEvents, MaxFailures, MaxCrashes,
                            MaxResets} \subseteq Nat

VARIABLES
    journal,    \* the outbox, as the causes of the events
    position,   \* position of external-work:<consumer>
    retry,      \* ExternalWorkRetryState, or NoRetry
    retryPos,   \* position of external-work-retry:<consumer>
    due,        \* the retry state's next_retry_at has passed
    lock,       \* holder of the maintenance lock
    pc,         \* where each caller is
    frame,      \* its locals: rounds left, batch, item, position read
    delivered,  \* ghost: sequences whose evidence reached the destination
    unknown,    \* ghost: exported with OutcomeUnknown, not reset since
    recorded,   \* ghost: those with a durable non-retryable state
    budget      \* ghost: what is left of the bounds

vars == <<journal, position, retry, retryPos, due, lock, pc, frame, delivered,
          unknown, recorded, budget>>
durable == <<journal, position, retry, retryPos, due>>
ghosts == <<delivered, unknown, recorded>>

-----------------------------------------------------------------------------
NoRetry == [seq |-> 0, attempts |-> 0, retryable |-> TRUE]

Pcs == {"idle", "gate", "pending", "export", "exporting", "failed", "unknown",
        "position", "acknowledge", "clear", "status", "resetting"}

Frame == [rounds: Nat, first: Nat, last: Nat, item: Nat, from: Nat]

NoFrame == [rounds |-> 0, first |-> 0, last |-> 0, item |-> 0, from |-> 0]

Goto(c, l) == pc' = [pc EXCEPT ![c] = l]

Stay(c, l) == Goto(c, l) /\ UNCHANGED <<lock, frame>>

Spend(b) == budget[b] > 0 /\ budget' = [budget EXCEPT ![b] = @ - 1]

(* retry_state() returns a state only while its item is pending. *)
RetryState == retry.seq > position

(* Mutant: a recorded failure blocks, retryable or not. *)
GateShut == ~RetryState

(* retry_gate: no state, or a retryable one whose time has come. *)
GateOpen == RetryState => retry.retryable /\ due

(* The caller returns and drops the maintenance guard. *)
Return(c) ==
    /\ lock' = NoCaller
    /\ frame' = [frame EXCEPT ![c] = NoFrame]
    /\ Goto(c, "idle")

Item(c) == frame[c].item

-----------------------------------------------------------------------------
(* The worker: drain and reset take the maintenance lock. *)

LockFree == lock = NoCaller

Drain(c) ==
    /\ pc[c] = "idle"
    /\ LockFree
    /\ lock' = c
    /\ frame' = [frame EXCEPT ![c].rounds = MaxRounds]
    /\ Goto(c, "gate")
    /\ UNCHANGED <<durable, ghosts, budget>>

(* Mutant: the retry state goes first, the position second. *)
ResetRetryFirst(c) ==
    /\ pc[c] = "idle"
    /\ LockFree
    /\ Spend("resets")
    /\ lock' = c
    /\ retry' = NoRetry
    /\ retryPos' = 0
    /\ Goto(c, "resetting")
    /\ UNCHANGED <<journal, position, due, frame, ghosts>>

(* reset(): the position's own transaction, then the retry state's. *)
ResetPosition(c) ==
    /\ pc[c] = "idle"
    /\ LockFree
    /\ Spend("resets")
    /\ lock' = c
    /\ position' = 0
    /\ Goto(c, "resetting")
    /\ UNCHANGED <<journal, retry, retryPos, due, frame, ghosts>>

ResetRetry(c) ==
    /\ pc[c] = "resetting"
    /\ retry' = NoRetry
    /\ retryPos' = 0
    /\ unknown' = {}
    /\ recorded' = {}
    /\ Return(c)
    /\ UNCHANGED <<journal, position, due, delivered, budget>>

-----------------------------------------------------------------------------
(* run_once. *)

RetryGate(c) ==
    /\ pc[c] = "gate"
    /\ IF GateOpen THEN Stay(c, "pending") ELSE Return(c)
    /\ UNCHANGED <<durable, ghosts, budget>>

Lesser(a, b) == IF a < b THEN a ELSE b

Pending(c) ==
    /\ pc[c] = "pending"
    /\ IF position < Len(journal)
       THEN /\ frame' = [frame EXCEPT
                 ![c].first = position + 1, ![c].item = position + 1,
                 ![c].last = Lesser(position + Limit, Len(journal))]
            /\ Goto(c, "export")
            /\ UNCHANGED lock
       ELSE Return(c)
    /\ UNCHANGED <<durable, ghosts, budget>>

(* The exporter's own events are not evidence to export. *)
Skips(i) == journal[i] = "own"

NextItem(c) ==
    /\ frame' = [frame EXCEPT ![c].item = @ + 1]
    /\ Goto(c, IF Item(c) < frame[c].last THEN "export" ELSE "position")
    /\ UNCHANGED lock

SkipOwn(c) ==
    /\ pc[c] = "export"
    /\ Skips(Item(c))
    /\ NextItem(c)
    /\ UNCHANGED <<durable, ghosts, budget>>

(* The gateway journals the request, decision and start of the effect. *)
ExportCall(c) ==
    /\ pc[c] = "export"
    /\ ~Skips(Item(c))
    /\ Len(journal) < MaxEvents
    /\ journal' = Append(journal, "own")
    /\ Stay(c, "exporting")
    /\ UNCHANGED <<position, retry, retryPos, due, ghosts, budget>>

(* The evidence arrived, and the gateway journals effect.completed. *)
ExportOk(c) ==
    /\ pc[c] = "exporting"
    /\ delivered' = delivered \cup {Item(c)}
    /\ journal' = Append(journal, "own")
    /\ NextItem(c)
    /\ UNCHANGED <<position, retry, retryPos, due, unknown, recorded, budget>>

(* No effect comes about and nothing is journalled: the journal is in      *)
(* recovery mode, or the evidence is too large.  Retryable.                *)
ExportRefused(c) ==
    /\ pc[c] = "export"
    /\ ~Skips(Item(c))
    /\ Spend("failures")
    /\ Stay(c, "failed")
    /\ UNCHANGED <<durable, ghosts>>

(* Denied or failed for certain, or the terminal event could not be        *)
(* journalled, whether the evidence arrived or not: every error but        *)
(* OutcomeUnknown becomes StoreError::Adapter, retryable.                  *)
ExportFails(c) ==
    /\ pc[c] = "exporting"
    /\ Spend("failures")
    /\ \/ journal' = Append(journal, "own") /\ UNCHANGED delivered
       \/ delivered' \in {delivered, delivered \cup {Item(c)}} /\ UNCHANGED journal
    /\ Stay(c, "failed")
    /\ UNCHANGED <<position, retry, retryPos, due, unknown, recorded>>

(* The evidence may or may not have arrived; an owner that has lost its    *)
(* fence does not journal the terminal event.                              *)
ExportUnknown(c) ==
    /\ pc[c] = "exporting"
    /\ Spend("failures")
    /\ delivered' \in {delivered, delivered \cup {Item(c)}}
    /\ journal' \in {journal, Append(journal, "own")}
    /\ unknown' = unknown \cup {Item(c)}
    /\ Stay(c, "unknown")
    /\ UNCHANGED <<position, retry, retryPos, due, recorded>>

-----------------------------------------------------------------------------
(* record_failure, and the end of a failed drain. *)

FailureState(c, retryable) ==
    [seq |-> Item(c),
     attempts |-> IF retry.seq = Item(c) THEN retry.attempts + 1 ELSE 1,
     retryable |-> retryable]

(* Only a failure of the next pending item can be recorded. *)
IsNext(c) == Item(c) = position + 1

(* Mutant: what precedes the failed item is acknowledged, and the item. *)
RecordFailureAndAcknowledge(c) ==
    /\ pc[c] \in {"failed", "unknown"}
    /\ IF IsNext(c)
       THEN /\ retry' = FailureState(c, pc[c] = "failed")
            /\ retryPos' = retryPos + 1
            /\ due' = FALSE
            /\ UNCHANGED position
       ELSE position' = Item(c) /\ UNCHANGED <<retry, retryPos, due>>
    /\ Return(c)
    /\ UNCHANGED <<journal, ghosts, budget>>

RecordFailure(c) ==
    /\ pc[c] \in {"failed", "unknown"}
    /\ IF IsNext(c)
       THEN /\ retry' = FailureState(c, pc[c] = "failed")
            /\ retryPos' = retryPos + 1
            /\ due' = FALSE
            /\ recorded' = IF pc[c] = "unknown" THEN recorded \cup {Item(c)}
                                                ELSE recorded
       ELSE UNCHANGED <<retry, retryPos, due, recorded>>
    /\ Return(c)
    /\ UNCHANGED <<journal, position, delivered, unknown, budget>>

-----------------------------------------------------------------------------
(* acknowledge_batch and clear_failure, and the end of a round. *)

ReadPosition(c) ==
    /\ pc[c] = "position"
    /\ frame' = [frame EXCEPT ![c].from = position]
    /\ Goto(c, "acknowledge")
    /\ UNCHANGED <<durable, lock, ghosts, budget>>

(* The batch must begin right after the position read, and the position    *)
(* must still be it.                                                       *)
Acknowledge(c) ==
    /\ pc[c] = "acknowledge"
    /\ IF frame[c].first = frame[c].from + 1 /\ frame[c].from = position
       THEN position' = frame[c].last /\ Stay(c, "clear")
       ELSE Return(c) /\ UNCHANGED position
    /\ UNCHANGED <<journal, retry, retryPos, due, ghosts, budget>>

ClearFailure(c) ==
    /\ pc[c] = "clear"
    /\ retry' = NoRetry
    /\ retryPos' = IF retry = NoRetry THEN retryPos ELSE retryPos + 1
    /\ Stay(c, "status")
    /\ UNCHANGED <<journal, position, due, ghosts, budget>>

(* status(): current, or rounds used up, and the drain is over. *)
Status(c) ==
    /\ pc[c] = "status"
    /\ IF (position = Len(journal) /\ ~RetryState) \/ frame[c].rounds = 1
       THEN Return(c)
       ELSE /\ frame' = [frame EXCEPT ![c] =
                           [NoFrame EXCEPT !.rounds = frame[c].rounds - 1]]
            /\ Goto(c, "gate")
            /\ UNCHANGED lock
    /\ UNCHANGED <<durable, ghosts, budget>>

-----------------------------------------------------------------------------
(* The environment. *)

(* The journal or the projection store reports an error. *)
StoreFails(c) ==
    /\ pc[c] \notin {"idle", "exporting"}
    /\ Spend("failures")
    /\ Return(c)
    /\ UNCHANGED <<durable, ghosts>>

AppEvent ==
    /\ Spend("app")
    /\ journal' = Append(journal, "app")
    /\ UNCHANGED <<position, retry, retryPos, due, lock, pc, frame, ghosts>>

(* Time passes the retry state's next_retry_at. *)
Elapse ==
    /\ ~due
    /\ due' = TRUE
    /\ UNCHANGED <<journal, position, retry, retryPos, lock, pc, frame, ghosts, budget>>

(* An export the crash interrupts may have arrived. *)
Crash ==
    /\ Spend("crashes")
    /\ lock' = NoCaller
    /\ pc' = [c \in Callers |-> "idle"]
    /\ frame' = [c \in Callers |-> NoFrame]
    /\ delivered' \in {delivered, delivered \cup
                       {Item(c) : c \in {d \in Callers : pc[d] = "exporting"}}}
    /\ UNCHANGED <<durable, unknown, recorded>>

-----------------------------------------------------------------------------
Init ==
    /\ journal = <<>>
    /\ position = 0
    /\ retry = NoRetry
    /\ retryPos = 0
    /\ due = TRUE
    /\ lock = NoCaller
    /\ pc = [c \in Callers |-> "idle"]
    /\ frame = [c \in Callers |-> NoFrame]
    /\ delivered = {}
    /\ unknown = {}
    /\ recorded = {}
    /\ budget = [app |-> MaxApp, failures |-> MaxFailures,
                 crashes |-> MaxCrashes, resets |-> MaxResets]

Proceed(c) ==
    \/ RetryGate(c) \/ Pending(c) \/ SkipOwn(c) \/ ExportCall(c)
    \/ ExportRefused(c) \/ ExportOk(c) \/ ExportFails(c) \/ ExportUnknown(c)
    \/ RecordFailure(c) \/ ReadPosition(c) \/ Acknowledge(c)
    \/ ClearFailure(c) \/ Status(c) \/ ResetRetry(c)

CallerNext(c) == Proceed(c) \/ Drain(c) \/ ResetPosition(c) \/ StoreFails(c)

Next == (\E c \in Callers : CallerNext(c)) \/ AppEvent \/ Elapse \/ Crash

Spec == Init /\ [][Next]_vars

(* The worker asks for a drain every second and its lock is granted in     *)
(* turn; a call that has begun goes on; time passes.  Exports and the      *)
(* store fail, and the process crashes, only as often as the bounds say.   *)
FairSpec ==
    /\ Spec
    /\ \A c \in Callers : WF_vars(Proceed(c)) /\ SF_vars(Drain(c))
    /\ WF_vars(Elapse)

-----------------------------------------------------------------------------
(* Properties. *)

(* Every variable keeps its type: in particular a drain stays within its   *)
(* rounds.                                                                 *)
TypeOK ==
    /\ journal \in Seq({"app", "own"})
    /\ position \in Nat
    /\ retry \in [seq: Nat, attempts: Nat, retryable: BOOLEAN]
    /\ retryPos \in Nat
    /\ due \in BOOLEAN
    /\ lock \in Callers \cup {NoCaller}
    /\ pc \in [Callers -> Pcs]
    /\ frame \in [Callers -> Frame]
    /\ delivered \subseteq Nat /\ unknown \subseteq Nat /\ recorded \subseteq Nat
    /\ budget \in [{"app", "failures", "crashes", "resets"} -> Nat]

(* At least once: an application event the durable position has passed has *)
(* reached the destination, whatever crashed, failed or was reset between  *)
(* its export and the acknowledgement of its batch.                        *)
NothingSkipped ==
    \A i \in 1..position : journal[i] = "app" => i \in delivered

(* Both: no state a drain, a failure or a reset leaves behind is malformed *)
(* or has passed over an event (drain, acknowledge_batch).                 *)
DeliveredAtLeastOnce == TypeOK /\ NothingSkipped

(* An item whose unknown outcome was recorded is not exported again until  *)
(* an operator's reset has gone through: the block survives crashes, the   *)
(* acknowledgement of other items, and a reset that stopped half way.      *)
RecordedUnknownBlocks ==
    \A c \in Callers : pc[c] = "exporting" => Item(c) \notin recorded

(* What docs/admin/audit-telemetry-recovery.md says: an export that        *)
(* returned outcome_unknown is not delivered again before a reset.         *)
UnknownBlocksReplay ==
    \A c \in Callers : pc[c] = "exporting" => Item(c) \notin unknown

(* The journal reads every projection position as one of its sequences,    *)
(* and a position beyond its head as corruption (verify_inner).  docs/     *)
(* develop/state-recovery.md promises "Durable bounded backoff" for a      *)
(* consumer that keeps failing, not a journal that fails to verify.        *)
RetryPositionWithinJournal == retryPos <= Len(journal)

(* Exporting ends: the events that exports add to the journal are not      *)
(* exported in turn, so the consumer catches up with the journal for good, *)
(* unless a recorded unknown outcome blocks it.                            *)
CatchesUp ==
    <>[](position = Len(journal) \/ (RetryState /\ ~retry.retryable))
=============================================================================
