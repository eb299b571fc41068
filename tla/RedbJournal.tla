----------------------------- MODULE RedbJournal -----------------------------
(***************************************************************************)
(* The redb event journal of one Colossus process, the authority every     *)
(* other component recovers from: crates/colossus-journal-redb.            *)
(*                                                                         *)
(* Several threads share one RedbEventJournal.  Mutations take the writer  *)
(* mutex; reads and verification do not.  Durable state is the database    *)
(* file and, outside it, the secure anchor kept by the key provider.  The  *)
(* process may crash between any two steps; a restart verifies the         *)
(* database against the anchor before it accepts writes.  The environment  *)
(* may damage a row of the file and may put an older copy of it back.      *)
(*                                                                         *)
(* A record's hash covers, through previous_hash, every record before it,  *)
(* so "the hash of record n" is represented by the records 1..n, and a     *)
(* boundary (sequence, hash) by that prefix.  A damaged row (event, stream *)
(* index or outbox entry) is remembered by its position, a damaged row of  *)
(* METADATA (head, checkpoint) by the position 0, and one of               *)
(* PROJECTION_RECORDS by -1.  No step performs more than one durable       *)
(* write.                                                                  *)
(*                                                                         *)
(* The file also holds the position of every projection, which             *)
(* verification compares with the head.  A projection follows the outbox,  *)
(* unless it is the retry projection of an external consumer: that one     *)
(* counts failures.                                                        *)
(***************************************************************************)
EXTENDS Integers, RecordLog

CONSTANTS
    Threads,             \* callers sharing the journal
    NoThread,            \* the writer mutex is free
    Streams,             \* stream ids
    Protections,         \* payload protections in use: TRUE Encrypted, FALSE Plaintext
    StartupModes,        \* startup verifications in use: "Incremental", "Full"
    Projections,         \* names with a row in PROJECTION_POSITIONS
    Counting,            \* those that are retry projections
    CheckpointInterval,  \* CHECKPOINT_INTERVAL, 100 in the code
    MaxEvents,           \* bound: records ever committed
    MaxPosition,         \* bound: positions that projections reach
    MaxFaults            \* bound: damages and restores by the environment

ASSUME ThreadsAssumption == NoThread \notin Threads
ASSUME ModeAssumption == /\ Protections \subseteq BOOLEAN
                         /\ StartupModes \subseteq {"Incremental", "Full"}
ASSUME CountingAssumption == Counting \subseteq Projections
ASSUME BoundsAssumption == /\ CheckpointInterval \in Nat \ {0}
                           /\ MaxEvents \in Nat
                           /\ MaxPosition \in Nat
                           /\ MaxFaults \in Nat

VARIABLES
    encrypted, \* the payload protection the journal was created with
    db,       \* the redb file: events, versions, checkpoint, positions, damage
    backup,   \* an older copy of the file, kept by the operator
    anchor,   \* the key provider's SecureAnchor
    phase,    \* "down", "starting" or "open"
    reason,   \* recovery_mode and recovery_reason; "none" means writable
    writer,   \* holder of the writer mutex
    pc,       \* where each thread is
    caller,   \* on whose behalf a thread checkpoints
    tx,       \* the write transaction's view of EVENTS and STREAM_VERSIONS
    span,     \* what a thread's append committed: sequences from+1 .. to
    seen,     \* the anchor a verifying thread has loaded
    nextId,   \* the next fresh event_id
    acked,    \* ghost: the records returned Ok to a caller, with sequence
    faults,   \* ghost: damages and restores so far
    overtaken \* ghost: a retry projection has been beyond the head

vars == <<encrypted, db, backup, anchor, phase, reason, writer, pc, caller, tx,
          span, seen, nextId, acked, faults, overtaken>>

-----------------------------------------------------------------------------
(* State. *)

Record == [stream_id: Streams, stream_version: Nat \ {0}, event_id: Nat]

Database == [events: Seq(Record), versions: [Streams -> Nat],
             checkpoint: Seq(Record), positions: [Projections -> Nat],
             damaged: SUBSET Int]

SecureAnchor == [hash: Seq(Record),
                 status: {"Absent", "Verified", "Quarantined"}]

NewDatabase == [events |-> <<>>, versions |-> [s \in Streams |-> 0],
                checkpoint |-> <<>>, positions |-> [p \in Projections |-> 0],
                damaged |-> {}]

NoAnchor == [hash |-> <<>>, status |-> "Absent"]

NoTx == [events |-> <<>>, versions |-> [s \in Streams |-> 0]]

NoSpan == [from |-> 0, to |-> 0]

Pcs == {"idle", "appending", "appended", "checkpoint", "anchoring",
        "committing", "verifying", "failed", "quarantining"}

recovering == reason # "none"

MetadataIntact == 0 \notin db.damaged

Goto(t, l) == pc' = [pc EXCEPT ![t] = l]

-----------------------------------------------------------------------------
(* Verification, as functions of a database snapshot and of an anchor. *)

(* Mutants: the anchor is not compared; checkpoint and anchor must agree. *)
VerifyInnerNoAnchor(d, a) == d.damaged = {} /\ Prefix(d.checkpoint, d.events)

VerifyInnerStrict(d, a) ==
    /\ d.damaged = {}
    /\ d.checkpoint = a.hash
    /\ Prefix(a.hash, d.events)

(* No projection claims to have seen an event that is not in the journal.  *)
PositionsWithin(d) == \A p \in Projections : d.positions[p] <= Len(d.events)

(* A full replay: every row intact, versions, checkpoint and anchor in line. *)
VerifyInner(d, a) ==
    /\ d.damaged = {}
    /\ WellVersioned(d.events)
    /\ \A s \in Streams : d.versions[s] = CountIn(d.events, s, Len(d.events))
    /\ PositionsWithin(d)
    /\ Prefix(d.checkpoint, d.events)
    /\ Prefix(a.hash, d.events)

(* Only the rows from the checkpoint on, when checkpoint and anchor agree. *)
VerifyIncremental(d, a) ==
    /\ d.checkpoint # <<>>
    /\ d.checkpoint = a.hash
    /\ Prefix(d.checkpoint, d.events)
    /\ PositionsWithin(d)
    /\ \A i \in {0} \cup Len(d.checkpoint)..Len(d.events) : i \notin d.damaged

(* Without keys there is no anchor: of the rows, the head's are inspected. *)
VerifyPlaintextIncremental(d) ==
    /\ d.checkpoint = <<>>
    /\ PositionsWithin(d)
    /\ {0, Len(d.events)} \cap d.damaged = {}

TrustedIncremental(mode, a) ==
    /\ encrypted
    /\ mode = "Incremental"
    /\ a.status = "Verified"

(* Mutant: an empty database is always taken for a new one. *)
AnchorAheadOfEmptyIgnored(a) == FALSE

AnchorAheadOfEmpty(a) == a.hash # <<>>

-----------------------------------------------------------------------------
(* append_batch: the mutex, one transaction, then perhaps a checkpoint. *)

(* Mutant: recovery mode is not looked at under the mutex. *)
MayMutateAlways == writer = NoThread

(* The mutex is free and, looked at under it, recovery mode is off. *)
MayMutate == writer = NoThread /\ ~recovering

(* Mutants: the version is not advanced; the expected version not compared. *)
NextVersionStays(v) == v

NextVersion(v) == v + 1

ExpectedAnyBelow(s, expected) == expected <= tx.versions[s]

ExpectedMatches(s, expected) == expected = tx.versions[s]

AppendLock(t) ==
    /\ phase = "open" /\ pc[t] = "idle"
    /\ MayMutate
    /\ MetadataIntact
    /\ writer' = t
    /\ tx' = [events |-> db.events, versions |-> db.versions]
    /\ Goto(t, "appending")
    /\ UNCHANGED <<db, backup, anchor, phase, reason, caller, span, seen,
                   nextId, acked, faults>>

(* The head cannot be decoded; the mutex is dropped before quarantine.     *)
AppendDamaged(t) ==
    /\ phase = "open" /\ pc[t] = "idle"
    /\ MayMutate
    /\ ~MetadataIntact
    /\ Goto(t, "failed")
    /\ UNCHANGED <<db, backup, anchor, phase, reason, writer, caller, tx, span,
                   seen, nextId, acked, faults>>

(* One event of the batch; its expected version must be the transaction's. *)
AppendEvent(t, s, expected) ==
    /\ pc[t] = "appending"
    /\ Len(tx.events) - Len(db.events) + nextId < MaxEvents
    /\ ExpectedMatches(s, expected)
    /\ LET r == [stream_id |-> s, stream_version |-> NextVersion(expected),
                 event_id |-> nextId + (Len(tx.events) - Len(db.events))]
       IN tx' = [events |-> Append(tx.events, r),
                 versions |-> [tx.versions EXCEPT ![s] = NextVersion(expected)]]
    /\ UNCHANGED <<db, backup, anchor, phase, reason, writer, pc, caller,
                   span, seen, nextId, acked, faults>>

(* A stale expected version, or an error of the storage engine: the        *)
(* transaction is dropped and the caller gets the error.                   *)
AppendAbort(t) ==
    /\ pc[t] = "appending"
    /\ writer' = NoThread
    /\ tx' = NoTx
    /\ Goto(t, "idle")
    /\ UNCHANGED <<db, backup, anchor, phase, reason, caller, span, seen,
                   nextId, acked, faults>>

AppendCommit(t) ==
    /\ pc[t] = "appending"
    /\ db' = [db EXCEPT !.events = tx.events, !.versions = tx.versions]
    /\ nextId' = nextId + (Len(tx.events) - Len(db.events))
    /\ span' = [span EXCEPT ![t] =
                  [from |-> Len(db.events), to |-> Len(tx.events)]]
    /\ writer' = NoThread
    /\ tx' = NoTx
    /\ Goto(t, "appended")
    /\ UNCHANGED <<backup, anchor, phase, reason, caller, seen, acked, faults>>

(* The records a thread's append has committed, with their sequences. *)
Persisted(t) == {<<i, db.events[i]>> : i \in (span[t].from + 1)..span[t].to}

Appended(t) == span[t].to > span[t].from

CountDue(t) ==
    /\ Appended(t)
    /\ span[t].to - Len(db.checkpoint) >= CheckpointInterval

AppendReturn(t) ==
    /\ pc[t] = "appended"
    /\ encrypted => ~CountDue(t) /\ (Appended(t) => MetadataIntact)
    /\ acked' = acked \cup Persisted(t)
    /\ span' = [span EXCEPT ![t] = NoSpan]
    /\ Goto(t, "idle")
    /\ UNCHANGED <<db, backup, anchor, phase, reason, writer, caller, tx, seen,
                   nextId, faults>>

(* The count is due, or CHECKPOINT_MAX_AGE has passed, which may be now. *)
AppendCheckpoint(t) ==
    /\ pc[t] = "appended"
    /\ encrypted
    /\ Appended(t) => MetadataIntact
    /\ caller' = [caller EXCEPT ![t] = "append"]
    /\ Goto(t, "checkpoint")
    /\ UNCHANGED <<db, backup, anchor, phase, reason, writer, tx, span, seen,
                   nextId, acked, faults>>

-----------------------------------------------------------------------------
(* checkpoint: the anchor is stored before the signed checkpoint commits. *)

CheckpointCall(t) ==
    /\ phase = "open" /\ pc[t] = "idle"
    /\ encrypted
    /\ caller' = [caller EXCEPT ![t] = "client"]
    /\ Goto(t, "checkpoint")
    /\ UNCHANGED <<db, backup, anchor, phase, reason, writer, tx, span, seen,
                   nextId, acked, faults>>

(* Return of checkpoint() to its caller; startup then opens the journal. *)
CheckpointReturn(t, ok) ==
    /\ acked' = IF caller[t] = "append" /\ ok THEN acked \cup Persisted(t)
                                              ELSE acked
    /\ reason' = IF caller[t] = "startup" /\ ~ok THEN "adapter" ELSE reason
    /\ phase' = "open"
    /\ caller' = [caller EXCEPT ![t] = "client"]
    /\ span' = [span EXCEPT ![t] = NoSpan]
    /\ Goto(t, "idle")
    /\ UNCHANGED <<backup, tx, seen, nextId, faults>>

CheckpointRefused(t) ==
    /\ pc[t] = "checkpoint"
    /\ writer = NoThread
    /\ recovering
    /\ CheckpointReturn(t, FALSE)
    /\ UNCHANGED <<db, anchor, writer>>

CheckpointEmpty(t) ==
    /\ pc[t] = "checkpoint"
    /\ MayMutate /\ MetadataIntact
    /\ db.events = <<>>
    /\ CheckpointReturn(t, TRUE)
    /\ UNCHANGED <<db, anchor, writer>>

CheckpointLock(t) ==
    /\ pc[t] = "checkpoint"
    /\ MayMutate /\ MetadataIntact
    /\ db.events # <<>>
    /\ writer' = t
    /\ Goto(t, "anchoring")
    /\ UNCHANGED <<db, backup, anchor, phase, reason, caller, tx, span, seen,
                   nextId, acked, faults>>

(* checkpoint_sequence or checkpoint_inner meets a damaged row; neither    *)
(* holds the mutex when it hands the error to quarantine_result.           *)
MetadataDamaged(t) ==
    /\ ~MetadataIntact
    /\ \/ pc[t] = "appended" /\ encrypted /\ Appended(t)
       \/ pc[t] = "checkpoint" /\ MayMutate
    /\ caller' = [caller EXCEPT ![t] = "client"]
    /\ span' = [span EXCEPT ![t] = NoSpan]
    /\ Goto(t, "failed")
    /\ UNCHANGED <<db, backup, anchor, phase, reason, writer, tx, seen, nextId,
                   acked, faults>>

(* The mutex is held since the head was read, so the head is still it. *)
StoreAnchor(t) ==
    /\ pc[t] = "anchoring"
    /\ anchor' = [hash |-> db.events, status |-> "Verified"]
    /\ Goto(t, "committing")
    /\ UNCHANGED <<db, backup, phase, reason, writer, caller, tx, span, seen,
                   nextId, acked, faults>>

CommitCheckpoint(t) ==
    /\ pc[t] = "committing"
    /\ db' = [db EXCEPT !.checkpoint = db.events]
    /\ writer' = NoThread
    /\ CheckpointReturn(t, TRUE)
    /\ UNCHANGED anchor

(* Mutant: an error is handed to quarantine_result with the mutex held. *)
CheckpointFailsHoldingMutex(t) ==
    /\ pc[t] \in {"anchoring", "committing"}
    /\ Goto(t, "failed")
    /\ UNCHANGED <<db, backup, anchor, phase, reason, writer, caller, tx, span,
                   seen, nextId, acked, faults>>

(* The key provider or the storage engine reports an error. *)
CheckpointFails(t) ==
    /\ pc[t] \in {"anchoring", "committing"}
    /\ writer' = NoThread
    /\ CheckpointReturn(t, FALSE)
    /\ UNCHANGED <<db, anchor>>

-----------------------------------------------------------------------------
(* Verification and reads, without the mutex; quarantine_result. *)

VerifyLoadAnchor(t) ==
    /\ phase = "open" /\ pc[t] = "idle"
    /\ seen' = [seen EXCEPT ![t] = anchor]
    /\ Goto(t, "verifying")
    /\ UNCHANGED <<db, backup, anchor, phase, reason, writer, caller, tx, span,
                   nextId, acked, faults>>

VerifySnapshot(t) ==
    /\ pc[t] = "verifying"
    /\ Goto(t, IF VerifyInner(db, seen[t]) THEN "idle" ELSE "failed")
    /\ seen' = [seen EXCEPT ![t] = NoAnchor]
    /\ UNCHANGED <<db, backup, anchor, phase, reason, writer, caller, tx, span,
                   nextId, acked, faults>>

(* A read, or the decryption of a payload, meets a damaged row.  That of a *)
(* projection record only returns an error.                                *)
ReadDamaged(t) ==
    /\ phase = "open" /\ pc[t] = "idle"
    /\ db.damaged \ {-1} # {}
    /\ Goto(t, "failed")
    /\ UNCHANGED <<db, backup, anchor, phase, reason, writer, caller, tx, span,
                   seen, nextId, acked, faults>>

QuarantineFlag(t) ==
    /\ pc[t] = "failed"
    /\ reason' = "verification"
    /\ Goto(t, "quarantining")
    /\ UNCHANGED <<db, backup, anchor, phase, writer, caller, tx, span, seen,
                   nextId, acked, faults>>

(* load_anchor, then store_anchor with its error ignored. *)
Quarantined(a) ==
    {a} \cup IF a.status = "Absent" THEN {}
             ELSE {[a EXCEPT !.status = "Quarantined"]}

(* Mutant: the anchor is quarantined without taking the mutex. *)
QuarantineAnchorUnlocked(t) ==
    /\ pc[t] = "quarantining"
    /\ anchor' \in Quarantined(anchor)
    /\ Goto(t, "idle")
    /\ UNCHANGED <<db, backup, phase, reason, writer, caller, tx, span, seen,
                   nextId, acked, faults>>

QuarantineAnchor(t) ==
    /\ pc[t] = "quarantining"
    /\ writer = NoThread
    /\ anchor' \in Quarantined(anchor)
    /\ Goto(t, "idle")
    /\ UNCHANGED <<db, backup, phase, reason, writer, caller, tx, span, seen,
                   nextId, acked, faults>>

-----------------------------------------------------------------------------
(* ProjectionStore: one transaction under the mutex, in recovery mode too. *)

SetProjection(t, p, n) ==
    /\ phase = "open" /\ pc[t] = "idle"
    /\ writer = NoThread
    /\ db' = [db EXCEPT !.positions = [@ EXCEPT ![p] = n]]
    /\ UNCHANGED <<backup, anchor, phase, reason, writer, pc, caller, tx, span,
                   seen, nextId, acked, faults>>

(* apply: the expected position is the stored one, and the new one beyond  *)
(* it.  A worker goes on to an event it has read from the outbox;          *)
(* record_failure and clear_failure go on by one.                          *)
ApplyProjection(t, p, n) ==
    /\ n > db.positions[p] /\ n <= MaxPosition
    /\ IF p \in Counting THEN n = db.positions[p] + 1 ELSE n <= Len(db.events)
    /\ SetProjection(t, p, n)

ResetProjection(t, p) == SetProjection(t, p, 0)

ProjectionNext(t) ==
    \E p \in Projections :
        ResetProjection(t, p) \/ \E n \in 1..MaxPosition : ApplyProjection(t, p, n)

-----------------------------------------------------------------------------
(* open_database: verify_startup decides how the journal opens. *)

StartupOpen ==
    /\ phase' = "open"
    /\ UNCHANGED <<anchor, reason, writer, pc, caller>>

StartupQuarantine ==
    /\ phase' = "open"
    /\ reason' = "verification"
    /\ anchor' \in Quarantined(anchor)
    /\ UNCHANGED <<writer, pc, caller>>

(* The opening thread goes on to checkpoint() what it has verified. *)
StartupCheckpoint(t) ==
    /\ phase' = "starting"
    /\ writer' = t
    /\ caller' = [caller EXCEPT ![t] = "startup"]
    /\ Goto(t, "anchoring")
    /\ UNCHANGED <<anchor, reason>>

(* Each start of the process is configured to verify in one of two ways.   *)
(* A start that fails before it verifies (an undecodable head or           *)
(* protection marker) leaves the journal down.                             *)
VerifyStartup(t, mode) ==
    /\ phase = "down"
    /\ \/ /\ db.events = <<>>
          /\ IF AnchorAheadOfEmpty(anchor) \/ ~MetadataIntact
             THEN StartupQuarantine ELSE StartupOpen
       \/ /\ db.events # <<>>
          /\ ~encrypted /\ mode = "Incremental"
          /\ IF VerifyPlaintextIncremental(db) THEN StartupOpen
                                               ELSE StartupQuarantine
       \/ /\ db.events # <<>>
          /\ TrustedIncremental(mode, anchor) /\ VerifyIncremental(db, anchor)
          /\ IF Len(db.events) > Len(db.checkpoint) THEN StartupCheckpoint(t)
                                                    ELSE StartupOpen
       \/ /\ db.events # <<>>
          /\ encrypted \/ mode = "Full"
          /\ ~(TrustedIncremental(mode, anchor) /\ VerifyIncremental(db, anchor))
          /\ IF ~VerifyInner(db, anchor) THEN StartupQuarantine
             ELSE IF encrypted THEN StartupCheckpoint(t) ELSE StartupOpen
    /\ UNCHANGED <<db, backup, tx, span, seen, nextId, acked, faults>>

(* The anchor cannot be loaded: the journal opens read-only. *)
StartupFails ==
    /\ phase = "down"
    /\ phase' = "open"
    /\ reason' = "adapter"
    /\ UNCHANGED <<db, backup, anchor, writer, pc, caller, tx, span, seen,
                   nextId, acked, faults>>

-----------------------------------------------------------------------------
(* The environment. *)

Crash ==
    /\ phase # "down"
    /\ phase' = "down"
    /\ reason' = "none"
    /\ writer' = NoThread
    /\ pc' = [t \in Threads |-> "idle"]
    /\ caller' = [t \in Threads |-> "client"]
    /\ tx' = NoTx
    /\ span' = [t \in Threads |-> NoSpan]
    /\ seen' = [t \in Threads |-> NoAnchor]
    /\ UNCHANGED <<db, backup, anchor, nextId, acked, faults>>

(* The rows that may go bad: projection records, METADATA, events.         *)
Rows == {-1} \cup 0..Len(db.events)

(* A row goes bad, but not between the verification of a startup and its   *)
(* checkpoint.                                                             *)
Damage(i) ==
    /\ phase # "starting"
    /\ faults < MaxFaults
    /\ i \notin db.damaged
    /\ db' = [db EXCEPT !.damaged = @ \cup {i}]
    /\ faults' = faults + 1
    /\ UNCHANGED <<backup, anchor, phase, reason, writer, pc, caller, tx, span,
                   seen, nextId, acked>>

(* Copies are taken only as long as one may still be put back.             *)
Backup ==
    /\ phase = "down"
    /\ faults < MaxFaults
    /\ backup' = db
    /\ UNCHANGED <<db, anchor, phase, reason, writer, pc, caller, tx, span,
                   seen, nextId, acked, faults>>

(* Records beyond the anchor are lost with the newer copy, undetectably. *)
Restore ==
    /\ phase = "down"
    /\ faults < MaxFaults
    /\ db' = backup
    /\ faults' = faults + 1
    /\ acked' = {a \in acked : a[1] <= Len(anchor.hash)}
    /\ UNCHANGED <<backup, anchor, phase, reason, writer, pc, caller, tx, span,
                   seen, nextId>>

-----------------------------------------------------------------------------
Init ==
    /\ encrypted \in Protections
    /\ db = NewDatabase
    /\ backup = NewDatabase
    /\ anchor = NoAnchor
    /\ phase = "down"
    /\ reason = "none"
    /\ writer = NoThread
    /\ pc = [t \in Threads |-> "idle"]
    /\ caller = [t \in Threads |-> "client"]
    /\ tx = NoTx
    /\ span = [t \in Threads |-> NoSpan]
    /\ seen = [t \in Threads |-> NoAnchor]
    /\ nextId = 0
    /\ acked = {}
    /\ faults = 0
    /\ overtaken = FALSE

(* The steps of thread t once it holds or waits for something. *)
Proceed(t) ==
    \/ AppendCommit(t) \/ AppendAbort(t)
    \/ AppendReturn(t) \/ AppendCheckpoint(t)
    \/ MetadataDamaged(t)
    \/ CheckpointRefused(t) \/ CheckpointEmpty(t) \/ CheckpointLock(t)
    \/ StoreAnchor(t) \/ CommitCheckpoint(t) \/ CheckpointFails(t)
    \/ VerifySnapshot(t) \/ QuarantineFlag(t) \/ QuarantineAnchor(t)

ThreadNext(t) ==
    \/ Proceed(t)
    \/ AppendLock(t) \/ AppendDamaged(t) \/ CheckpointCall(t)
    \/ \E s \in Streams : \E e \in 0..MaxEvents : AppendEvent(t, s, e)
    \/ VerifyLoadAnchor(t) \/ ReadDamaged(t)
    \/ ProjectionNext(t)
    \/ \E mode \in StartupModes : VerifyStartup(t, mode)

Environment ==
    \/ StartupFails \/ Crash \/ Backup \/ Restore
    \/ \E i \in Rows : Damage(i)

(* No retry projection has counted further than there are events.          *)
RetriesWithin(d) == \A p \in Counting : d.positions[p] <= Len(d.events)

(* What accompanies every step: the protection stays, positions are watched. *)
Watch == /\ UNCHANGED encrypted
         /\ overtaken' = (overtaken \/ ~RetriesWithin(db'))

Next == /\ (\E t \in Threads : ThreadNext(t)) \/ Environment
        /\ Watch

Spec == Init /\ [][Next]_vars

(* A thread inside a call keeps running; nobody is obliged to call, and    *)
(* nothing in the environment is obliged to happen.                        *)
FairSpec ==
    Spec /\ \A t \in Threads : WF_vars(Proceed(t) /\ Watch)

-----------------------------------------------------------------------------
(* Properties. *)

(* Every variable keeps its type; in particular no append is ever taken to *)
(* have shortened the log, and only records of the log are returned.       *)
TypeOK ==
    /\ encrypted \in BOOLEAN
    /\ db \in Database
    /\ backup \in Database
    /\ anchor \in SecureAnchor
    /\ phase \in {"down", "starting", "open"}
    /\ reason \in {"none", "verification", "adapter"}
    /\ writer \in Threads \cup {NoThread}
    /\ pc \in [Threads -> Pcs]
    /\ caller \in [Threads -> {"client", "append", "startup"}]
    /\ tx \in [events: Seq(Record), versions: [Streams -> Nat]]
    /\ span \in [Threads -> [from: Nat, to: Nat]]
    /\ seen \in [Threads -> SecureAnchor]
    /\ nextId \in Nat
    /\ acked \subseteq Nat \X Record
    /\ faults \in Nat
    /\ overtaken \in BOOLEAN

(* Optimistic concurrency works: replaying the log gives every stream the  *)
(* versions 1, 2, 3, ... without gap or repeat, and the version table that *)
(* append_locked compares expected versions with is what replay gives.     *)
StreamsGapless ==
    /\ WellVersioned(db.events)
    /\ \A s \in Streams :
         db.versions[s] = CountIn(db.events, s, Len(db.events))

(* Neither a crash at any point nor a checkpoint or an append beside       *)
(* verify, nor a projection that follows the outbox, makes an undamaged    *)
(* journal fail verification and lose its writability: the anchor is       *)
(* loaded before the snapshot, and stored before the checkpoint it goes    *)
(* with.  The exception is a retry projection that has counted more        *)
(* failures than the journal has events, which verification takes for      *)
(* damage.                                                                 *)
NoFalseAlarm ==
    faults = 0 /\ ~overtaken =>
        /\ reason # "verification"
        /\ \A t \in Threads : pc[t] \notin {"failed", "quarantining"}

(* What one would expect of verify_inner, and what retry projections that  *)
(* count failures in a short journal refute.                               *)
UndamagedIsTrusted == faults = 0 => reason # "verification"

(* A journal that accepts writes still has the history its secure anchor   *)
(* vouches for: a database put back to before the anchor never opens       *)
(* writable, whichever way startup verifies.                               *)
WritableIsAnchored ==
    phase = "open" /\ reason = "none" => Prefix(anchor.hash, db.events)

(* A record whose append returned Ok is in a writable journal under its    *)
(* sequence for ever after, across crashes and restarts.  An operator who  *)
(* puts an older copy back can take only records behind the anchor's back. *)
AcknowledgedSurvive ==
    phase = "open" /\ reason = "none" =>
        \A a \in acked : a[1] <= Len(db.events) /\ db.events[a[1]] = a[2]

(* The anchored history is never shortened or rewritten: not by startup    *)
(* repair, not by quarantine, not by checkpoints after a restore.          *)
AnchoredHistoryGrows == [][Prefix(anchor.hash, anchor'.hash)]_vars

(* A quarantined anchor becomes trusted again only when the whole database *)
(* has verified: a checkpoint that was already running when damage was     *)
(* found cannot overwrite the quarantine.                                  *)
QuarantineLiftedOnlyWhenIntact ==
    [][anchor.status = "Quarantined" /\ anchor'.status = "Verified"
         => VerifyInner(db, anchor)]_vars

(* Whoever takes the writer mutex gives it back: no path through append,   *)
(* checkpoint or quarantine waits for the mutex it holds.                  *)
WriterReleased ==
    \A t \in Threads : writer = t ~> writer = NoThread

(* A thread that has found damage does get to quarantine the journal, or   *)
(* the process goes down first: checkpoints and appends of the others do   *)
(* not keep it from the mutex, since recovery mode turns them away.        *)
QuarantineCompletes ==
    \A t \in Threads : pc[t] = "failed" ~> pc[t] = "idle"

Log == INSTANCE EventLog WITH
           log <- db.events, anchored <- anchor.hash,
           accepting <- phase = "open" /\ (reason = "none" \/ writer # NoThread)

(* The journal keeps the promise of its port. *)
ImplementsEventLog == Log!Spec
=============================================================================
