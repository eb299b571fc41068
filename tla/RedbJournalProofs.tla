-------------------------- MODULE RedbJournalProofs --------------------------
(***************************************************************************)
(* Theorems about RedbJournal, for any number of threads, streams, records *)
(* and faults, any checkpoint interval and every verification mode.        *)
(*                                                                         *)
(* None of the properties is inductive alone: that the journal stays       *)
(* anchored needs the mutex to keep the head still while a transaction or  *)
(* a checkpoint is open, and that nothing is open while the process is     *)
(* down.  The invariant Inductive says so.                                 *)
(***************************************************************************)
EXTENDS RedbJournal, FiniteSetTheorems, SequenceTheorems, TLAPS

(* Whoever has a transaction or a checkpoint open holds the writer mutex;  *)
(* a write transaction extends what is committed; checkpoints are taken    *)
(* only by a journal that has keys.                                        *)
MutexProtects ==
    \A t \in Threads :
        /\ pc[t] \in {"appending", "anchoring", "committing"} => writer = t
        /\ pc[t] = "appending" => /\ phase = "open"
                                  /\ Prefix(db.events, tx.events)
        /\ pc[t] \in {"checkpoint", "anchoring", "committing"} => encrypted
        /\ span[t].to <= Len(db.events)

(* Nothing of the process outlives a crash, and startup works under the    *)
(* mutex from the moment it decides to checkpoint.                         *)
NothingWhileDown ==
    /\ phase = "down" => /\ writer = NoThread
                         /\ \A t \in Threads : pc[t] = "idle" /\ span[t] = NoSpan
    /\ phase = "starting" => writer # NoThread

(* The mutex is never held over a history that lost its anchor.            *)
HeldIsAnchored ==
    /\ writer # NoThread => Prefix(anchor.hash, db.events)
    /\ ~encrypted => anchor.hash = <<>>

Inductive ==
    /\ TypeOK
    /\ MutexProtects
    /\ NothingWhileDown
    /\ HeldIsAnchored
    /\ WritableIsAnchored

-----------------------------------------------------------------------------
(* Prefixes. *)

(* A history is a beginning of itself. *)
LEMMA PrefixReflexive ==
  ASSUME NEW S, NEW l \in Seq(S)
  PROVE  Prefix(l, l)
BY DEF Prefix

(* Beginnings compose: what an anchor vouches for is kept by an append. *)
LEMMA PrefixTransitive ==
  ASSUME NEW S, NEW k \in Seq(S), NEW l \in Seq(S), NEW m \in Seq(S),
         Prefix(k, l), Prefix(l, m)
  PROVE  Prefix(k, m)
BY DEF Prefix

(* Appending a record keeps every beginning. *)
LEMMA PrefixAppend ==
  ASSUME NEW S, NEW k \in Seq(S), NEW l \in Seq(S), NEW r \in S, Prefix(k, l)
  PROVE  Prefix(k, Append(l, r))
BY DEF Prefix

(* The empty history, which an absent anchor vouches for, begins any other. *)
LEMMA PrefixEmpty ==
  ASSUME NEW S, NEW l \in Seq(S)
  PROVE  Prefix(<<>>, l)
BY DEF Prefix

-----------------------------------------------------------------------------
(* Type correctness. *)

LEMMA TypeInit == Init => TypeOK
<1>1. NewDatabase \in Database
  BY DEF NewDatabase, Database
<1>2. Init => encrypted \in BOOLEAN /\ overtaken \in BOOLEAN
  BY ModeAssumption DEF Init
<1>3. NoAnchor \in SecureAnchor
  BY DEF NoAnchor, SecureAnchor
<1> QED BY <1>1, <1>2, <1>3 DEF Init, TypeOK, NoTx, NoSpan, Pcs

(* While a thread appends, its transaction is at least as long as the log. *)
LEMMA AppendingExtends ==
  ASSUME TypeOK, MutexProtects, NEW t \in Threads, pc[t] = "appending"
  PROVE  Len(tx.events) - Len(db.events) \in Nat
<1>1. Len(tx.events) \in Nat /\ Len(db.events) \in Nat
  BY DEF TypeOK, Database
<1>2. Len(db.events) <= Len(tx.events)
  BY DEF MutexProtects, Prefix
<1> QED BY <1>1, <1>2

(* The record append_locked builds is one. *)
LEMMA NewRecordType ==
  ASSUME TypeOK, MutexProtects, NEW t \in Threads, pc[t] = "appending",
         NEW s \in Streams, NEW e \in 0..MaxEvents
  PROVE  [stream_id |-> s, stream_version |-> NextVersion(e),
          event_id |-> nextId + (Len(tx.events) - Len(db.events))] \in Record
<1> DEFINE n == nextId + (Len(tx.events) - Len(db.events))
<1>1. nextId \in Nat
  BY DEF TypeOK
<1>2. n \in Nat
  BY <1>1, AppendingExtends
<1>3. NextVersion(e) \in Nat \ {0}
  BY BoundsAssumption DEF NextVersion
<1> HIDE DEF n
<1>4. [stream_id |-> s, stream_version |-> NextVersion(e), event_id |-> n]
        \in Record
  BY <1>2, <1>3 DEF Record
<1> QED BY <1>4 DEF n

(* What an append has committed are records of the log. *)
LEMMA PersistedType ==
  ASSUME TypeOK, MutexProtects, NEW t \in Threads
  PROVE  Persisted(t) \subseteq Nat \X Record
<1>1. span[t].from \in Nat /\ span[t].to \in Nat /\ Len(db.events) \in Nat
  BY DEF TypeOK, Database
<1>2. span[t].to <= Len(db.events)
  BY DEF MutexProtects
<1>3. \A i \in 1..Len(db.events) : db.events[i] \in Record
  BY DEF TypeOK, Database
<1>4. ASSUME NEW i \in (span[t].from + 1)..span[t].to
      PROVE  <<i, db.events[i]>> \in Nat \X Record
  <2>1. i \in 1..Len(db.events)
    BY <1>1, <1>2
  <2> QED BY <1>3, <2>1
<1> QED BY <1>4 DEF Persisted

(* The steps of append_batch keep the types. *)
LEMMA TypeAppend ==
  ASSUME TypeOK, MutexProtects, UNCHANGED encrypted, overtaken' \in BOOLEAN,
         NEW t \in Threads,
         AppendLock(t) \/ AppendAbort(t) \/ AppendCommit(t) \/ AppendReturn(t)
           \/ AppendCheckpoint(t)
           \/ \E s \in Streams : \E e \in 0..MaxEvents : AppendEvent(t, s, e)
  PROVE  TypeOK'
<1>1. CASE AppendLock(t)
  BY <1>1 DEF TypeOK, AppendLock, Goto, Pcs, Database
<1>2. CASE AppendAbort(t)
  BY <1>2 DEF TypeOK, AppendAbort, Goto, Pcs, NoTx
<1>3. CASE AppendCommit(t)
  <2>1. Len(tx.events) - Len(db.events) \in Nat
    BY <1>3, AppendingExtends DEF AppendCommit
  <2>2. nextId' \in Nat
    BY <1>3, <2>1 DEF AppendCommit, TypeOK
  <2>3. db' \in Database
    BY <1>3 DEF AppendCommit, TypeOK, Database
  <2>4. span' \in [Threads -> [from: Nat, to: Nat]]
    <3>1. Len(tx.events) \in Nat /\ Len(db.events) \in Nat
      BY DEF TypeOK, Database
    <3> QED BY <1>3, <3>1 DEF AppendCommit, TypeOK
  <2> QED BY <1>3, <2>2, <2>3, <2>4 DEF TypeOK, AppendCommit, Goto, Pcs, NoTx
<1>4. CASE AppendReturn(t)
  <2>1. acked' \subseteq Nat \X Record
    BY <1>4, PersistedType DEF AppendReturn, TypeOK
  <2> QED BY <1>4, <2>1 DEF TypeOK, AppendReturn, Goto, Pcs, NoSpan
<1>5. CASE AppendCheckpoint(t)
  BY <1>5 DEF TypeOK, AppendCheckpoint, Goto, Pcs
<1>6. ASSUME NEW s \in Streams, NEW e \in 0..MaxEvents, AppendEvent(t, s, e)
      PROVE  TypeOK'
  <2> DEFINE r == [stream_id |-> s, stream_version |-> NextVersion(e),
                   event_id |-> nextId + (Len(tx.events) - Len(db.events))]
  <2>1. pc[t] = "appending"
    BY <1>6 DEF AppendEvent
  <2>2. r \in Record
    BY <2>1, NewRecordType
  <2>3. tx' = [events |-> Append(tx.events, r),
               versions |-> [tx.versions EXCEPT ![s] = NextVersion(e)]]
    BY <1>6 DEF AppendEvent
  <2>4. NextVersion(e) \in Nat
    BY BoundsAssumption DEF NextVersion
  <2> HIDE DEF r
  <2>5. tx' \in [events: Seq(Record), versions: [Streams -> Nat]]
    BY <2>2, <2>3, <2>4 DEF TypeOK
  <2> QED BY <1>6, <2>5 DEF TypeOK, AppendEvent
<1> QED BY <1>1, <1>2, <1>3, <1>4, <1>5, <1>6

(* The steps of checkpoint keep the types. *)
LEMMA TypeCheckpoint ==
  ASSUME TypeOK, MutexProtects, UNCHANGED encrypted, overtaken' \in BOOLEAN,
         NEW t \in Threads,
         CheckpointCall(t) \/ CheckpointRefused(t) \/ CheckpointEmpty(t)
           \/ CheckpointLock(t) \/ StoreAnchor(t) \/ CommitCheckpoint(t)
           \/ CheckpointFails(t)
  PROVE  TypeOK'
<1>1. ASSUME NEW ok \in BOOLEAN, CheckpointReturn(t, ok), db' \in Database,
             anchor' = anchor, writer' \in Threads \cup {NoThread}
      PROVE  TypeOK'
  <2>1. acked' \subseteq Nat \X Record
    BY <1>1, PersistedType DEF CheckpointReturn, TypeOK
  <2> QED BY <1>1, <2>1 DEF TypeOK, CheckpointReturn, Goto, Pcs, NoSpan
<1>2. CASE CheckpointCall(t)
  BY <1>2 DEF TypeOK, CheckpointCall, Goto, Pcs
<1>3. CASE CheckpointRefused(t)
  BY <1>1, <1>3 DEF CheckpointRefused, TypeOK
<1>4. CASE CheckpointEmpty(t)
  BY <1>1, <1>4 DEF CheckpointEmpty, TypeOK
<1>5. CASE CheckpointLock(t)
  BY <1>5 DEF TypeOK, CheckpointLock, Goto, Pcs
<1>6. CASE StoreAnchor(t)
  BY <1>6 DEF TypeOK, StoreAnchor, Goto, Pcs, SecureAnchor, Database
<1>7. CASE CommitCheckpoint(t)
  <2>1. db' \in Database
    BY <1>7 DEF CommitCheckpoint, TypeOK, Database
  <2> QED BY <1>1, <1>7, <2>1 DEF CommitCheckpoint
<1>8. CASE CheckpointFails(t)
  BY <1>1, <1>8 DEF CheckpointFails, TypeOK
<1> QED BY <1>2, <1>3, <1>4, <1>5, <1>6, <1>7, <1>8

(* Quarantining an anchor changes its status at most. *)
LEMMA QuarantinedKeepsHash ==
  ASSUME NEW a \in SecureAnchor, NEW b \in Quarantined(a)
  PROVE  b \in SecureAnchor /\ b.hash = a.hash
BY DEF Quarantined, SecureAnchor

(* The steps of verification and of quarantine keep the types. *)
LEMMA TypeVerify ==
  ASSUME TypeOK, UNCHANGED encrypted, overtaken' \in BOOLEAN,
         NEW t \in Threads,
         VerifyLoadAnchor(t) \/ VerifySnapshot(t) \/ ReadDamaged(t)
           \/ AppendDamaged(t) \/ MetadataDamaged(t)
           \/ QuarantineFlag(t) \/ QuarantineAnchor(t)
  PROVE  TypeOK'
<1>1. CASE VerifyLoadAnchor(t)
  BY <1>1 DEF TypeOK, VerifyLoadAnchor, Goto, Pcs
<1>2. CASE VerifySnapshot(t)
  <2>1. NoAnchor \in SecureAnchor
    BY DEF NoAnchor, SecureAnchor
  <2> QED BY <1>2, <2>1 DEF TypeOK, VerifySnapshot, Goto, Pcs
<1>3. CASE ReadDamaged(t)
  BY <1>3 DEF TypeOK, ReadDamaged, Goto, Pcs
<1>4. CASE QuarantineFlag(t)
  BY <1>4 DEF TypeOK, QuarantineFlag, Goto, Pcs
<1>5. CASE QuarantineAnchor(t)
  BY <1>5, QuarantinedKeepsHash DEF TypeOK, QuarantineAnchor, Goto, Pcs
<1>6. CASE AppendDamaged(t)
  BY <1>6 DEF TypeOK, AppendDamaged, Goto, Pcs
<1>7. CASE MetadataDamaged(t)
  BY <1>7 DEF TypeOK, MetadataDamaged, Goto, Pcs, NoSpan
<1> QED BY <1>1, <1>2, <1>3, <1>4, <1>5, <1>6, <1>7

(* Startup keeps the types. *)
LEMMA TypeStartup ==
  ASSUME TypeOK, UNCHANGED encrypted, overtaken' \in BOOLEAN,
         NEW t \in Threads, NEW mode \in StartupModes, VerifyStartup(t, mode)
  PROVE  TypeOK'
<1>1. StartupOpen \/ StartupQuarantine \/ StartupCheckpoint(t)
  BY DEF VerifyStartup
<1>2. UNCHANGED <<db, backup, tx, span, seen, nextId, acked, faults>>
  BY DEF VerifyStartup
<1>3. CASE StartupOpen
  BY <1>2, <1>3 DEF TypeOK, StartupOpen
<1>4. CASE StartupQuarantine
  BY <1>2, <1>4, QuarantinedKeepsHash DEF TypeOK, StartupQuarantine
<1>5. CASE StartupCheckpoint(t)
  BY <1>2, <1>5 DEF TypeOK, StartupCheckpoint, Goto, Pcs
<1> QED BY <1>1, <1>3, <1>4, <1>5

(* Crashes, faults and the operator keep the types. *)
LEMMA TypeEnvironment ==
  ASSUME TypeOK, UNCHANGED encrypted, overtaken' \in BOOLEAN, Environment
  PROVE  TypeOK'
<1>1. CASE StartupFails
  BY <1>1 DEF TypeOK, StartupFails
<1>2. CASE Crash
  BY <1>2 DEF TypeOK, Crash, NoTx, NoSpan, NoAnchor, SecureAnchor, Pcs
<1>3. CASE Backup
  BY <1>3 DEF TypeOK, Backup
<1>4. CASE Restore
  BY <1>4 DEF TypeOK, Restore
<1>5. ASSUME NEW i \in Rows, Damage(i)
      PROVE  TypeOK'
  <2>1. i \in Int
    BY DEF TypeOK, Database, Rows
  <2>2. db.damaged \cup {i} \in SUBSET Int
    BY <2>1 DEF TypeOK, Database
  <2>3. db' \in Database
    BY <1>5, <2>2 DEF Damage, TypeOK, Database
  <2> QED BY <1>5, <2>3 DEF TypeOK, Damage
<1> QED BY <1>1, <1>2, <1>3, <1>4, <1>5 DEF Environment

(* apply and reset change the position of a projection and nothing else,   *)
(* in a journal whose writer mutex is free.                                *)
LEMMA ProjectionKeeps ==
  ASSUME TypeOK, NEW t \in Threads, ProjectionNext(t)
  PROVE  /\ db' \in Database
         /\ db'.events = db.events /\ db'.versions = db.versions
         /\ db'.checkpoint = db.checkpoint /\ db'.damaged = db.damaged
         /\ phase = "open" /\ writer = NoThread
         /\ UNCHANGED <<backup, anchor, phase, reason, writer, pc, caller, tx,
                        span, seen, nextId, acked, faults>>
<1>1. PICK p \in Projections, n \in Nat : SetProjection(t, p, n)
  BY BoundsAssumption DEF ProjectionNext, ResetProjection, ApplyProjection
<1>2. db' = [db EXCEPT !.positions = [@ EXCEPT ![p] = n]]
  BY <1>1 DEF SetProjection
<1>3. db'.positions = [db.positions EXCEPT ![p] = n]
  BY <1>2 DEF TypeOK, Database
<1>4. db'.positions \in [Projections -> Nat]
  BY <1>3 DEF TypeOK, Database
<1>5. /\ db' \in Database
      /\ db'.events = db.events /\ db'.versions = db.versions
      /\ db'.checkpoint = db.checkpoint /\ db'.damaged = db.damaged
  BY <1>2, <1>4 DEF TypeOK, Database
<1> QED BY <1>1, <1>5 DEF SetProjection

LEMMA TypeStep ==
  ASSUME TypeOK, MutexProtects, [Next]_vars
  PROVE  TypeOK'
<1>0. UNCHANGED encrypted /\ overtaken' \in BOOLEAN
  BY DEF Next, Watch, vars, TypeOK
<1>1. ASSUME NEW t \in Threads, ThreadNext(t)
      PROVE  TypeOK'
  <2>1. CASE ProjectionNext(t)
    BY <1>0, <2>1, ProjectionKeeps DEF TypeOK
  <2> QED BY <1>0, <1>1, <2>1, TypeAppend, TypeCheckpoint, TypeVerify, TypeStartup
             DEF ThreadNext, Proceed
<1>2. CASE Environment
  BY <1>0, <1>2, TypeEnvironment
<1>3. CASE UNCHANGED vars
  BY <1>3 DEF TypeOK, vars
<1> QED BY <1>1, <1>2, <1>3 DEF Next

-----------------------------------------------------------------------------
(* The mutex, the anchor and the life of the process. *)

LEMMA InductiveInit == Init => Inductive
<1> SUFFICES ASSUME Init PROVE Inductive
  OBVIOUS
<1>1. TypeOK
  BY TypeInit
<1>2. MutexProtects /\ NothingWhileDown
  BY DEF Init, MutexProtects, NothingWhileDown, NoSpan, NewDatabase
<1>3. HeldIsAnchored /\ WritableIsAnchored
  BY DEF Init, HeldIsAnchored, WritableIsAnchored, NoAnchor
<1> QED BY <1>1, <1>2, <1>3 DEF Inductive

(* The parts of Inductive beside the types. *)
Protected ==
    MutexProtects /\ NothingWhileDown /\ HeldIsAnchored /\ WritableIsAnchored

(* The steps of append_batch run under the mutex from lock to commit. *)
LEMMA ProtectedAppend ==
  ASSUME Inductive, UNCHANGED encrypted, NEW t \in Threads,
         AppendLock(t) \/ AppendAbort(t) \/ AppendCommit(t) \/ AppendReturn(t)
           \/ AppendCheckpoint(t)
           \/ \E s \in Streams : \E e \in 0..MaxEvents : AppendEvent(t, s, e)
  PROVE  Protected'
<1> USE ThreadsAssumption DEF Protected, Inductive
<1>a. /\ db.events \in Seq(Record) /\ anchor.hash \in Seq(Record)
      /\ pc \in [Threads -> Pcs] /\ span \in [Threads -> [from: Nat, to: Nat]]
  BY DEF TypeOK, Database, SecureAnchor
<1>b. tx.events \in Seq(Record)
  BY DEF TypeOK
<1>0. /\ db.events \in Seq(Record) /\ tx.events \in Seq(Record)
      /\ anchor.hash \in Seq(Record)
      /\ pc \in [Threads -> Pcs] /\ span \in [Threads -> [from: Nat, to: Nat]]
      /\ Len(db.events) \in Nat /\ Len(tx.events) \in Nat
  BY <1>a, <1>b
<1>1. CASE AppendLock(t)
  <2>1. Prefix(anchor.hash, db.events)
    BY <1>1 DEF AppendLock, MayMutate, recovering, WritableIsAnchored
  <2>2. Prefix(db.events, db.events)
    BY <1>0, PrefixReflexive
  <2>3. MutexProtects'
    BY <1>0, <1>1, <2>2 DEF MutexProtects, AppendLock, MayMutate, Goto
  <2> QED
    BY <1>0, <1>1, <2>1, <2>3
       DEF AppendLock, Goto, NothingWhileDown, HeldIsAnchored, WritableIsAnchored
<1>2. CASE AppendAbort(t)
  <2>1. phase = "open"
    BY <1>2 DEF AppendAbort, MutexProtects
  <2>2. MutexProtects'
    BY <1>0, <1>2 DEF MutexProtects, AppendAbort, Goto
  <2>3. NothingWhileDown'
    BY <1>2, <2>1 DEF NothingWhileDown, AppendAbort
  <2>4. HeldIsAnchored' /\ WritableIsAnchored'
    BY <1>2 DEF AppendAbort, HeldIsAnchored, WritableIsAnchored
  <2> QED BY <2>2, <2>3, <2>4
<1>3. CASE AppendCommit(t)
  <2>1. writer = t /\ phase = "open" /\ Prefix(db.events, tx.events)
    BY <1>3 DEF AppendCommit, MutexProtects
  <2>2. Prefix(anchor.hash, tx.events)
    BY <1>0, <2>1, PrefixTransitive DEF HeldIsAnchored
  <2>3. Len(db.events) <= Len(tx.events)
    BY <2>1 DEF Prefix
  <2>4. db'.events = tx.events
    BY <1>3 DEF AppendCommit, TypeOK, Database
  <2>5. MutexProtects'
    <3> SUFFICES ASSUME NEW u \in Threads
                 PROVE  /\ pc'[u] \in {"appending", "anchoring", "committing"}
                             => writer' = u
                        /\ pc'[u] = "appending" => /\ phase' = "open"
                                                   /\ Prefix(db'.events, tx'.events)
                        /\ pc'[u] \in {"checkpoint", "anchoring", "committing"}
                             => encrypted'
                        /\ span'[u].to <= Len(db'.events)
      BY DEF MutexProtects
    <3>1. CASE u = t
      BY <1>0, <1>3, <2>4, <3>1 DEF AppendCommit, Goto
    <3>2. CASE u # t
      <4>1. pc'[u] = pc[u] /\ span'[u] = span[u]
        BY <1>0, <1>3, <3>2 DEF AppendCommit, Goto
      <4>2. pc[u] \notin {"appending", "anchoring", "committing"}
        BY <2>1, <3>2 DEF MutexProtects
      <4>3. span[u].to <= Len(tx.events)
        BY <1>0, <2>3 DEF MutexProtects
      <4> QED BY <2>4, <4>1, <4>2, <4>3 DEF MutexProtects
    <3> QED BY <3>1, <3>2
  <2>6. NothingWhileDown'
    BY <1>3, <2>1 DEF NothingWhileDown, AppendCommit
  <2> QED
    BY <1>3, <2>2, <2>4, <2>5, <2>6
       DEF AppendCommit, HeldIsAnchored, WritableIsAnchored
<1>4. CASE AppendReturn(t)
  <2>1. MutexProtects'
    BY <1>0, <1>4 DEF MutexProtects, AppendReturn, Goto, NoSpan
  <2> QED
    BY <1>0, <1>4, <2>1
       DEF AppendReturn, Goto, NothingWhileDown, HeldIsAnchored, WritableIsAnchored
<1>5. CASE AppendCheckpoint(t)
  <2>1. MutexProtects'
    BY <1>0, <1>5 DEF MutexProtects, AppendCheckpoint, Goto
  <2> QED
    BY <1>0, <1>5, <2>1
       DEF AppendCheckpoint, Goto, NothingWhileDown, HeldIsAnchored,
           WritableIsAnchored
<1>6. ASSUME NEW s \in Streams, NEW e \in 0..MaxEvents, AppendEvent(t, s, e)
      PROVE  Protected'
  <2> DEFINE r == [stream_id |-> s, stream_version |-> NextVersion(e),
                   event_id |-> nextId + (Len(tx.events) - Len(db.events))]
  <2>1. pc[t] = "appending"
    BY <1>6 DEF AppendEvent
  <2>2. r \in Record
    BY <2>1, NewRecordType
  <2>3. Prefix(db.events, Append(tx.events, r))
    BY <1>0, <1>6, <2>2, PrefixAppend DEF AppendEvent, MutexProtects
  <2>4. tx'.events = Append(tx.events, r)
    BY <1>6 DEF AppendEvent
  <2>5. MutexProtects'
    BY <1>6, <2>3, <2>4 DEF MutexProtects, AppendEvent
  <2> QED
    BY <1>6, <2>5
       DEF AppendEvent, NothingWhileDown, HeldIsAnchored, WritableIsAnchored
<1> QED BY <1>1, <1>2, <1>3, <1>4, <1>5, <1>6

(* checkpoint holds the mutex from the head it reads to the checkpoint it  *)
(* commits, so the anchor it stores vouches for the log as it is.          *)
LEMMA ProtectedCheckpoint ==
  ASSUME Inductive, UNCHANGED encrypted, NEW t \in Threads,
         CheckpointCall(t) \/ CheckpointRefused(t) \/ CheckpointEmpty(t)
           \/ CheckpointLock(t) \/ StoreAnchor(t) \/ CommitCheckpoint(t)
           \/ CheckpointFails(t)
  PROVE  Protected'
<1> USE ThreadsAssumption DEF Protected, Inductive
<1>0. /\ db.events \in Seq(Record) /\ anchor.hash \in Seq(Record)
      /\ pc \in [Threads -> Pcs] /\ span \in [Threads -> [from: Nat, to: Nat]]
      /\ Len(db.events) \in Nat
  BY DEF TypeOK, Database, SecureAnchor
<1>1. ASSUME NEW ok \in BOOLEAN, CheckpointReturn(t, ok),
             db'.events = db.events, anchor' = anchor, writer' = NoThread,
             writer = NoThread => phase = "open",
             writer \in {NoThread, t}
      PROVE  Protected'
  <2>1. MutexProtects'
    <3> SUFFICES ASSUME NEW u \in Threads
                 PROVE  /\ pc'[u] \in {"appending", "anchoring", "committing"}
                             => writer' = u
                        /\ pc'[u] = "appending" => /\ phase' = "open"
                                                   /\ Prefix(db'.events, tx'.events)
                        /\ pc'[u] \in {"checkpoint", "anchoring", "committing"}
                             => encrypted'
                        /\ span'[u].to <= Len(db'.events)
      BY DEF MutexProtects
    <3>1. CASE u = t
      BY <1>0, <1>1, <3>1 DEF CheckpointReturn, Goto, NoSpan
    <3>2. CASE u # t
      <4>1. pc'[u] = pc[u] /\ span'[u] = span[u]
        BY <1>0, <1>1, <3>2 DEF CheckpointReturn, Goto
      <4>2. pc[u] \notin {"appending", "anchoring", "committing"}
        BY <1>1, <3>2 DEF MutexProtects
      <4> QED BY <1>1, <4>1, <4>2 DEF MutexProtects
    <3> QED BY <3>1, <3>2
  <2>2. NothingWhileDown'
    BY <1>1 DEF NothingWhileDown, CheckpointReturn
  <2>3. HeldIsAnchored'
    BY <1>1 DEF HeldIsAnchored
  <2>4. WritableIsAnchored'
    <3>1. CASE writer = NoThread
      BY <1>1, <3>1 DEF WritableIsAnchored, CheckpointReturn, TypeOK
    <3>2. CASE writer # NoThread
      BY <1>1, <3>2 DEF WritableIsAnchored, HeldIsAnchored
    <3> QED BY <3>1, <3>2
  <2> QED BY <2>1, <2>2, <2>3, <2>4
<1>2. pc[t] # "idle" /\ writer = NoThread => phase = "open"
  BY DEF NothingWhileDown, TypeOK
<1>3. CASE CheckpointCall(t)
  <2>1. MutexProtects'
    BY <1>0, <1>3 DEF MutexProtects, CheckpointCall, Goto
  <2> QED
    BY <1>0, <1>3, <2>1
       DEF CheckpointCall, Goto, NothingWhileDown, HeldIsAnchored,
           WritableIsAnchored
<1>4. CASE CheckpointRefused(t)
  BY <1>1, <1>2, <1>4 DEF CheckpointRefused
<1>5. CASE CheckpointEmpty(t)
  BY <1>1, <1>2, <1>5 DEF CheckpointEmpty, MayMutate
<1>6. CASE CheckpointLock(t)
  <2>1. Prefix(anchor.hash, db.events) /\ phase = "open"
    BY <1>2, <1>6 DEF CheckpointLock, MayMutate, recovering, WritableIsAnchored
  <2>2. MutexProtects'
    BY <1>0, <1>6 DEF MutexProtects, CheckpointLock, MayMutate, Goto
  <2> QED
    BY <1>0, <1>6, <2>1, <2>2
       DEF CheckpointLock, NothingWhileDown, HeldIsAnchored, WritableIsAnchored
<1>7. CASE StoreAnchor(t)
  <2>1. anchor'.hash = db.events /\ Prefix(db.events, db.events)
    BY <1>0, <1>7, PrefixReflexive DEF StoreAnchor
  <2>2. encrypted /\ writer = t /\ phase # "down"
    BY <1>7 DEF StoreAnchor, MutexProtects, NothingWhileDown
  <2>3. MutexProtects'
    BY <1>0, <1>7 DEF MutexProtects, StoreAnchor, Goto
  <2> QED
    BY <1>7, <2>1, <2>2, <2>3
       DEF StoreAnchor, NothingWhileDown, HeldIsAnchored, WritableIsAnchored
<1>8. CASE CommitCheckpoint(t)
  <2>1. db'.events = db.events
    BY <1>8 DEF CommitCheckpoint, TypeOK, Database
  <2>2. writer = t
    BY <1>8 DEF CommitCheckpoint, MutexProtects
  <2> QED BY <1>1, <1>8, <2>1, <2>2 DEF CommitCheckpoint
<1>9. CASE CheckpointFails(t)
  <2>1. writer = t
    BY <1>9 DEF CheckpointFails, MutexProtects
  <2> QED BY <1>1, <1>9, <2>1 DEF CheckpointFails
<1> QED BY <1>3, <1>4, <1>5, <1>6, <1>7, <1>8, <1>9

(* Verification and quarantine leave the log, the anchored history and the *)
(* mutex alone, and never turn recovery mode off.                          *)
LEMMA ProtectedVerify ==
  ASSUME Inductive, UNCHANGED encrypted, NEW t \in Threads,
         VerifyLoadAnchor(t) \/ VerifySnapshot(t) \/ ReadDamaged(t)
           \/ AppendDamaged(t) \/ MetadataDamaged(t)
           \/ QuarantineFlag(t) \/ QuarantineAnchor(t)
  PROVE  Protected'
<1> USE DEF Protected, Inductive
<1>1. /\ UNCHANGED <<db, phase, writer, tx>>
      /\ \E l \in {"idle", "verifying", "failed", "quarantining"} : Goto(t, l)
      /\ span' \in {span, [span EXCEPT ![t] = NoSpan]}
  BY DEF VerifyLoadAnchor, VerifySnapshot, ReadDamaged, AppendDamaged,
         MetadataDamaged, QuarantineFlag, QuarantineAnchor
<1>2. anchor'.hash = anchor.hash
  BY QuarantinedKeepsHash
     DEF TypeOK, VerifyLoadAnchor, VerifySnapshot, ReadDamaged, AppendDamaged,
         MetadataDamaged, QuarantineFlag, QuarantineAnchor
<1>3. reason' \in {reason, "verification"} /\ phase # "down"
  BY DEF VerifyLoadAnchor, VerifySnapshot, ReadDamaged, AppendDamaged,
         MetadataDamaged, QuarantineFlag, QuarantineAnchor, NothingWhileDown
<1>4. MutexProtects'
  <2>1. Len(db.events) \in Nat
    BY DEF TypeOK, Database
  <2>2. ASSUME NEW u \in Threads
        PROVE  span'[u].to <= Len(db.events)
    <3>1. span'[u] \in {span[u], NoSpan}
      BY <1>1 DEF TypeOK
    <3>2. NoSpan.to <= Len(db.events)
      BY <2>1 DEF NoSpan
    <3>3. span[u].to <= Len(db.events)
      BY DEF MutexProtects
    <3> QED BY <3>1, <3>2, <3>3
  <2> QED BY <1>1, <2>2 DEF MutexProtects, Goto, TypeOK
<1>5. NothingWhileDown' /\ HeldIsAnchored' /\ WritableIsAnchored'
  BY <1>1, <1>2, <1>3 DEF NothingWhileDown, HeldIsAnchored, WritableIsAnchored
<1> QED BY <1>4, <1>5

(* Startup admits writes, or goes on to checkpoint, only after comparing   *)
(* the log with the anchor.                                                *)
LEMMA StartupComparesAnchor ==
  ASSUME Inductive, NEW t \in Threads, NEW mode \in StartupModes,
         VerifyStartup(t, mode)
  PROVE  \/ StartupQuarantine
         \/ StartupOpen /\ Prefix(anchor.hash, db.events)
         \/ StartupCheckpoint(t) /\ encrypted /\ Prefix(anchor.hash, db.events)
<1>1. Prefix(<<>>, db.events)
  BY PrefixEmpty DEF Inductive, TypeOK, Database
<1>2. CASE /\ db.events = <<>>
           /\ IF AnchorAheadOfEmpty(anchor) \/ ~MetadataIntact
              THEN StartupQuarantine ELSE StartupOpen
  BY <1>1, <1>2 DEF AnchorAheadOfEmpty
<1>3. CASE /\ ~encrypted
           /\ IF VerifyPlaintextIncremental(db) THEN StartupOpen
                                                ELSE StartupQuarantine
  BY <1>1, <1>3 DEF Inductive, HeldIsAnchored
<1>4. CASE /\ TrustedIncremental(mode, anchor) /\ VerifyIncremental(db, anchor)
           /\ IF Len(db.events) > Len(db.checkpoint) THEN StartupCheckpoint(t)
                                                     ELSE StartupOpen
  BY <1>4 DEF TrustedIncremental, VerifyIncremental
<1>5. CASE IF ~VerifyInner(db, anchor) THEN StartupQuarantine
           ELSE IF encrypted THEN StartupCheckpoint(t) ELSE StartupOpen
  BY <1>5 DEF VerifyInner
<1> QED BY <1>2, <1>3, <1>4, <1>5 DEF VerifyStartup

(* Startup takes the mutex, or opens the journal, over anchored history. *)
LEMMA ProtectedStartup ==
  ASSUME Inductive, UNCHANGED encrypted, NEW t \in Threads,
         NEW mode \in StartupModes, VerifyStartup(t, mode)
  PROVE  Protected'
<1> USE ThreadsAssumption DEF Protected, Inductive
<1>1. /\ UNCHANGED <<db, tx, span>> /\ phase = "down" /\ writer = NoThread
      /\ \A u \in Threads : pc[u] = "idle"
  BY DEF VerifyStartup, NothingWhileDown
<1>2. CASE StartupQuarantine
  <2>1. anchor'.hash = anchor.hash
    BY <1>2, QuarantinedKeepsHash DEF StartupQuarantine, TypeOK
  <2> QED
    BY <1>1, <1>2, <2>1
       DEF StartupQuarantine, MutexProtects, NothingWhileDown, HeldIsAnchored,
           WritableIsAnchored
<1>3. CASE StartupOpen /\ Prefix(anchor.hash, db.events)
  BY <1>1, <1>3
     DEF StartupOpen, MutexProtects, NothingWhileDown, HeldIsAnchored,
         WritableIsAnchored
<1>4. CASE StartupCheckpoint(t) /\ encrypted /\ Prefix(anchor.hash, db.events)
  <2>1. MutexProtects'
    BY <1>1, <1>4 DEF StartupCheckpoint, MutexProtects, Goto, TypeOK
  <2> QED
    BY <1>1, <1>4, <2>1
       DEF StartupCheckpoint, NothingWhileDown, HeldIsAnchored,
           WritableIsAnchored
<1> QED BY <1>2, <1>3, <1>4, StartupComparesAnchor

(* Crashes, faults and the operator: the file changes behind the journal's *)
(* back only while the process is down, its rows' integrity at any time.   *)
LEMMA ProtectedEnvironment ==
  ASSUME Inductive, UNCHANGED encrypted, Environment
  PROVE  Protected'
<1> USE DEF Protected, Inductive
<1>1. CASE StartupFails
  BY <1>1 DEF StartupFails, MutexProtects, NothingWhileDown, HeldIsAnchored,
              WritableIsAnchored
<1>2. CASE Crash
  <2>1. Len(db.events) \in Nat
    BY DEF TypeOK, Database
  <2> QED
    BY <1>2, <2>1 DEF Crash, MutexProtects, NothingWhileDown, HeldIsAnchored,
                      WritableIsAnchored, NoSpan
<1>3. CASE Backup
  BY <1>3 DEF Backup, MutexProtects, NothingWhileDown, HeldIsAnchored,
              WritableIsAnchored
<1>4. CASE Restore
  <2>1. Len(backup.events) \in Nat
    BY DEF TypeOK, Database
  <2> QED
    BY <1>4, <2>1 DEF Restore, MutexProtects, NothingWhileDown, HeldIsAnchored,
                      WritableIsAnchored, NoSpan
<1>5. ASSUME NEW i \in Rows, Damage(i)
      PROVE  Protected'
  <2>1. db'.events = db.events
    BY <1>5 DEF Damage, TypeOK, Database
  <2> QED
    BY <1>5, <2>1 DEF Damage, MutexProtects, NothingWhileDown, HeldIsAnchored,
                      WritableIsAnchored
<1> QED BY <1>1, <1>2, <1>3, <1>4, <1>5 DEF Environment

(* Every step of the journal keeps the inductive invariant. *)
LEMMA InductiveStep == Inductive /\ [Next]_vars => Inductive'
<1> SUFFICES ASSUME Inductive, [Next]_vars PROVE Inductive'
  OBVIOUS
<1>0. UNCHANGED encrypted
  BY DEF Next, Watch, vars
<1>1. TypeOK'
  BY TypeStep DEF Inductive
<1>2. ASSUME NEW t \in Threads, ThreadNext(t)
      PROVE  Protected'
  <2>1. CASE ProjectionNext(t)
    BY <1>0, <2>1, ProjectionKeeps
       DEF Inductive, Protected, MutexProtects, NothingWhileDown,
           HeldIsAnchored, WritableIsAnchored
  <2> QED BY <1>0, <1>2, <2>1, ProtectedAppend, ProtectedCheckpoint,
             ProtectedVerify, ProtectedStartup DEF ThreadNext, Proceed
<1>3. CASE Environment
  BY <1>0, <1>1, <1>3, ProtectedEnvironment DEF Inductive, Protected
<1>4. CASE UNCHANGED vars
  BY <1>4 DEF vars, Inductive, TypeOK, MutexProtects, NothingWhileDown,
              HeldIsAnchored, WritableIsAnchored
<1> QED BY <1>1, <1>2, <1>3, <1>4 DEF Next, Inductive, Protected

(* The inductive invariant holds of every reachable state. *)
THEOREM Invariance == Spec => []Inductive
BY InductiveInit, InductiveStep, PTL DEF Spec

(* Every variable of the journal keeps its type: in particular an append   *)
(* never shortens the log, and returns records the log really holds.       *)
THEOREM TypeCorrect == Spec => []TypeOK
<1>1. Inductive => TypeOK
  BY DEF Inductive
<1> QED BY <1>1, Invariance, PTL

(* A journal that accepts writes has the history its anchor vouches for.   *)
THEOREM Anchored == Spec => []WritableIsAnchored
<1>1. Inductive => WritableIsAnchored
  BY DEF Inductive
<1> QED BY <1>1, Invariance, PTL

-----------------------------------------------------------------------------
(* The anchored history. *)

(* No step of the journal shortens or rewrites what the anchor vouches     *)
(* for: only a checkpoint moves the anchor, and only over a log that still *)
(* begins with what was anchored before.                                   *)
LEMMA AnchorStep ==
  ASSUME Inductive, [Next]_vars
  PROVE  Prefix(anchor.hash, anchor'.hash)
<1>1. anchor \in SecureAnchor /\ anchor.hash \in Seq(Record)
  BY DEF Inductive, TypeOK, SecureAnchor
<1>2. Prefix(anchor.hash, anchor.hash)
  BY <1>1, PrefixReflexive
<1>3. ASSUME NEW t \in Threads, StoreAnchor(t)
      PROVE  Prefix(anchor.hash, anchor'.hash)
  <2>1. anchor'.hash = db.events /\ writer = t
    BY <1>3 DEF StoreAnchor, Inductive, MutexProtects
  <2> QED BY <2>1, ThreadsAssumption DEF Inductive, HeldIsAnchored
<1>4. ASSUME anchor' = anchor \/ anchor' \in Quarantined(anchor)
      PROVE  Prefix(anchor.hash, anchor'.hash)
  BY <1>1, <1>2, <1>4, QuarantinedKeepsHash
<1>5. ASSUME NEW t \in Threads, ThreadNext(t), ~StoreAnchor(t)
      PROVE  anchor' = anchor \/ anchor' \in Quarantined(anchor)
  <2>1. CASE \E mode \in StartupModes : VerifyStartup(t, mode)
    BY <2>1 DEF VerifyStartup, StartupOpen, StartupQuarantine, StartupCheckpoint
  <2>2. CASE ProjectionNext(t)
    BY <2>2, ProjectionKeeps DEF Inductive
  <2>3. CASE ~(\E mode \in StartupModes : VerifyStartup(t, mode)) /\ ~ProjectionNext(t)
    BY <1>5, <2>3
       DEF ThreadNext, Proceed, AppendLock, AppendEvent, AppendCommit,
           AppendAbort, AppendReturn, AppendCheckpoint, CheckpointCall,
           CheckpointRefused, CheckpointEmpty, CheckpointLock, CommitCheckpoint,
           CheckpointFails, VerifyLoadAnchor, VerifySnapshot, ReadDamaged,
           AppendDamaged, MetadataDamaged, QuarantineFlag, QuarantineAnchor
  <2> QED BY <2>1, <2>2, <2>3
<1>6. Environment => anchor' = anchor
  BY DEF Environment, StartupFails, Crash, Backup, Restore, Damage
<1>7. UNCHANGED vars => anchor' = anchor
  BY DEF vars
<1> QED BY <1>3, <1>4, <1>5, <1>6, <1>7 DEF Next

(* The history once anchored outside the database is never shortened or    *)
(* rewritten by checkpoint, quarantine or startup, whatever copy of the    *)
(* database an operator puts back.                                         *)
THEOREM AnchorGrows == Spec => AnchoredHistoryGrows
<1>1. Inductive /\ [Next]_vars => Prefix(anchor.hash, anchor'.hash)
  BY AnchorStep
<1>2. Inductive /\ [Next]_vars => [Prefix(anchor.hash, anchor'.hash)]_vars
  BY <1>1
<1> QED BY <1>2, Invariance, PTL DEF Spec, AnchoredHistoryGrows

-----------------------------------------------------------------------------
(* Stream versions. *)

(* Counting a stream over the first n records gives a natural number. *)
LEMMA CountInNat ==
  ASSUME NEW S, NEW l \in Seq(S), NEW s, NEW n \in Nat
  PROVE  /\ IsFiniteSet({i \in 1..n : l[i].stream_id = s})
         /\ CountIn(l, s, n) \in Nat
<1>1. IsFiniteSet(1..n)
  BY FS_Interval
<1>2. IsFiniteSet({i \in 1..n : l[i].stream_id = s})
  BY <1>1, FS_Subset
<1> QED BY <1>2, FS_CardinalityType DEF CountIn

(* A record appended does not change the count over earlier ones. *)
LEMMA CountInAppendBefore ==
  ASSUME NEW S, NEW l \in Seq(S), NEW r \in S, NEW s, NEW n \in 0..Len(l)
  PROVE  CountIn(Append(l, r), s, n) = CountIn(l, s, n)
<1>1. \A i \in 1..n : Append(l, r)[i] = l[i]
  OBVIOUS
<1>2. {i \in 1..n : Append(l, r)[i].stream_id = s}
        = {i \in 1..n : l[i].stream_id = s}
  BY <1>1
<1> QED BY <1>2 DEF CountIn

(* Appending a record counts one more in its own stream and in no other. *)
LEMMA CountInAppend ==
  ASSUME NEW S, NEW l \in Seq(S), NEW r \in S, NEW s
  PROVE  CountIn(Append(l, r), s, Len(l) + 1)
           = CountIn(l, s, Len(l)) + IF r.stream_id = s THEN 1 ELSE 0
<1> DEFINE A == {i \in 1..Len(l) : l[i].stream_id = s}
           B == {i \in 1..(Len(l) + 1) : Append(l, r)[i].stream_id = s}
<1>0. Len(l) \in Nat
  OBVIOUS
<1>1. /\ \A i \in 1..Len(l) : Append(l, r)[i] = l[i]
      /\ Append(l, r)[Len(l) + 1] = r
  OBVIOUS
<1>2. IsFiniteSet(A) /\ Cardinality(A) \in Nat
  BY <1>0, CountInNat DEF CountIn
<1>3. Len(l) + 1 \notin A
  BY <1>0
<1>4. CASE r.stream_id = s
  <2>1. B = A \cup {Len(l) + 1}
    BY <1>0, <1>1, <1>4
  <2>2. Cardinality(B) = Cardinality(A) + 1
    BY <1>2, <1>3, <2>1, FS_AddElement
  <2> QED BY <1>4, <2>2 DEF CountIn
<1>5. CASE r.stream_id # s
  <2>1. B = A
    BY <1>0, <1>1, <1>5
  <2>2. Cardinality(B) = Cardinality(A) + 0
    <3> HIDE DEF A, B
    <3> QED BY <1>2, <2>1
  <2> QED BY <1>5, <2>2 DEF CountIn
<1> QED BY <1>4, <1>5

(* A table of versions is the one a replay of the records gives. *)
Gapless(d) ==
    /\ WellVersioned(d.events)
    /\ \A s \in Streams : d.versions[s] = CountIn(d.events, s, Len(d.events))

(* The database, the operator's copy and an open transaction all are. *)
AllGapless == Gapless(db) /\ Gapless(backup) /\ Gapless(tx)

(* An event whose expected version is the transaction's keeps it gapless. *)
LEMMA AppendKeepsGapless ==
  ASSUME NEW l \in Seq(Record), NEW v \in [Streams -> Nat], NEW r \in Record,
         Gapless([events |-> l, versions |-> v]),
         r.stream_version = v[r.stream_id] + 1
  PROVE  Gapless([events |-> Append(l, r),
                  versions |-> [v EXCEPT ![r.stream_id] = r.stream_version]])
<1> DEFINE m == Append(l, r)
           w == [v EXCEPT ![r.stream_id] = r.stream_version]
<1>0. /\ Len(l) \in Nat /\ Len(m) = Len(l) + 1 /\ r.stream_id \in Streams
      /\ \A i \in 1..Len(l) : m[i] = l[i]
      /\ m[Len(l) + 1] = r
  BY DEF Record
<1>1. \A s \in Streams : v[s] = CountIn(l, s, Len(l))
  BY DEF Gapless
<1>2. \A i \in 1..Len(l) : l[i].stream_version = CountIn(l, l[i].stream_id, i)
  BY DEF Gapless, WellVersioned
<1>3. ASSUME NEW i \in 1..Len(m)
      PROVE  m[i].stream_version = CountIn(m, m[i].stream_id, i)
  <2>1. CASE i \in 1..Len(l)
    <3>1. CountIn(m, m[i].stream_id, i) = CountIn(l, l[i].stream_id, i)
      BY <1>0, <2>1, CountInAppendBefore
    <3> QED BY <1>0, <1>2, <2>1, <3>1
  <2>2. CASE i = Len(l) + 1
    <3>1. CountIn(m, r.stream_id, Len(l) + 1)
            = CountIn(l, r.stream_id, Len(l)) + 1
      BY CountInAppend
    <3> QED BY <1>0, <1>1, <2>2, <3>1
  <2> QED BY <1>0, <2>1, <2>2
<1>4. ASSUME NEW s \in Streams
      PROVE  w[s] = CountIn(m, s, Len(m))
  <2>1. CountIn(m, s, Len(l) + 1)
          = CountIn(l, s, Len(l)) + IF r.stream_id = s THEN 1 ELSE 0
    BY CountInAppend
  <2>2. CASE r.stream_id = s
    BY <1>0, <1>1, <2>1, <2>2
  <2>3. CASE r.stream_id # s
    BY <1>0, <1>1, <2>1, <2>3
  <2> QED BY <2>2, <2>3
<1> QED BY <1>3, <1>4 DEF Gapless, WellVersioned

(* An empty database is gapless. *)
LEMMA EmptyGapless ==
  ASSUME NEW d, d.events = <<>>, d.versions = [s \in Streams |-> 0]
  PROVE  Gapless(d)
<1>1. ASSUME NEW s PROVE CountIn(<<>>, s, 0) = 0
  <2>1. {i \in 1..0 : <<>>[i].stream_id = s} = {}
    OBVIOUS
  <2> QED BY <2>1, FS_EmptySet DEF CountIn
<1> QED BY <1>1 DEF Gapless, WellVersioned

(* No step leaves a gap: only AppendEvent adds a record, under the version *)
(* it has compared with the transaction's own table.                       *)
LEMMA GaplessStep ==
  ASSUME Inductive, AllGapless, [Next]_vars
  PROVE  AllGapless'
<1>0. Gapless(NoTx)
  BY EmptyGapless DEF NoTx
<1>1. ASSUME NEW t \in Threads, ThreadNext(t)
      PROVE  AllGapless'
  <2>1. CASE AppendLock(t)
    BY <2>1 DEF AppendLock, AllGapless, Gapless
  <2>2. CASE AppendAbort(t)
    BY <1>0, <2>2 DEF AppendAbort, AllGapless, Gapless
  <2>3. CASE AppendCommit(t)
    <3>1. db'.events = tx.events /\ db'.versions = tx.versions
      BY <2>3 DEF AppendCommit, Inductive, TypeOK, Database
    <3>2. tx' = NoTx /\ backup' = backup
      BY <2>3 DEF AppendCommit
    <3> QED BY <1>0, <3>1, <3>2 DEF AllGapless, Gapless
  <2>4. ASSUME NEW s \in Streams, NEW e \in 0..MaxEvents, AppendEvent(t, s, e)
        PROVE  AllGapless'
    <3> DEFINE r == [stream_id |-> s, stream_version |-> e + 1,
                     event_id |-> nextId + (Len(tx.events) - Len(db.events))]
    <3>1. pc[t] = "appending"
      BY <2>4 DEF AppendEvent
    <3>2. r \in Record
      BY <3>1, NewRecordType DEF Inductive, NextVersion
    <3>3. tx.events \in Seq(Record) /\ tx.versions \in [Streams -> Nat]
      BY DEF Inductive, TypeOK
    <3>4. e = tx.versions[s]
      BY <2>4 DEF AppendEvent, ExpectedMatches
    <3>5. Gapless([events |-> tx.events, versions |-> tx.versions])
      BY DEF AllGapless, Gapless
    <3>6. tx' = [events |-> Append(tx.events, r),
                 versions |-> [tx.versions EXCEPT ![s] = e + 1]]
      BY <2>4 DEF AppendEvent, NextVersion
    <3>7. Gapless([events |-> Append(tx.events, r),
                   versions |-> [tx.versions EXCEPT ![r.stream_id]
                                   = r.stream_version]])
      BY <3>2, <3>3, <3>4, <3>5, AppendKeepsGapless
    <3>8. UNCHANGED <<db, backup>>
      BY <2>4 DEF AppendEvent
    <3> QED BY <3>6, <3>7, <3>8 DEF AllGapless, Gapless
  <2>5. CASE CommitCheckpoint(t)
    <3>1. db'.events = db.events /\ db'.versions = db.versions
      BY <2>5 DEF CommitCheckpoint, Inductive, TypeOK, Database
    <3>2. UNCHANGED <<tx, backup>>
      BY <2>5 DEF CommitCheckpoint, CheckpointReturn
    <3> QED BY <3>1, <3>2 DEF AllGapless, Gapless
  <2>6. CASE /\ ~AppendLock(t) /\ ~AppendAbort(t) /\ ~AppendCommit(t)
             /\ ~CommitCheckpoint(t) /\ ~ProjectionNext(t)
             /\ ~\E s \in Streams : \E e \in 0..MaxEvents : AppendEvent(t, s, e)
    <3>1. UNCHANGED <<db, tx, backup>>
      BY <1>1, <2>6
         DEF ThreadNext, Proceed, AppendReturn, AppendCheckpoint,
             CheckpointCall, CheckpointRefused, CheckpointEmpty, CheckpointLock,
             CheckpointReturn, StoreAnchor, CheckpointFails, VerifyLoadAnchor,
             VerifySnapshot, ReadDamaged, AppendDamaged, MetadataDamaged,
             QuarantineFlag, QuarantineAnchor, VerifyStartup
    <3> QED BY <3>1 DEF AllGapless, Gapless
  <2>7. CASE ProjectionNext(t)
    BY <2>7, ProjectionKeeps DEF Inductive, AllGapless, Gapless
  <2> QED BY <2>1, <2>2, <2>3, <2>4, <2>5, <2>6, <2>7
<1>2. CASE StartupFails \/ UNCHANGED vars
  BY <1>2 DEF StartupFails, vars, AllGapless, Gapless
<1>3. CASE Crash
  BY <1>0, <1>3 DEF Crash, AllGapless, Gapless
<1>4. CASE Backup \/ Restore
  BY <1>4 DEF Backup, Restore, AllGapless, Gapless
<1>5. ASSUME NEW i \in Rows, Damage(i)
      PROVE  AllGapless'
  <2>1. db'.events = db.events /\ db'.versions = db.versions
    BY <1>5 DEF Damage, Inductive, TypeOK, Database
  <2> QED BY <1>5, <2>1 DEF Damage, AllGapless, Gapless
<1> QED BY <1>1, <1>2, <1>3, <1>4, <1>5 DEF Next, Environment

(* The database, the copy and the transaction stay gapless. *)
LEMMA AlwaysGapless == Spec => []AllGapless
<1>1. Init => AllGapless
  BY EmptyGapless DEF Init, AllGapless, NewDatabase, NoTx
<1>2. Inductive /\ AllGapless /\ [Next]_vars => AllGapless'
  BY GaplessStep
<1> QED BY <1>1, <1>2, Invariance, PTL DEF Spec

(* Optimistic concurrency works for any number of threads and streams and  *)
(* across crashes and restores: every stream's versions are 1, 2, 3, ...,  *)
(* and the version table is the one replay gives.                          *)
THEOREM Versioned == Spec => []StreamsGapless
<1>1. AllGapless => StreamsGapless
  BY DEF AllGapless, Gapless, StreamsGapless
<1> QED BY <1>1, AlwaysGapless, PTL

-----------------------------------------------------------------------------
(* What was acknowledged. *)

(* Only a commit, a checkpoint's anchor or an operator change the log or   *)
(* the anchored history.                                                   *)
LEMMA LogKept ==
  ASSUME Inductive, [Next]_vars, ~Restore,
         \A t \in Threads : ~AppendCommit(t) /\ ~StoreAnchor(t)
  PROVE  UNCHANGED <<db.events, anchor.hash>>
<1>1. ASSUME NEW t \in Threads, ThreadNext(t), ~AppendCommit(t), ~StoreAnchor(t)
      PROVE  UNCHANGED <<db.events, anchor.hash>>
  <2>1. anchor'.hash = anchor.hash
    <3>1. CASE \E mode \in StartupModes : VerifyStartup(t, mode)
      BY <3>1, QuarantinedKeepsHash
         DEF VerifyStartup, StartupOpen, StartupQuarantine, StartupCheckpoint,
             Inductive, TypeOK
    <3>2. CASE QuarantineAnchor(t)
      BY <3>2, QuarantinedKeepsHash DEF QuarantineAnchor, Inductive, TypeOK
    <3>3. CASE /\ ~\E mode \in StartupModes : VerifyStartup(t, mode)
               /\ ~QuarantineAnchor(t) /\ ~ProjectionNext(t)
      BY <1>1, <3>3
         DEF ThreadNext, Proceed, AppendLock, AppendEvent, AppendAbort,
             AppendReturn, AppendCheckpoint, CheckpointCall, CheckpointRefused,
             CheckpointEmpty, CheckpointLock, CommitCheckpoint, CheckpointFails,
             VerifyLoadAnchor, VerifySnapshot, ReadDamaged, AppendDamaged,
             MetadataDamaged, QuarantineFlag
    <3>4. CASE ProjectionNext(t)
      BY <3>4, ProjectionKeeps DEF Inductive
    <3> QED BY <3>1, <3>2, <3>3, <3>4
  <2>2. db'.events = db.events
    <3>1. CASE CommitCheckpoint(t)
      BY <3>1 DEF CommitCheckpoint, Inductive, TypeOK, Database
    <3>2. CASE ProjectionNext(t)
      BY <3>2, ProjectionKeeps DEF Inductive
    <3>3. CASE ~CommitCheckpoint(t) /\ ~ProjectionNext(t)
      BY <1>1, <3>3
         DEF ThreadNext, Proceed, AppendLock, AppendEvent, AppendAbort,
             AppendReturn, AppendCheckpoint, CheckpointCall, CheckpointRefused,
             CheckpointEmpty, CheckpointLock, CheckpointFails,
             VerifyLoadAnchor, VerifySnapshot, ReadDamaged, AppendDamaged,
             MetadataDamaged, QuarantineFlag, QuarantineAnchor, VerifyStartup
    <3> QED BY <3>1, <3>2, <3>3
  <2> QED BY <2>1, <2>2
<1>2. ASSUME Environment, ~Restore
      PROVE  UNCHANGED <<db.events, anchor.hash>>
  BY <1>2 DEF Environment, StartupFails, Crash, Backup, Damage, Inductive,
              TypeOK, Database
<1>3. UNCHANGED vars => UNCHANGED <<db.events, anchor.hash>>
  BY DEF vars
<1> QED BY <1>1, <1>2, <1>3 DEF Next

(* An acknowledged record that the anchor covers is anchored, one beyond   *)
(* it is in the log, and an append that has still to be acknowledged was   *)
(* committed to a log that goes on from its anchor.                        *)
Acknowledged ==
    /\ \A a \in acked :
         /\ a[1] >= 1
         /\ a[1] <= Len(anchor.hash) => anchor.hash[a[1]] = a[2]
         /\ a[1] > Len(anchor.hash) => a[1] <= Len(db.events) /\ db.events[a[1]] = a[2]
    /\ \A t \in Threads : Appended(t) => Prefix(anchor.hash, db.events)

(* Over anchored history all that was acknowledged is in the log. *)
LEMMA AcknowledgedInLog ==
  ASSUME TypeOK, Acknowledged, Prefix(anchor.hash, db.events), NEW a \in acked
  PROVE  a[1] \in 1..Len(db.events) /\ db.events[a[1]] = a[2]
<1>1. a[1] \in Nat /\ Len(anchor.hash) \in Nat /\ Len(db.events) \in Nat
  BY DEF TypeOK, SecureAnchor, Database
<1>2. a[1] >= 1
  BY DEF Acknowledged
<1>3. CASE a[1] <= Len(anchor.hash)
  <2>1. a[1] \in 1..Len(anchor.hash) /\ anchor.hash[a[1]] = a[2]
    BY <1>1, <1>2, <1>3 DEF Acknowledged
  <2> QED BY <1>1, <2>1 DEF Prefix
<1>4. CASE a[1] > Len(anchor.hash)
  BY <1>1, <1>2, <1>4 DEF Acknowledged
<1> QED BY <1>1, <1>3, <1>4

(* What the steps that keep the log may acknowledge. *)
LEMMA AcknowledgedBy ==
  ASSUME Inductive, [Next]_vars, ~Restore, \A t \in Threads : ~AppendCommit(t)
  PROVE  /\ acked' = acked \/ \E t \in Threads : acked' = acked \cup Persisted(t)
         /\ \A u \in Threads : span'[u] \in {span[u], NoSpan}
<1>1. span \in [Threads -> [from: Nat, to: Nat]]
  BY DEF Inductive, TypeOK
<1>2. ASSUME NEW t \in Threads, ThreadNext(t)
      PROVE  /\ acked' = acked \/ acked' = acked \cup Persisted(t)
             /\ span' \in {span, [span EXCEPT ![t] = NoSpan]}
  <2>1. CASE ProjectionNext(t)
    BY <2>1, ProjectionKeeps DEF Inductive
  <2> QED BY <1>2, <2>1
     DEF ThreadNext, Proceed, AppendLock, AppendEvent, AppendAbort,
         AppendReturn, AppendCheckpoint, CheckpointCall, CheckpointRefused,
         CheckpointEmpty, CheckpointLock, CheckpointReturn, StoreAnchor,
         CommitCheckpoint, CheckpointFails, VerifyLoadAnchor, VerifySnapshot,
         ReadDamaged, AppendDamaged, MetadataDamaged, QuarantineFlag,
         QuarantineAnchor, VerifyStartup
<1>3. ASSUME Environment
      PROVE  acked' = acked /\ span' \in {span, [t \in Threads |-> NoSpan]}
  BY <1>3 DEF Environment, StartupFails, Crash, Backup, Damage
<1>4. UNCHANGED vars => acked' = acked /\ span' = span
  BY DEF vars
<1> QED BY <1>1, <1>2, <1>3, <1>4 DEF Next

LEMMA AcknowledgedStep ==
  ASSUME Inductive, Acknowledged, [Next]_vars
  PROVE  Acknowledged'
<1>0. /\ TypeOK /\ anchor.hash \in Seq(Record) /\ db.events \in Seq(Record)
      /\ backup.events \in Seq(Record)
      /\ Len(anchor.hash) \in Nat /\ Len(db.events) \in Nat
      /\ span \in [Threads -> [from: Nat, to: Nat]]
      /\ acked \subseteq Nat \X Record
  <2>1. TypeOK
    BY DEF Inductive
  <2>2. anchor.hash \in Seq(Record) /\ db.events \in Seq(Record) /\ backup.events \in Seq(Record)
    BY <2>1 DEF TypeOK, SecureAnchor, Database
  <2>3. span \in [Threads -> [from: Nat, to: Nat]] /\ acked \subseteq Nat \X Record
    BY <2>1 DEF TypeOK
  <2> QED BY <2>1, <2>2, <2>3
<1>1. ASSUME NEW t \in Threads, AppendCommit(t)
      PROVE  Acknowledged'
  <2>1. /\ db'.events = tx.events /\ UNCHANGED <<anchor, acked>> /\ tx.events \in Seq(Record)
        /\ Prefix(db.events, tx.events) /\ writer = t
    BY <1>1 DEF AppendCommit, Inductive, TypeOK, Database, MutexProtects
  <2>2. Prefix(anchor.hash, db.events)
    BY <2>1, ThreadsAssumption DEF Inductive, HeldIsAnchored
  <2>3. Prefix(anchor.hash, tx.events)
    BY <1>0, <2>1, <2>2, PrefixTransitive
  <2>4. ASSUME NEW a \in acked
        PROVE  /\ a[1] >= 1
               /\ a[1] <= Len(anchor.hash) => anchor.hash[a[1]] = a[2]
               /\ a[1] <= Len(tx.events) /\ tx.events[a[1]] = a[2]
    <3>1. a[1] \in 1..Len(db.events) /\ db.events[a[1]] = a[2]
      BY <1>0, <2>2, AcknowledgedInLog
    <3>2. Len(tx.events) \in Nat
      BY <2>1
    <3> QED BY <1>0, <2>1, <3>1, <3>2 DEF Prefix, Acknowledged
  <2> QED BY <2>1, <2>3, <2>4 DEF Acknowledged
<1>2. ASSUME NEW t \in Threads, StoreAnchor(t)
      PROVE  Acknowledged'
  <2>1. anchor'.hash = db.events /\ UNCHANGED <<db, acked, span>> /\ writer = t
    BY <1>2 DEF StoreAnchor, Inductive, MutexProtects
  <2>2. Prefix(anchor.hash, db.events)
    BY <2>1, ThreadsAssumption DEF Inductive, HeldIsAnchored
  <2>3. \A a \in acked : a[1] \in 1..Len(db.events) /\ db.events[a[1]] = a[2]
    BY <1>0, <2>2, AcknowledgedInLog
  <2>4. Prefix(db.events, db.events)
    BY <1>0, PrefixReflexive
  <2> QED BY <1>0, <2>1, <2>3, <2>4 DEF Acknowledged
<1>3. CASE Restore
  <2>1. /\ acked' = {a \in acked : a[1] <= Len(anchor.hash)} /\ UNCHANGED <<anchor, span>>
        /\ phase = "down"
    BY <1>3 DEF Restore
  <2>2. \A t \in Threads : ~Appended(t)'
    BY <2>1 DEF Inductive, NothingWhileDown, Appended, NoSpan
  <2>3. \A a \in acked' : a \in acked /\ a[1] \in Nat /\ a[1] <= Len(anchor.hash)
    BY <1>0, <2>1
  <2>4. \A a \in acked' : ~(a[1] > Len(anchor.hash))
    BY <1>0, <2>3
  <2> QED BY <2>1, <2>2, <2>3, <2>4 DEF Acknowledged
<1>4. CASE ~Restore /\ \A t \in Threads : ~AppendCommit(t) /\ ~StoreAnchor(t)
  <2>1. db'.events = db.events /\ anchor'.hash = anchor.hash
    BY <1>4, LogKept
  <2>2. /\ acked' = acked \/ \E t \in Threads : acked' = acked \cup Persisted(t)
        /\ \A u \in Threads : span'[u] \in {span[u], NoSpan}
    BY <1>4, AcknowledgedBy
  <2>3. \A u \in Threads : Appended(u)' => Appended(u)
    BY <2>2 DEF Appended, NoSpan
  <2>4. ASSUME NEW t \in Threads, NEW a \in Persisted(t)
        PROVE  /\ a[1] >= 1
               /\ a[1] <= Len(anchor.hash) => anchor.hash[a[1]] = a[2]
               /\ a[1] <= Len(db.events) /\ db.events[a[1]] = a[2]
    <3>1. PICK i \in (span[t].from + 1)..span[t].to : a = <<i, db.events[i]>>
      BY <2>4 DEF Persisted
    <3>2. span[t].from \in Nat /\ span[t].to \in Nat /\ span[t].to <= Len(db.events)
      BY <1>0 DEF Inductive, MutexProtects
    <3>3. i \in 1..Len(db.events) /\ Appended(t)
      BY <1>0, <3>1, <3>2 DEF Appended
    <3>4. Prefix(anchor.hash, db.events)
      BY <3>3 DEF Acknowledged
    <3>5. i <= Len(anchor.hash) => anchor.hash[i] = db.events[i]
      BY <1>0, <3>3, <3>4 DEF Prefix
    <3> QED BY <3>1, <3>3, <3>5
  <2> QED BY <2>1, <2>2, <2>3, <2>4 DEF Acknowledged
<1> QED BY <1>1, <1>2, <1>3, <1>4

(* A record whose append returned Ok is found under its sequence in every  *)
(* journal that accepts writes afterwards, whatever crashes and restarts   *)
(* lie between, for any number of threads, records and faults.             *)
THEOREM Survival == Spec => []AcknowledgedSurvive
<1>1. Init => Acknowledged
  BY DEF Init, Acknowledged, Appended, NoSpan
<1>2. Inductive /\ Acknowledged /\ [Next]_vars => Acknowledged'
  BY AcknowledgedStep
<1>3. Inductive /\ Acknowledged => AcknowledgedSurvive
  <2> SUFFICES ASSUME Inductive, Acknowledged, phase = "open", reason = "none", NEW a \in acked
               PROVE  a[1] <= Len(db.events) /\ db.events[a[1]] = a[2]
    BY DEF AcknowledgedSurvive
  <2>1. TypeOK /\ Prefix(anchor.hash, db.events)
    BY DEF Inductive, WritableIsAnchored
  <2>2. Len(db.events) \in Nat
    BY <2>1 DEF TypeOK, Database
  <2>3. a[1] \in 1..Len(db.events) /\ db.events[a[1]] = a[2]
    BY <2>1, AcknowledgedInLog
  <2> QED BY <2>2, <2>3
<1> QED BY <1>1, <1>2, <1>3, Invariance, PTL DEF Spec

-----------------------------------------------------------------------------
(* No false alarm. *)

(* The projections that follow the outbox are within the log, and those of *)
(* an older copy of the file within its own; a retry projection is, or it  *)
(* is remembered.                                                          *)
Following ==
    /\ \A p \in Projections \ Counting :
         /\ db.positions[p] <= Len(db.events)
         /\ backup.positions[p] <= Len(backup.events)
    /\ overtaken \/ RetriesWithin(db)

(* No step lets a following projection overtake: the log of a file only    *)
(* grows, and an older copy is put back together with its positions.       *)
LEMMA FollowingStep ==
  ASSUME Inductive, Following, [Next]_vars
  PROVE  Following'
<1>0. /\ db.events \in Seq(Record) /\ tx.events \in Seq(Record)
      /\ db.positions \in [Projections -> Nat]
      /\ Len(db.events) \in Nat /\ Len(tx.events) \in Nat
  <2>1. db.events \in Seq(Record) /\ db.positions \in [Projections -> Nat]
    BY DEF Inductive, TypeOK, Database
  <2>2. tx.events \in Seq(Record)
    BY DEF Inductive, TypeOK
  <2> QED BY <2>1, <2>2
<1>w. overtaken' \/ RetriesWithin(db')
  <2>1. CASE Watch
    BY <2>1 DEF Watch
  <2>2. CASE UNCHANGED vars
    BY <2>2 DEF vars, Following, RetriesWithin
  <2> QED BY <2>1, <2>2 DEF Next
<1>1. ASSUME db'.positions = db.positions, db'.events = db.events, backup' = backup
      PROVE  Following'
  BY <1>w, <1>1 DEF Following
<1>2. ASSUME NEW t \in Threads, AppendCommit(t)
      PROVE  Following'
  <2>1. /\ db'.events = tx.events /\ db'.positions = db.positions
        /\ backup' = backup /\ Prefix(db.events, tx.events)
    BY <1>2 DEF AppendCommit, Inductive, TypeOK, Database, MutexProtects
  <2>2. Len(db.events) <= Len(tx.events)
    BY <2>1 DEF Prefix
  <2> QED BY <1>w, <1>0, <2>1, <2>2 DEF Following
<1>3. ASSUME NEW t \in Threads, ProjectionNext(t)
      PROVE  Following'
  <2>1. db'.events = db.events /\ backup' = backup
    BY <1>3, ProjectionKeeps DEF Inductive
  <2>2. PICK p \in Projections, n \in Nat :
          /\ db' = [db EXCEPT !.positions = [@ EXCEPT ![p] = n]]
          /\ p \in Counting \/ n <= Len(db.events)
    BY <1>0, <1>3, BoundsAssumption
       DEF ProjectionNext, ResetProjection, ApplyProjection, SetProjection
  <2>3. db'.positions = [db.positions EXCEPT ![p] = n]
    BY <2>2 DEF Inductive, TypeOK, Database
  <2> QED BY <1>w, <1>0, <2>1, <2>2, <2>3 DEF Following
<1>4. ASSUME NEW t \in Threads, CommitCheckpoint(t)
      PROVE  Following'
  <2>1. db'.positions = db.positions /\ db'.events = db.events /\ backup' = backup
    BY <1>4 DEF CommitCheckpoint, CheckpointReturn, Inductive, TypeOK, Database
  <2> QED BY <1>1, <2>1
<1>5. ASSUME NEW t \in Threads, ThreadNext(t), ~AppendCommit(t), ~ProjectionNext(t),
             ~CommitCheckpoint(t)
      PROVE  Following'
  <2>1. UNCHANGED <<db, backup>>
    BY <1>5
       DEF ThreadNext, Proceed, AppendLock, AppendEvent, AppendAbort, AppendReturn,
           AppendCheckpoint, CheckpointCall, CheckpointRefused, CheckpointEmpty,
           CheckpointLock, CheckpointReturn, StoreAnchor, CheckpointFails,
           VerifyLoadAnchor, VerifySnapshot, ReadDamaged, AppendDamaged,
           MetadataDamaged, QuarantineFlag, QuarantineAnchor, VerifyStartup
  <2> QED BY <1>1, <2>1
<1>6. ASSUME NEW i \in Rows, Damage(i)
      PROVE  Following'
  <2>1. db'.positions = db.positions /\ db'.events = db.events /\ backup' = backup
    BY <1>6 DEF Damage, Inductive, TypeOK, Database
  <2> QED BY <1>1, <2>1
<1>7. CASE Backup \/ Restore
  BY <1>w, <1>7 DEF Backup, Restore, Following
<1>8. CASE StartupFails \/ Crash \/ UNCHANGED vars
  BY <1>w, <1>8 DEF StartupFails, Crash, vars, Following
<1> QED BY <1>2, <1>3, <1>4, <1>5, <1>6, <1>7, <1>8 DEF Next, Environment

(* Without a fault, and with no retry projection beyond the head, the rows *)
(* are whole, the checkpoint, the anchor and any anchor a verification has *)
(* loaded vouch for beginnings of the log, and nobody has found anything   *)
(* wrong.                                                                  *)
Undisturbed ==
    faults = 0 /\ ~overtaken =>
        /\ db.damaged = {}
        /\ Prefix(db.checkpoint, db.events)
        /\ Prefix(anchor.hash, db.events)
        /\ \A t \in Threads : pc[t] = "verifying" => Prefix(seen[t].hash, db.events)
        /\ ~encrypted => db.checkpoint = <<>>
        /\ NoFalseAlarm

LEMMA UndisturbedStep ==
  ASSUME Inductive, Inductive', AllGapless, Following, Undisturbed, [Next]_vars
  PROVE  Undisturbed'
<1>0. faults \in Nat /\ pc \in [Threads -> Pcs] /\ seen \in [Threads -> SecureAnchor]
  BY DEF Inductive, TypeOK
<1>1. /\ anchor.hash \in Seq(Record) /\ db.events \in Seq(Record)
      /\ db.checkpoint \in Seq(Record)
  BY DEF Inductive, TypeOK, SecureAnchor, Database
<1>2. \A t \in Threads : seen[t].hash \in Seq(Record)
  BY <1>0 DEF SecureAnchor
<1>w. UNCHANGED encrypted /\ (overtaken => overtaken')
  <2>1. CASE Watch
    BY <2>1 DEF Watch
  <2>2. CASE UNCHANGED vars
    BY <2>2 DEF vars
  <2> QED BY <2>1, <2>2 DEF Next
<1>3. CASE overtaken
  BY <1>3, <1>w DEF Undisturbed
<1>4. CASE faults # 0
  <2>1. faults' # 0
    <3>0. (\E t \in Threads : ProjectionNext(t)) => faults' = faults
      BY ProjectionKeeps DEF Inductive
    <3>1. faults' = faults \/ faults' = faults + 1
      BY <3>0 DEF Next, ThreadNext, Proceed, AppendLock, AppendEvent, AppendAbort,
         AppendCommit, AppendReturn, AppendCheckpoint, CheckpointCall,
         CheckpointRefused, CheckpointEmpty, CheckpointLock, CheckpointReturn,
         StoreAnchor, CommitCheckpoint, CheckpointFails, VerifyLoadAnchor,
         VerifySnapshot, ReadDamaged, AppendDamaged, MetadataDamaged,
         QuarantineFlag, QuarantineAnchor, VerifyStartup, Environment,
         StartupFails, Crash, Backup, Restore, Damage, vars
    <3> QED BY <1>0, <1>4, <3>1
  <2> QED BY <2>1 DEF Undisturbed
<1>5. ASSUME faults = 0, ~overtaken
      PROVE  Undisturbed'
  <2>1. /\ db.damaged = {} /\ Prefix(db.checkpoint, db.events) /\ Prefix(anchor.hash, db.events)
        /\ \A t \in Threads : pc[t] = "verifying" => Prefix(seen[t].hash, db.events)
        /\ ~encrypted => db.checkpoint = <<>>
        /\ reason # "verification" /\ \A t \in Threads : pc[t] \notin {"failed", "quarantining"}
    BY <1>5 DEF Undisturbed, NoFalseAlarm
  <2>a. PositionsWithin(db)
    BY <1>5 DEF PositionsWithin, RetriesWithin, Following
  <2>2. \A a : Prefix(a.hash, db.events) => VerifyInner(db, a)
    BY <2>1, <2>a DEF VerifyInner, AllGapless, Gapless
  <2>3. ASSUME NEW t \in Threads, AppendCommit(t)
        PROVE  Undisturbed'
    <3>1. /\ db'.events = tx.events /\ db'.checkpoint = db.checkpoint /\ db'.damaged = db.damaged
          /\ tx.events \in Seq(Record) /\ Prefix(db.events, tx.events)
      BY <2>3 DEF AppendCommit, Inductive, TypeOK, Database, MutexProtects
    <3>2. \A l \in Seq(Record) : Prefix(l, db.events) => Prefix(l, tx.events)
      BY <1>1, <3>1, PrefixTransitive
    <3>3. /\ UNCHANGED <<anchor, reason, seen>>
          /\ pc' = [pc EXCEPT ![t] = "appended"]
      BY <2>3 DEF AppendCommit, Goto
    <3> QED BY <1>w, <1>0, <1>1, <1>2, <2>1, <3>1, <3>2, <3>3 DEF Undisturbed, NoFalseAlarm
  <2>4. ASSUME NEW t \in Threads, StoreAnchor(t)
        PROVE  Undisturbed'
    <3>1. /\ anchor'.hash = db.events /\ UNCHANGED <<db, reason, seen>>
          /\ pc' = [pc EXCEPT ![t] = "committing"]
      BY <2>4 DEF StoreAnchor, Goto
    <3>2. Prefix(db.events, db.events)
      BY <1>1, PrefixReflexive
    <3> QED BY <1>w, <1>0, <2>1, <3>1, <3>2 DEF Undisturbed, NoFalseAlarm
  <2>5. ASSUME NEW t \in Threads, CommitCheckpoint(t)
        PROVE  Undisturbed'
    <3>1. /\ db'.events = db.events /\ db'.checkpoint = db.events /\ db'.damaged = db.damaged
          /\ encrypted
      BY <2>5 DEF CommitCheckpoint, Inductive, TypeOK, Database, MutexProtects
    <3>2. /\ UNCHANGED <<anchor, reason, seen>> /\ pc' = [pc EXCEPT ![t] = "idle"]
      BY <2>5 DEF CommitCheckpoint, CheckpointReturn, Goto
    <3>3. Prefix(db.events, db.events)
      BY <1>1, PrefixReflexive
    <3> QED BY <1>w, <1>0, <2>1, <3>1, <3>2, <3>3 DEF Undisturbed, NoFalseAlarm
  <2>6. ASSUME NEW t \in Threads, VerifyLoadAnchor(t)
        PROVE  Undisturbed'
    <3>1. /\ UNCHANGED <<db, anchor, reason>> /\ pc' = [pc EXCEPT ![t] = "verifying"]
          /\ seen' = [seen EXCEPT ![t] = anchor]
      BY <2>6 DEF VerifyLoadAnchor, Goto
    <3> QED BY <1>w, <1>0, <2>1, <3>1 DEF Undisturbed, NoFalseAlarm
  <2>7. ASSUME NEW t \in Threads, VerifySnapshot(t)
        PROVE  Undisturbed'
    <3>1. VerifyInner(db, seen[t])
      BY <2>1, <2>2, <2>7 DEF VerifySnapshot
    <3>2. /\ UNCHANGED <<db, anchor, reason>> /\ pc' = [pc EXCEPT ![t] = "idle"]
          /\ seen' = [seen EXCEPT ![t] = NoAnchor]
      BY <2>7, <3>1 DEF VerifySnapshot, Goto
    <3> QED BY <1>w, <1>0, <2>1, <3>2 DEF Undisturbed, NoFalseAlarm
  <2>8. ASSUME NEW t \in Threads, NEW mode \in StartupModes, VerifyStartup(t, mode)
        PROVE  Undisturbed'
    <3>1. MetadataIntact /\ (~encrypted => VerifyPlaintextIncremental(db)) /\ VerifyInner(db, anchor)
      BY <2>1, <2>2, <2>a DEF MetadataIntact, VerifyPlaintextIncremental
    <3>2. db.events = <<>> => ~AnchorAheadOfEmpty(anchor)
      <4>1. db.events = <<>> => Len(anchor.hash) = 0
        BY <1>1, <2>1 DEF Prefix
      <4>2. Len(anchor.hash) = 0 => anchor.hash = <<>>
        BY <1>1, EmptySeq
      <4> QED BY <4>1, <4>2 DEF AnchorAheadOfEmpty
    <3>3. StartupOpen \/ StartupCheckpoint(t)
      BY <2>8, <3>1, <3>2 DEF VerifyStartup
    <3>4. UNCHANGED <<db, seen, anchor, reason>> /\ (pc' = pc \/ pc' = [pc EXCEPT ![t] = "anchoring"])
      BY <2>8, <3>3 DEF VerifyStartup, StartupOpen, StartupCheckpoint, Goto
    <3> QED BY <1>w, <1>0, <2>1, <3>4 DEF Undisturbed, NoFalseAlarm
  <2>9. CASE Crash
    <3>1. UNCHANGED <<db, anchor>> /\ reason' = "none" /\ pc' = [t \in Threads |-> "idle"]
      BY <2>9 DEF Crash
    <3> QED BY <1>w, <2>1, <3>1 DEF Undisturbed, NoFalseAlarm
  <2>10. CASE Restore \/ \E i \in Rows : Damage(i)
    <3>1. faults' = 1
      BY <1>5, <2>10 DEF Restore, Damage
    <3> QED BY <3>1 DEF Undisturbed
  <2>11. ASSUME NEW t \in Threads, ThreadNext(t), ~AppendCommit(t), ~StoreAnchor(t), ~CommitCheckpoint(t),
                ~VerifyLoadAnchor(t), ~VerifySnapshot(t), ~ProjectionNext(t),
                ~\E mode \in StartupModes : VerifyStartup(t, mode)
        PROVE  Undisturbed'
    <3>1. ~AppendDamaged(t) /\ ~MetadataDamaged(t) /\ ~ReadDamaged(t) /\ ~QuarantineFlag(t) /\ ~QuarantineAnchor(t)
      BY <2>1 DEF AppendDamaged, MetadataDamaged, ReadDamaged, QuarantineFlag, QuarantineAnchor, MetadataIntact
    <3>2. /\ UNCHANGED <<db, anchor, seen>> /\ reason' \in {reason, "adapter"}
          /\ \E l \in {"idle", "appending", "checkpoint", "anchoring"} : pc' = pc \/ pc' = [pc EXCEPT ![t] = l]
      BY <2>11, <3>1
         DEF ThreadNext, Proceed, AppendLock, AppendEvent, AppendAbort, AppendReturn, AppendCheckpoint,
             CheckpointCall, CheckpointRefused, CheckpointEmpty, CheckpointLock, CheckpointReturn,
             CheckpointFails, Goto
    <3> QED BY <1>w, <1>0, <2>1, <3>2 DEF Undisturbed, NoFalseAlarm
  <2>12. CASE StartupFails \/ Backup \/ UNCHANGED vars
    <3>1. UNCHANGED <<db, anchor, seen, pc>> /\ reason' \in {reason, "adapter"}
      BY <2>12 DEF StartupFails, Backup, vars
    <3> QED BY <1>w, <2>1, <3>1 DEF Undisturbed, NoFalseAlarm
  <2>13. ASSUME NEW t \in Threads, ProjectionNext(t)
         PROVE  Undisturbed'
    <3>1. /\ db'.events = db.events /\ db'.checkpoint = db.checkpoint /\ db'.damaged = db.damaged
          /\ UNCHANGED <<anchor, seen, pc, reason>>
      BY <2>13, ProjectionKeeps DEF Inductive
    <3> QED BY <1>w, <2>1, <3>1 DEF Undisturbed, NoFalseAlarm
  <2> QED BY <2>3, <2>4, <2>5, <2>6, <2>7, <2>8, <2>9, <2>10, <2>11, <2>12, <2>13 DEF Next, Environment
<1> QED BY <1>3, <1>4, <1>5

(* A journal nothing has damaged is never quarantined, wherever a crash,   *)
(* a checkpoint beside a verification, a projection's page or a restart    *)
(* falls, unless a retry projection has counted past the head.             *)
THEOREM FalseAlarms == Spec => []NoFalseAlarm
<1>1. Init => Undisturbed /\ Following
  <2> SUFFICES ASSUME Init PROVE Undisturbed /\ Following
    OBVIOUS
  <2>1. Prefix(<<>>, <<>>)
    BY DEF Prefix
  <2>2. /\ db.events = <<>> /\ backup.events = <<>>
        /\ \A p \in Projections : db.positions[p] = 0 /\ backup.positions[p] = 0
    BY DEF Init, NewDatabase
  <2>3. Following
    BY <2>2, CountingAssumption DEF Following, RetriesWithin
  <2> QED BY <2>1, <2>3 DEF Init, Undisturbed, NoFalseAlarm, NewDatabase, NoAnchor
<1>2. Inductive /\ Following /\ [Next]_vars => Following'
  BY FollowingStep
<1>3. (/\ Inductive /\ Inductive' /\ AllGapless /\ Following /\ Undisturbed
       /\ [Next]_vars)
        => Undisturbed'
  BY UndisturbedStep
<1>4. Undisturbed => NoFalseAlarm
  BY DEF Undisturbed, NoFalseAlarm
<1> QED BY <1>1, <1>2, <1>3, <1>4, Invariance, AlwaysGapless, PTL DEF Spec

-----------------------------------------------------------------------------
(* A quarantine lifted. *)

(* Nobody serves under a quarantined anchor, and only the startup of a     *)
(* database that has verified as a whole is about to replace one.          *)
QuarantineHeld ==
    /\ anchor.status # "Absent" => anchor.hash # <<>>
    /\ phase = "open" /\ reason = "none" => anchor.status # "Quarantined"
    /\ \A t \in Threads :
         /\ phase = "starting" => pc[t] \in {"idle", "anchoring", "committing"}
         /\ pc[t] = "anchoring" =>
              /\ db.events # <<>>
              /\ anchor.status = "Quarantined" =>
                   phase = "starting" /\ caller[t] = "startup" /\ VerifyInner(db, anchor)
         /\ pc[t] = "committing" => anchor.status = "Verified"
         /\ pc[t] = "quarantining" => reason # "none"

(* The steps that leave the database and the anchor alone, startup aside. *)
LEMMA QuarantineHeldQuiet ==
  ASSUME Inductive, QuarantineHeld, NEW t \in Threads, UNCHANGED <<db, anchor>>,
         NEW l \in Pcs, Goto(t, l), l \notin {"committing", "quarantining"},
         phase = "open" /\ phase' = "open" /\ UNCHANGED <<reason, caller>>,
         l = "anchoring" => db.events # <<>> /\ anchor.status # "Quarantined"
  PROVE  QuarantineHeld'
<1>1. pc'[t] = l /\ \A u \in Threads \ {t} : pc'[u] = pc[u]
  BY DEF Inductive, TypeOK, Goto
<1> QED BY <1>1 DEF QuarantineHeld

LEMMA QuarantineHeldStep ==
  ASSUME Inductive, QuarantineHeld, [Next]_vars
  PROVE  QuarantineHeld'
<1>0. /\ pc \in [Threads -> Pcs] /\ caller \in [Threads -> {"client", "append", "startup"}]
      /\ anchor \in SecureAnchor /\ phase \in {"down", "starting", "open"}
  BY DEF Inductive, TypeOK
<1>a. \A t \in Threads : pc[t] \notin {"idle", "anchoring", "committing"} => phase = "open"
  BY <1>0 DEF QuarantineHeld, Inductive, NothingWhileDown
<1>1. ASSUME NEW t \in Threads,
             \/ AppendLock(t) \/ AppendDamaged(t) \/ AppendAbort(t) \/ AppendReturn(t)
             \/ VerifyLoadAnchor(t) \/ VerifySnapshot(t) \/ ReadDamaged(t) \/ CheckpointLock(t)
      PROVE  QuarantineHeld'
  <2>1. phase = "open"
    BY <1>1, <1>a DEF AppendLock, AppendDamaged, AppendAbort, AppendReturn,
       VerifyLoadAnchor, VerifySnapshot, ReadDamaged, CheckpointLock
  <2>2. CASE CheckpointLock(t)
    <3>1. db.events # <<>> /\ anchor.status # "Quarantined"
      BY <2>1, <2>2 DEF CheckpointLock, MayMutate, recovering, QuarantineHeld
    <3>2. "anchoring" \in Pcs
      BY DEF Pcs
    <3> QED BY <2>1, <2>2, <3>1, <3>2, QuarantineHeldQuiet DEF CheckpointLock
  <2>3. CASE ~CheckpointLock(t)
    <3>1. /\ UNCHANGED <<db, anchor, reason, caller>> /\ phase' = "open"
          /\ \E l \in {"idle", "appending", "verifying", "failed"} : Goto(t, l)
      BY <1>1, <2>1, <2>3 DEF AppendLock, AppendDamaged, AppendAbort, AppendReturn,
         VerifyLoadAnchor, VerifySnapshot, ReadDamaged
    <3>2. {"idle", "appending", "verifying", "failed"} \subseteq Pcs
      BY DEF Pcs
    <3> QED BY <2>1, <3>1, <3>2, QuarantineHeldQuiet
  <2> QED BY <2>2, <2>3
<1>2. ASSUME NEW t \in Threads, AppendCheckpoint(t) \/ CheckpointCall(t) \/ MetadataDamaged(t)
      PROVE  QuarantineHeld'
  <2>1. phase = "open"
    BY <1>2, <1>a DEF AppendCheckpoint, CheckpointCall, MetadataDamaged
  <2>2. /\ UNCHANGED <<db, anchor, reason, phase>>
        /\ \A u \in Threads : pc'[u] = pc[u] \/ pc'[u] \in {"checkpoint", "failed"}
    BY <1>0, <1>2 DEF AppendCheckpoint, CheckpointCall, MetadataDamaged, Goto
  <2> QED BY <2>1, <2>2 DEF QuarantineHeld
<1>3. ASSUME NEW t \in Threads, NEW s \in Streams, NEW e \in 0..MaxEvents, AppendEvent(t, s, e)
      PROVE  QuarantineHeld'
  BY <1>3 DEF AppendEvent, QuarantineHeld
<1>4. ASSUME NEW t \in Threads, AppendCommit(t)
      PROVE  QuarantineHeld'
  <2>1. writer = t /\ \A u \in Threads : u # t => pc[u] \notin {"anchoring", "committing"}
    BY <1>4 DEF AppendCommit, Inductive, MutexProtects
  <2>2. /\ UNCHANGED <<anchor, reason, phase, caller>> /\ pc'[t] = "appended"
        /\ \A u \in Threads \ {t} : pc'[u] = pc[u]
    BY <1>0, <1>4 DEF AppendCommit, Goto
  <2>3. phase = "open"
    BY <1>4, <1>a DEF AppendCommit
  <2> QED BY <2>1, <2>2, <2>3 DEF QuarantineHeld
<1>5. ASSUME NEW t \in Threads, StoreAnchor(t)
      PROVE  QuarantineHeld'
  <2>1. writer = t /\ \A u \in Threads : u # t => pc[u] \notin {"anchoring", "committing"}
    BY <1>5 DEF StoreAnchor, Inductive, MutexProtects
  <2>2. /\ anchor'.status = "Verified" /\ anchor'.hash = db.events /\ db.events # <<>>
        /\ UNCHANGED <<db, reason, phase, caller>> /\ pc'[t] = "committing"
        /\ \A u \in Threads \ {t} : pc'[u] = pc[u]
    BY <1>0, <1>5 DEF StoreAnchor, Goto, QuarantineHeld
  <2> QED BY <2>1, <2>2 DEF QuarantineHeld
<1>6. ASSUME NEW t \in Threads,
             CheckpointRefused(t) \/ CheckpointEmpty(t) \/ CommitCheckpoint(t) \/ CheckpointFails(t)
      PROVE  QuarantineHeld'
  <2>1. /\ anchor' = anchor /\ phase' = "open" /\ pc'[t] = "idle"
        /\ \A u \in Threads \ {t} : pc'[u] = pc[u] /\ caller'[u] = caller[u]
        /\ reason' \in {reason, "adapter"}
    BY <1>0, <1>6 DEF CheckpointRefused, CheckpointEmpty, CommitCheckpoint, CheckpointFails,
       CheckpointReturn, Goto
  <2>2. db'.events = db.events
    BY <1>6 DEF CheckpointRefused, CheckpointEmpty, CommitCheckpoint, CheckpointFails,
       Inductive, TypeOK, Database
  <2>3. reason' = "none" => anchor.status # "Quarantined"
    <3>1. CASE CheckpointRefused(t)
      BY <3>1 DEF CheckpointRefused, CheckpointReturn, recovering
    <3>2. CASE CheckpointEmpty(t)
      BY <1>a, <3>2 DEF CheckpointEmpty, CheckpointReturn, MayMutate, recovering, QuarantineHeld
    <3>3. CASE CommitCheckpoint(t)
      BY <3>3 DEF CommitCheckpoint, QuarantineHeld
    <3>4. CASE CheckpointFails(t)
      BY <3>4 DEF CheckpointFails, CheckpointReturn, QuarantineHeld
    <3> QED BY <1>6, <3>1, <3>2, <3>3, <3>4
  <2>4. ASSUME NEW u \in Threads, u # t, pc[u] = "anchoring"
        PROVE  anchor.status # "Quarantined"
    <3>1. writer = u
      BY <2>4 DEF Inductive, MutexProtects
    <3>2. CASE CommitCheckpoint(t) \/ CheckpointFails(t)
      BY <2>4, <3>1, <3>2 DEF CommitCheckpoint, CheckpointFails, Inductive, MutexProtects
    <3>3. CASE CheckpointRefused(t) \/ CheckpointEmpty(t)
      BY <2>4, <3>1, <3>3, ThreadsAssumption DEF CheckpointRefused, CheckpointEmpty, MayMutate
    <3> QED BY <1>6, <3>2, <3>3
  <2> QED BY <2>1, <2>2, <2>3, <2>4 DEF QuarantineHeld
<1>7. ASSUME NEW t \in Threads, QuarantineFlag(t)
      PROVE  QuarantineHeld'
  <2>1. /\ UNCHANGED <<db, anchor, phase, caller>> /\ reason' = "verification" /\ pc'[t] = "quarantining"
        /\ \A u \in Threads \ {t} : pc'[u] = pc[u]
    BY <1>0, <1>7 DEF QuarantineFlag, Goto
  <2>2. phase = "open"
    BY <1>7, <1>a DEF QuarantineFlag
  <2> QED BY <2>1, <2>2 DEF QuarantineHeld
<1>8. ASSUME NEW t \in Threads, QuarantineAnchor(t)
      PROVE  QuarantineHeld'
  <2>1. /\ UNCHANGED <<db, phase, caller, reason>> /\ reason # "none" /\ phase = "open" /\ pc'[t] = "idle"
        /\ \A u \in Threads \ {t} : pc'[u] = pc[u]
    BY <1>0, <1>8, <1>a DEF QuarantineAnchor, Goto, QuarantineHeld
  <2>2. \A u \in Threads : pc[u] \notin {"anchoring", "committing"}
    BY <1>8, ThreadsAssumption DEF QuarantineAnchor, Inductive, MutexProtects
  <2>3. anchor'.hash = anchor.hash /\ (anchor'.status # "Absent" => anchor.status # "Absent")
    BY <1>0, <1>8 DEF QuarantineAnchor, Quarantined, SecureAnchor
  <2> QED BY <2>1, <2>2, <2>3 DEF QuarantineHeld
<1>9. ASSUME NEW t \in Threads, NEW mode \in StartupModes, VerifyStartup(t, mode)
      PROVE  QuarantineHeld'
  <2>1. db' = db /\ \A u \in Threads : pc[u] = "idle"
    BY <1>9 DEF VerifyStartup, Inductive, NothingWhileDown
  <2>2. CASE StartupQuarantine
    <3>1. anchor'.hash = anchor.hash /\ (anchor'.status # "Absent" => anchor.status # "Absent")
      BY <1>0, <2>2 DEF StartupQuarantine, Quarantined, SecureAnchor
    <3> QED BY <2>1, <2>2, <3>1 DEF StartupQuarantine, QuarantineHeld
  <2>3. CASE StartupOpen
    <3>1. anchor.status # "Quarantined" \/ StartupQuarantine
      <4>1. ~encrypted => anchor.status = "Absent"
        BY <1>0 DEF Inductive, HeldIsAnchored, QuarantineHeld
      <4>2. db.events = <<>> =>
              anchor.status # "Quarantined" \/ AnchorAheadOfEmpty(anchor)
        BY DEF AnchorAheadOfEmpty, QuarantineHeld
      <4>3. ~StartupCheckpoint(t)
        BY <2>3 DEF StartupOpen, StartupCheckpoint
      <4> QED BY <1>9, <4>1, <4>2, <4>3 DEF VerifyStartup, TrustedIncremental
    <3>2. CASE anchor.status # "Quarantined"
      BY <2>1, <2>3, <3>2 DEF StartupOpen, QuarantineHeld
    <3> QED BY <2>2, <3>1, <3>2
  <2>4. CASE StartupCheckpoint(t)
    <3>1. ~StartupOpen /\ ~StartupQuarantine
      BY <2>4 DEF StartupOpen, StartupQuarantine, StartupCheckpoint
    <3>2. db.events # <<>> /\ (anchor.status = "Quarantined" => VerifyInner(db, anchor))
      BY <1>9, <3>1 DEF VerifyStartup, TrustedIncremental
    <3>3. /\ phase' = "starting" /\ anchor' = anchor /\ caller'[t] = "startup" /\ pc'[t] = "anchoring"
          /\ \A u \in Threads \ {t} : pc'[u] = pc[u]
      BY <1>0, <2>4 DEF StartupCheckpoint, Goto
    <3> QED BY <2>1, <3>2, <3>3 DEF QuarantineHeld
  <2> QED BY <1>9, <2>2, <2>3, <2>4 DEF VerifyStartup
<1>10. CASE Environment
  <2>1. CASE Crash
    BY <2>1 DEF Crash, QuarantineHeld
  <2>2. CASE StartupFails
    BY <2>2 DEF StartupFails, QuarantineHeld, Inductive, NothingWhileDown
  <2>3. CASE Backup
    BY <2>3 DEF Backup, QuarantineHeld
  <2>4. CASE Restore
    BY <2>4 DEF Restore, QuarantineHeld, Inductive, NothingWhileDown
  <2>5. ASSUME NEW i \in Rows, Damage(i)
        PROVE  QuarantineHeld'
    <3>1. /\ db'.events = db.events /\ phase # "starting"
          /\ UNCHANGED <<anchor, phase, reason, pc, caller>>
      BY <2>5 DEF Damage, Inductive, TypeOK, Database
    <3> QED BY <3>1 DEF QuarantineHeld
  <2> QED BY <1>10, <2>1, <2>2, <2>3, <2>4, <2>5 DEF Environment
<1>11. CASE UNCHANGED vars
  BY <1>11 DEF vars, QuarantineHeld
<1>12. ASSUME NEW t \in Threads, ProjectionNext(t)
       PROVE  QuarantineHeld'
  <2>1. /\ db'.events = db.events /\ phase = "open" /\ phase' = "open"
        /\ UNCHANGED <<anchor, reason, pc, caller>>
    BY <1>12, ProjectionKeeps DEF Inductive
  <2> QED BY <2>1 DEF QuarantineHeld
<1> QED BY <1>1, <1>2, <1>3, <1>4, <1>5, <1>6, <1>7, <1>8, <1>9, <1>10, <1>11, <1>12
        DEF Next, ThreadNext, Proceed

(* Nothing but a checkpoint trusts an anchor again. *)
LEMMA LiftStep ==
  ASSUME Inductive, QuarantineHeld, [Next]_vars, anchor.status = "Quarantined",
         anchor'.status = "Verified"
  PROVE  VerifyInner(db, anchor)
<1>1. anchor \in SecureAnchor
  BY DEF Inductive, TypeOK
<1>2. anchor' # anchor /\ anchor' \notin Quarantined(anchor)
  BY <1>1 DEF Quarantined, SecureAnchor
<1>3. ASSUME NEW t \in Threads, StoreAnchor(t)
      PROVE  VerifyInner(db, anchor)
  BY <1>3 DEF StoreAnchor, QuarantineHeld
<1>4. ASSUME NEW t \in Threads, ThreadNext(t)
      PROVE  StoreAnchor(t)
  <2>1. CASE \E mode \in StartupModes : VerifyStartup(t, mode)
    BY <1>2, <2>1 DEF VerifyStartup, StartupOpen, StartupQuarantine, StartupCheckpoint
  <2>2. CASE ProjectionNext(t)
    BY <1>2, <2>2, ProjectionKeeps DEF Inductive
  <2>3. CASE ~(\E mode \in StartupModes : VerifyStartup(t, mode)) /\ ~ProjectionNext(t)
    BY <1>2, <1>4, <2>3
       DEF ThreadNext, Proceed, AppendLock, AppendEvent, AppendCommit,
           AppendAbort, AppendReturn, AppendCheckpoint, CheckpointCall,
           CheckpointRefused, CheckpointEmpty, CheckpointLock, CommitCheckpoint,
           CheckpointFails, VerifyLoadAnchor, VerifySnapshot, ReadDamaged,
           AppendDamaged, MetadataDamaged, QuarantineFlag, QuarantineAnchor
  <2> QED BY <2>1, <2>2, <2>3
<1>5. ~Environment /\ ~UNCHANGED vars
  BY <1>2 DEF Environment, StartupFails, Crash, Backup, Restore, Damage, vars
<1> QED BY <1>3, <1>4, <1>5 DEF Next

(* A quarantined anchor is trusted again only over a database that has     *)
(* verified from end to end, never by a checkpoint that was already        *)
(* running when the damage was found.                                      *)
THEOREM QuarantineLifts == Spec => QuarantineLiftedOnlyWhenIntact
<1>1. Init => QuarantineHeld
  BY DEF Init, QuarantineHeld, NoAnchor
<1>2. Inductive /\ QuarantineHeld /\ [Next]_vars => QuarantineHeld'
  BY QuarantineHeldStep
<1>3. Inductive /\ QuarantineHeld /\ [Next]_vars =>
        [anchor.status = "Quarantined" /\ anchor'.status = "Verified"
           => VerifyInner(db, anchor)]_vars
  BY LiftStep
<1> QED BY <1>1, <1>2, <1>3, Invariance, PTL DEF Spec, QuarantineLiftedOnlyWhenIntact

-----------------------------------------------------------------------------
(* The journal implements its port. *)

(* A beginning that is as long as the whole is the whole. *)
LEMMA PrefixWhole ==
  ASSUME NEW S, NEW k \in Seq(S), NEW l \in Seq(S), Prefix(k, l),
         Len(l) <= Len(k)
  PROVE  k = l
BY SeqEqual DEF Prefix

(* The port counts a stream's records as the journal does. *)
LEMMA LogWellVersioned ==
  ASSUME NEW l, WellVersioned(l)
  PROVE  Log!WellVersioned(l)
<1>1. \A S : Log!Cardinality(S) = Cardinality(S)
  BY DEF Log!Cardinality, Cardinality
<1>2. \A s, n : Log!CountIn(l, s, n) = CountIn(l, s, n)
  BY <1>1 DEF Log!CountIn, CountIn
<1> QED BY <1>2 DEF Log!WellVersioned, WellVersioned

(* Appends are admitted, or one that was admitted is under way. *)
Accepting == phase = "open" /\ (reason = "none" \/ writer # NoThread)

(* A step that touches neither the log nor the anchored history opens or   *)
(* closes the journal at most, and opens it only over anchored history.    *)
LEMMA QuietStep ==
  ASSUME Inductive', UNCHANGED <<db.events, anchor.hash>>
  PROVE  [Log!Next]_(Log!elVars)
<1>1. Accepting' => Prefix(anchor.hash, db.events)
  BY DEF Accepting, Inductive, HeldIsAnchored, WritableIsAnchored
<1>2. CASE Accepting /\ ~Accepting'
  BY <1>2 DEF Accepting, Log!Next, Log!Close
<1>3. CASE ~Accepting /\ Accepting'
  BY <1>1, <1>3 DEF Accepting, Log!Next, Log!Open, Log!Prefix, Prefix
<1>4. CASE Accepting <=> Accepting'
  BY <1>4 DEF Accepting, Log!elVars
<1> QED BY <1>2, <1>3, <1>4

(* Every step of the journal is a step of the log it implements, or none.  *)
LEMMA RefinementStep ==
  ASSUME Inductive, Inductive', AllGapless, [Next]_vars
  PROVE  [Log!Next]_(Log!elVars)
<1>1. ASSUME NEW t \in Threads, AppendCommit(t)
      PROVE  [Log!Next]_(Log!elVars)
  <2>1. db'.events = tx.events /\ anchor' = anchor
    BY <1>1 DEF AppendCommit, Inductive, TypeOK, Database
  <2>2. writer = t /\ phase = "open" /\ Prefix(db.events, tx.events)
    BY <1>1 DEF AppendCommit, Inductive, MutexProtects
  <2>3. db.events \in Seq(Record) /\ tx.events \in Seq(Record)
    BY DEF Inductive, TypeOK, Database
  <2>4. CASE Len(tx.events) > Len(db.events)
    <3>1. Accepting
      BY <2>2, ThreadsAssumption DEF Accepting
    <3>2. Log!WellVersioned(tx.events)
      BY LogWellVersioned DEF AllGapless, Gapless
    <3> QED
      BY <2>1, <2>2, <2>4, <3>1, <3>2
         DEF Accepting, Log!Next, Log!AppendBatch, Log!Prefix, Prefix
  <2>5. CASE ~(Len(tx.events) > Len(db.events))
    <3>1. tx.events = db.events
      BY <2>2, <2>3, <2>5, PrefixWhole
    <3> QED BY <2>1, <3>1, QuietStep
  <2> QED BY <2>4, <2>5
<1>2. ASSUME NEW t \in Threads, StoreAnchor(t)
      PROVE  [Log!Next]_(Log!elVars)
  <2>1. anchor'.hash = db.events /\ UNCHANGED <<db, phase, reason, writer>>
    BY <1>2 DEF StoreAnchor
  <2>2. Prefix(anchor.hash, db.events)
    BY <1>2, ThreadsAssumption
       DEF StoreAnchor, Inductive, MutexProtects, HeldIsAnchored
  <2> QED BY <2>1, <2>2 DEF Log!Next, Log!Anchor, Log!Prefix, Prefix
<1>3. CASE Restore
  <2>1. /\ phase = "down" /\ db'.events = backup.events
        /\ UNCHANGED <<anchor, phase, reason, writer>>
    BY <1>3 DEF Restore
  <2>2. Log!WellVersioned(backup.events)
    BY LogWellVersioned DEF AllGapless, Gapless
  <2> QED BY <2>1, <2>2 DEF Log!Next, Log!Restore
<1>4. CASE ~Restore /\ \A t \in Threads : ~AppendCommit(t) /\ ~StoreAnchor(t)
  BY <1>4, LogKept, QuietStep
<1> QED BY <1>1, <1>2, <1>3, <1>4 DEF Next

(* The redb journal keeps the promise of its port: crashes, quarantine,    *)
(* startup repair and concurrent callers included, it is an append-only    *)
(* log with gapless streams that accepts writes only over anchored         *)
(* history.                                                                *)
THEOREM Refinement == Spec => ImplementsEventLog
<1>1. Init => Log!Init
  BY DEF Init, Log!Init, NewDatabase, NoAnchor
<1>2. /\ Inductive /\ Inductive' /\ AllGapless /\ [Next]_vars
        => [Log!Next]_(Log!elVars)
  BY RefinementStep
<1> QED
  BY <1>1, <1>2, Invariance, AlwaysGapless, PTL
     DEF Spec, ImplementsEventLog, Log!Spec
=============================================================================
