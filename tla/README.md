# Verification of Colossus

Colossus runs agents: a runtime drives model and tool calls, a policy decides
every external effect, and an event journal is the one durable authority from
which everything else (projections, sessions, work records, audit evidence) is
rebuilt. This directory holds TLA+ models of the parts of that system whose
correctness depends on order, concurrency and crashes, the TLC runs that check
them on small instances, and TLAPS proofs about all of them.

    tlc -workers 2 -config RedbJournalSafety.cfg MCRedbJournal    # one run
    tlapm RedbJournalProofs.tla                                   # the proofs

`PROJECT.json` maps every definition to the lines it models, lists the runs,
a mutant of the code for each checked property, the hazards and the finding.

## 1. Inventory

| Component | State it keeps | Operations | Hard behaviour | Correct when |
|---|---|---|---|---|
| redb event journal (`colossus-journal-redb`) | database file (events, stream versions, metadata, outbox, projections), secure anchor outside it, recovery mode, writer mutex | append, checkpoint, verify, reads, startup | threads sharing one journal, crash between anchor and checkpoint, damaged rows, restored copies | append-only, gapless streams, writable only over anchored history, no false alarm |
| PostgreSQL journal (`colossus-journal-postgres`) | the same in SQL, guarded by a transaction fence | append under fence, projection batches one by one | two writers across a lease change | only the lease owner writes |
| effect gateway (`colossus-policy`) | stream `effect:<id>` per request, stream sink, permits | execute, execute_stream | stale decisions, timeouts, ownership loss during execution, chunked release | nothing starts unauthorised, nothing leaves without evidence, closed once |
| startup effect recovery (`colossus-runtime`) | none beyond the journal | recover_unknown_effects | a previous owner still running | no effect left open by an earlier owner |
| hosted lease, gate and edit (`colossus-cloud-postgres`, `colossus-cloud-server`) | partition lease with generation, project gate, management request, stored and cached configuration | claim, verify, release, stop on request, admit a task, edit a configuration | delayed release, write after expiry, edit racing a starting runtime or an admission | one generation writes at a time, an edit excludes runtimes and tasks |
| external work queue (`colossus-projection`) | position, retry state and its own position | pending, acknowledge, record and clear failure, reset | two-transaction reset, failure inside a batch | at least once, unknown outcomes block |
| audit export (`colossus-audit`) | none beyond the queue | drain, run_once, status, reset | crash between export and acknowledgement, exports that produce events | nothing skipped, catches up |
| projection worker (`colossus-projection`) | records and positions in the journal's store, operation gate, staged overlay | drain, rebuild, status | page read before and applied after, several processes, batches applied one by one | state equals a replay, drains reach the head |
| memory index (`colossus-memory`) | disposable index with its position, queue position, retry state | sync, rebuild, canonical edits | crash between index checkpoint and acknowledgement, overlapping syncs | caught up means current |
| plans and goals (`colossus-work`, `colossus-runtime`) | plan, goal and run records | create, edit, approve, discard, execute, hand over to a goal; reserve an iteration, report a status | read, check and append are apart; several callers, processes and crashes | an approval is used once, an iteration slot is run once |
| subagents and child inboxes (`colossus-runtime`, `colossus-work`, `colossus-communication`) | job record, attempts with their inboxes, receipts, scope byte count, child runs | delegate, drain, cancel, requeue, send, include, complete, close, recover | cancellation against a running child, message against the last look at an inbox, an aborted drain, a crash | a message is in one place with one final receipt, nothing waits for ever |
| workflow engine, agent loop, API | event streams in the journal | schedule, claim, step | crash during a step, duplicate delivery | each step at most once, none forgotten |
| worker host (`colossus-worker`) | maintenance lock | background drain, requests | one failing drain starves the rest | every consumer eventually drained |
| policy kernel, adapters, sandbox, UI, SDKs | little or none | pure decisions, input/output | - | functional tests |

Interactions. The gateway appends to the journal and, hosted, asks the fence
before each append and on every tick of a running adapter. Recovery scans the
`effect:` streams of the journal before the runtime opens
(`runtime_helpers.rs:47-119`). The audit export and the memory index read
the outbox through the external work queue; the export works through the gateway,
which appends to the same journal, and writes its position and retry state into
the journal's projection tables, where the journal's verification reads them.
Work records and inboxes are streams of the journal: a transition of a child job
and the change of its inbox are one batch. Drains and resets share the worker's
maintenance lock, rebuilds and drains of projections the worker's operation gate.

## 2. Modules

| Module | Models | Extends / instantiates |
|---|---|---|
| `RecordLog` | operators on a log of records | - |
| `EventLog` | the promise of the port `EventJournal` (abstract) | `RecordLog` |
| `RedbJournal` | the redb journal | `RecordLog`; `EventLog` by refinement mapping |
| `RedbJournalProofs` | theorems about `RedbJournal` | `RedbJournal` |
| `EffectGateway` | gateway, ownership and startup recovery | - |
| `EffectGatewayProofs` | theorems about `EffectGateway` | `EffectGateway` |
| `AuditExport` | audit export over the external work queue | - |
| `AuditExportProofs` | theorems about `AuditExport` | `AuditExport` |
| `ProjectionWorker` | projection worker, overlay, store, rebuild | - |
| `ProjectionWorkerProofs` | theorems about `ProjectionWorker` | `ProjectionWorker` |
| `MemoryIndex` | memory index over the external work queue | - |
| `MemoryIndexProofs` | theorems about `MemoryIndex` | `MemoryIndex` |
| `HostedLease` | lease, fence, project gate, admission and configuration edit | - |
| `HostedLeaseProofs` | theorems about `HostedLease` | `HostedLease` |
| `WorkPlans` | plan lifecycle, execution and hand-over to a goal | - |
| `WorkGoals` | goal iterations and status reports | - |
| `WorkProofs` | theorems about plans and about goals | `WorkPlans`, `WorkGoals` |
| `Subagents` | child jobs, the drain, child runs and their inboxes | - |
| `SubagentsProofs` | theorems about `Subagents` | `Subagents` |
| `MC...` | instances and symmetry sets for TLC | the module they are named after |

Operators marked "Mutant" are plausible bugs of the definition that follows
them; no specification uses them.

### RedbJournal

`db` is the file; `anchor` the key provider's `SecureAnchor`; `tx` the open
write transaction; `pc[t]` is where thread `t` stands between two steps that
another thread, or a crash, can separate. The hash chain is represented by the
prefix it covers, so comparing two hashes is comparing two prefixes. A damaged
row is a position in `db.damaged`, with 0 for the rows of `METADATA` and -1 for
those of `PROJECTION_RECORDS`. `db.positions` are the positions of projections,
which every verification compares with the head.

- `append_batch`: `AppendLock` (mutex, recovery mode looked at under it),
  `AppendEvent` per event, `AppendCommit` or `AppendAbort`, then `AppendReturn`,
  or `AppendCheckpoint` when 100 records have gathered or the last checkpoint is
  old. Age is not modelled as time: a checkpoint may be due at any append.
- `checkpoint_inner`: `CheckpointLock`, `StoreAnchor`, `CommitCheckpoint`;
  `CheckpointRefused`, `CheckpointEmpty`, `CheckpointFails` are its early returns.
- `quarantine_result`: `QuarantineFlag` sets recovery mode, `QuarantineAnchor`
  waits for the mutex. It is reached from `verify`, from reads (`ReadDamaged`),
  from append and from checkpoint (`AppendDamaged`, `MetadataDamaged`).
- `ProjectionStore`: `ApplyProjection` and `ResetProjection`, one transaction under
  the mutex, in recovery mode too. A projection follows the outbox, or is one of
  `Counting`, the retry projections, whose position goes up by one with each failure
  recorded or cleared (`external_work.rs:291`). The ghost `overtaken` remembers
  whether a retry projection has ever been beyond the head.
- `verify_startup`: `VerifyStartup`, with its four ways to verify; the opening
  thread goes on to a checkpoint through the same actions as any other.
- Environment: `Crash`, `Damage`, `Backup` and `Restore` (an operator puts an
  older copy of the file back while the process is down), `StartupFails`. A row
  does not go bad between the verification of a startup and its checkpoint, and a
  copy is taken only while it can still be put back.

Whether the journal is encrypted is chosen when it is created (`Protections`);
each startup chooses how to verify it (`StartupModes`), as a configuration does.

Left out: payload encryption, the one-off rebuild of the stream index, the append
that finds its version already indexed (`append.rs:88`, which an index in step
with the events never gives), and what projections record (in `ProjectionWorker` and
`AuditExport`). A start that fails on undecodable metadata before it verifies
(`journal.rs:101`) leaves the journal down, which is no step.

### EffectGateway

One call per request, and incarnations of the runtime that own the journal one
after the other. `todo` holds the events a call is about to append; `EventRead`
and `EventAppend` are the two halves of `event()`, between which another owner
may act. Two owner checks that directly follow each other (gateway.rs:785 and
fence.rs:36) are one step. Decisions, approvals and adapter results are
nondeterministic. The lease is reduced to its current owner; how owners change is
`HostedLease`. An append that fails has written nothing: one that is committed and
still returns an error (the checkpoint after it failed), and a storage error of the
fence while the owner still owns (`fence.rs:24`), are left out.

### AuditExport

An event is who caused it. `frame` holds the locals of a drain. The worker's
background drain and an operator's request are two callers of one lock. The
optimistic loops of `record_failure` and `clear_failure` are single steps: redb
has a single writer process and the lock serialises drains and resets in it.

### ProjectionWorker

The reducer is the effect-recovery projection: `rec[h][s]` is the last event of an
open effect. `frame[c]` holds the locals of a
round: the page of each handler, the overlay, the positions read. A deployment
chooses the process of each caller (the gate is per process) and whether
`apply_all` is one transaction (redb) or one per batch (PostgreSQL). The journal is
never in recovery mode here, so that conjunct of the status (`worker.rs:260`) is
left out.

### MemoryIndex

A journal event is a memory and whether it is active after it; `docs` the index,
`indexPos` and `queuePos` the two positions. A sync reads the position of the
queue and, in a second step, that of the index; pending, each upsert or removal,
the index checkpoint, the acknowledgement and each step of a rebuild are apart,
too. A fault is one the retry classification calls retryable or one it does not,
which blocks the queue until a rebuild. Canonical edits are single steps, and
ranking is left out.

### HostedLease

Attempts of replicas to run a project's partition, and edits of its
configuration. Time is nondeterministic (`Expire`, `ExpireRequest`), so a lease
may end at any step of its holder. `cache` is the configuration map of a replica;
`guard_admission` and the commit of a task are two steps that hold the gate row
when there is one (`GateRow`). `CheckIdle` is one read where
`active_project_run_status` (`host.rs:449-476`) makes five queries, between which a
run may change its status. An attempt reads the configuration and enters it in the
map in two steps; for an edit (`RefreshEdit`) they are one, because its publication
compares the revision it read.

### WorkPlans and WorkGoals

A service operation reads the record, checks, and asks the repository, which reads
again, checks again and appends with the version it read: three steps. A record
is the sequence of its revisions. In `WorkPlans` the caller of an execution starts
its run only after the consumption has been committed; in `WorkGoals` a driver
reserves a slot and then starts an iteration, and may stop in between. The names
of `WorkGoals` carry the prefix `Goal` where `WorkPlans` has the same one, so that
`WorkProofs` can extend both. Plans of revision zero, written before revisions were
recorded (`contracts/work.rs:127`), are left out.

### Subagents

`job[j]` is the job record, `inbox[j]` its attempts (participants), the last one
being the current. A service operation of the drain or of a caller is `Check`,
`Stage` and `Commit`, as `commit_subagent` makes them; `Commit` re-reads the job
and refuses, retries or applies the whole batch. The drain is its loop: `List`,
`StartNext`, `Prepare`, `Started`, `Notified`, `Join`, `LatestStatus`; an error
ends it and aborts its children (`DrainFails`, `Aborted`). A child run is what it
does with its inbox: bind, prepare, include, answer, close. `RunFails` stands for
every error and for the cancelled `RunControl`. The drain lists jobs newest first;
the model lists them in any order. Left out: jobs without an inbox, which a
delegation of a run without a participant queues (`participants.rs:173`,
`inbox.rs:130`), storage errors of the drain and children that panic
(`subagents.rs:138, 250`), inboxes of root runs, participants as senders, feeds and
replies, the bound of eight retries, and the total message count of a scope.

## 3. Runs

| Run | Bounds | Shows |
|---|---|---|
| `journal_safety` | 2 threads, 2 streams, 3 records, checkpoint every 2, 1 fault; encrypted and plaintext, both startup verifications | gapless streams, anchored and acknowledged history, the refinement of `EventLog` |
| `journal_liveness` | 2 threads, 1 record, 1 fault, a following and a retry projection with positions up to 2 | no false alarm but that of a retry projection; a quarantine is lifted only over an intact database; the mutex is given back; quarantine completes |
| `gateway_stream` | 1 streaming command with approval and risk review, 3 owners, 1 chunk | authorisation, evidence, takeover; launched calls return, recovery ends |
| `gateway_two_calls` | 2 plain calls, 2 owners, a recovery bound that can be exceeded | accounting and takeover with concurrent calls |
| `export` | 2 tasks, batches of 2, 2 failures, 1 crash, 1 reset | at least once; a recorded unknown outcome blocks; the consumer catches up or is blocked |
| `plans` | 3 callers, 1 plan, 4 revisions, 2 run ids | one approval, one consumer, the approved text |
| `goals` | 2 processes, 2 reporters, 3 slots, 5 records | each slot runs once; a terminal report stays |
| `memory_index` | 1 caller, 2 memories, 4 events and one of each disturbance, or 3 events, 2 crashes and 2 rebuilds; or 2 callers, 1 memory, 2 events with a failure and a rebuild, or a crash | caught up means current while syncs do not overlap; overlapping syncs may leave a stale document, but no acknowledged event unapplied; the queue is worked off, or waits for an operator |
| `projection` | 2 callers, 2 handlers, pages of 2; one process with a rebuild, a failure and a crash, or two processes | read models are replays; drains reach the head |
| `hosted_lease` | 2 replicas, 2 attempts, 1 edit; late writes, or a task, an expiry and a crash | fencing, release, exclusion by the gate; edits end |
| `subagents` | 1 caller, 2 slots, 2 turns; 2 jobs with a requeue, or 1 job and a full inbox, or 1 job with a requeue and a crash | messages accounted for, receipts final, inboxes closed and settled |
| `subagent_late_output` | 2 jobs, 1 caller, 1 requeue | the finding of section 5 |

A property that is a conjunction (`OutcomeAccounted`, `PlanConsumedOnce`,
`SlotUsedOnce`, `DeliveredAtLeastOnce`, `IndexFollowsQueue`, `ReadModelsAreExact`,
`OneGenerationWrites`, `EditExcludes`, `MessagesAccounted`, `InboxesSettle`) names
its parts, each of which is stated and commented on its own; most include the type
invariant.

Why these bounds. Two threads, tasks, callers or processes are every pair of
interleaved operations, and the mutex or lock admits no more than one at a time;
plans have three callers because an editor, an approver and a consumer differ.
Three records with a checkpoint every two give an empty tail, a tail of one and a
head equal to the checkpoint; one fault is one restore or one damage. Positions
up to 2 beside one record let a retry projection overtake the head and be reset,
which gives a quarantine and a database that verifies again. Batches and pages of two are the
smallest with an item that is not the first and an end that is not the head. Two
child slots are the smallest number with which a drain goes on while one child
runs; an inbox and a scope of two messages are full with three messages. Where
one instance with every disturbance would be too large, the initial state chooses
one of several budgets (`Budgets`, `Deployments`), each of which combines the
disturbances that meet. Counters are bounded in guards (`MaxEvents`,
`MaxPosition`, `MaxFaults`, `MaxGen`, `MaxChunks`, `budget`). Deadlock is not checked where a finite budget of
inputs lets the system come to rest.

Fairness. In the journal, only steps of a thread already inside a call are
weakly fair: the code has no wait in them but the mutex. In the gateway, weak
fairness covers its own steps, including the adapter's deadline (`Abandon`),
and a release decision, which the policy transport bounds by a timeout; the
adapter, approvals and new owners owe nothing. In the export, `Drain` is
strongly fair because the worker asks every second and the lock is a FIFO
`tokio` mutex. Projection drains and memory syncs are asked for again and again
by the maintenance interval and by every memory operation, and go on once begun.
In `HostedLease` the steps of an edit and of a starting attempt are fair, and a
request expires; the owner asked to stop owes nothing. In `Subagents` the drain is
called periodically, tasks are polled, and a process that stopped is started
again; senders and callers owe nothing. The background drain runs the drains one
after the other and stops at the first error (dispatch.rs:1082), so all of this
assumes that the drains before do not fail for ever. Failures and crashes are
finite.

## 4. Proofs

Each component below has an inductive invariant, `Inductive` (`GoalInductive` for
goals, and a second one, `Lossless`, for overlapping syncs of the memory index),
checked by TLC as an invariant of the runs of its component before it was proved; one lemma per action
shows that the action keeps it, and the theorems follow from it. All statements
hold for every number of threads, callers, calls, streams and events and for
every bound. Assumptions on constants are the named `ASSUME`s of the modules
(limits positive, bounds natural, sets finite, "nobody" values distinct).
The theorems with a hypothesis of their own say so below, each with the
configuration that refutes them without it.

### The journal (`RedbJournalProofs`)

- `TypeCorrect`: `[]TypeOK`
- `Anchored`: `[]WritableIsAnchored`
- `AnchorGrows`: `AnchoredHistoryGrows`
- `Versioned`: `[]StreamsGapless`
- `Refinement`: `Spec => ImplementsEventLog`
- `Survival`: `[]AcknowledgedSurvive`
- `FalseAlarms`: `[]NoFalseAlarm`
- `QuarantineLifts`: `QuarantineLiftedOnlyWhenIntact`

`Inductive` adds that whoever has a transaction or checkpoint open holds the mutex
and that an open transaction extends the log (`MutexProtects`); that nothing
survives a crash and startup holds the mutex while it checkpoints
(`NothingWhileDown`); and that the mutex is never held over a log that lost its
anchored beginning (`HeldIsAnchored`). Without the last, a checkpoint admitted
before a change of state could anchor a rewritten history. `AllGapless` adds that
the operator's copy and the open transaction are gapless too; it rests on how a
record appended changes the count of a stream. For the refinement, a step that
changes neither log nor anchored history can only open or close, and `Inductive`
in the new state says that opening happens over anchored history; the three
remaining steps (commit, anchoring, restore) map to the abstract ones.

`Survival` needs `Acknowledged`: an acknowledged record behind the anchor is the
anchored one, one beyond it is in the log, and an append that has committed but not
returned was committed over anchored history. `FalseAlarms` needs `Undisturbed`:
without faults the rows are whole, and the checkpoint, the anchor and any anchor a
verification has loaded vouch for beginnings of the log; with `AllGapless` these
checks cannot fail. For the check of positions it needs `Following`: a projection
that is not one of `Counting` is not ahead of the head. `NoFalseAlarm` excepts
executions in which a retry projection has overtaken the head (`overtaken`), and
`RedbJournalBackoff.cfg` shows that it must. `QuarantineLifts` needs
`QuarantineHeld`: nobody serves under a quarantined anchor, and only the startup of
a database that has verified as a whole is about to replace one.

### The gateway (`EffectGatewayProofs`)

- `EffectsAreAccountedFor`: `[]OutcomeAccounted`
- `StartsAreAuthorized`: `[]StartedIsAuthorized`
- `ReleasesAreEvidenced`: `[]ReleaseIsEvidenced`
- `TakeoversLeaveNothingOpen`: `[]TakeoverLeavesNothingOpen`

A call appends events that it prepared several steps earlier, to a stream to which
a later owner's recovery may have appended meanwhile, so the invariant relates
three things for each call: where it is, what it still means to say, and what is
in the stream (`CallOK`). Its parts: what waits to be appended, by place
(`ScriptOK`); how far stream and adapter are, by place (`PhaseOK`); what the
decisions and grants on the way to `effect.started` are (`AuthOK`); what must be on
record before output (`EvidenceOK`); and that a closed effect has nothing more to
say while its owner owns the journal (`CloseOK`). The fence does the rest: once
ownership moves on, an append of the old owner is refused, and `OwnersOK` and
`RecoveryOK` say which effects a recovery still has before it.

### Export (`AuditExportProofs`)

- `TypeCorrect`: `[]TypeOK`
- `AtLeastOnce`: `[]DeliveredAtLeastOnce`, that is, `TypeOK` and `NothingSkipped`
- `UnknownBlocks`: `[]RecordedUnknownBlocks`

The position moves forward only when a batch is acknowledged, so `NothingSkipped`
needs to know what the task holding that batch has done. `Inductive` adds that
whoever drains or resets holds the maintenance lock (`LockHeld`), hence every other
task is idle; that a drain has rounds left (`RoundsLeft`, needed for the type of
the count); and that the batch begins right after the position, lies within the
journal, and is done with up to the item the drain is at (`BatchInPlace`), which
survives events appended meanwhile since the journal and the deliveries only grow.
For the block, a recorded unknown outcome is the retry state itself, not retryable
and still pending, and no task is beyond the gate (`RecordedIsBlocking`); a reset
that has moved the position back but not yet cleared the retry state keeps it so.

### Projections (`ProjectionWorkerProofs`)

- `ReadModelsStayExact`: `RebuildsAreGated` implies `[]ReadModelsAreExact`
- `DrainsReachTheirHead`: `RebuildsAreGated` implies `DrainReachesItsHead`

`RebuildsAreGated` says that in every deployment either all callers share one
process, or nobody rebuilds; the code does not enforce it across processes, and
`ProjectionRebuildRace.cfg` shows the theorem false without it. The invariant is
optimistic concurrency spelled out: a staged batch expects a position that the
store has not fallen behind (`BatchOK`), and *if* the store is still there, the
batch leaves exactly the replay of its last event. Another process can only move
the position on, which makes the condition false and the batch refused. Where
positions do go back, in a reset, the gate keeps everybody else idle (`Exclusive`,
`ResetsAreGated`). What the reducer does to a record is compared with the
declarative `IsRecord` one event at a time (`ReplayOfOneMore`). For the drain,
`ReachOK` says that an empty page was read at the head, so a round that applied
nothing found every projection it passed at the head asked for.

### Leases (`HostedLeaseProofs`)

- `OneGenerationAtATime`: `[]OneGenerationWrites`
- `LeasesEndByTheirHolder`: `LeaseEndsByItsHolder`
- `EditsExcludeRuntimes`: `EditExcludesRuntimes`
- `EditsExclude`: `GateRow` implies `EditExcludes`

`JournalBehindLease` says that the journal never holds a generation newer than the
lease row, from which the fence keeps the generations in order. `GateKeepsOut` says
that the partition an edit found free stays free while its gate is live, and
`NoTaskUnderGate` that no task is admitted under a live gate; the latter needs a
row to lock, so `EditsExclude` assumes `GateRow` (`HostedLeaseFirst.cfg` is the
counterexample without it).

### Memory index (`MemoryIndexProofs`)

- `TypeCorrect`: `[]TypeOK`
- `IndexesFollowTheQueue`: `SeparateSyncsFollowQueue`, that is, `[]SyncsDoNotOverlap`
  implies `[]IndexFollowsQueue`
- `OneCallerFollowsTheQueue`: one caller implies `[]IndexFollowsQueue`
- `NothingIsLost`: `OverlappingSyncsLoseNothing`, that is, `[]RebuildsAlone` implies
  `[]AcknowledgedIsApplied`

A document is the last event about its memory, so "the index is current" speaks of
the whole journal; the behaviour carries that induction. `Inductive` says that for
some k the markers in the index are those of the first k events, that every memory
one of these is about has the document they call for, and where a caller stands in
its batch relative to k (`AppliedTo`, `CallerAt`); that the queue is ahead
of neither k nor the index position; and that no document exists without an event
(`NothingInvented`, needed because a rebuild writes documents before their markers).
One more event applied is one more k. `Shape` adds to the types that the last event
about a memory is found within the journal (`LastInRange`), that documents listed for
a rebuild are events (`ValuesInRange`) and that batches lie within the journal
(`BatchesInRange`).

Nothing in the code keeps two syncs apart, and with two of them `IndexFollowsQueue`
is false (`MemoryIndexStale.cfg`, `MemoryIndexBehind.cfg`), hence the hypothesis.
`NothingIsLost` is what remains for any number of callers: an event that the queue
has acknowledged has been applied, whoever applied it. `Lossless` says that what a
caller has been through of its batch is marked, and that nothing counts as
acknowledged while a rebuild replaces the index. A rebuild is the one operation that
withdraws markers: a sync that has applied its batch to the index a rebuild replaces
goes on to acknowledge it over the new one, so the theorem asks that nobody else be
at work between the reset of the queue and the replacement (`RebuildsAlone`).

### Work (`WorkProofs`)

- `PlansAreConsumedOnce`: `[]PlanConsumedOnce`
- `ApprovalIsFinal`: `[]ApprovedIsFinal`
- `NamedRevisionsAreLatest`: `NamedRevisionIsLatest`
- `SlotsAreUsedOnce`: `[]SlotUsedOnce`
- `TerminalEvidenceIsFinal`: `[]TerminalEvidenceStays`

Callers validate a record against one read and append it later. The invariants
(`FramesOK`, `PendingAccepted`) say that what waits to be appended was accepted
against the record whose version it carries: if that is still the last record, it
is acceptable now, otherwise the append is refused. `RunsOwned` and `SlotsHeld` say
that a run id or a reserved slot belongs to one caller, which has yet to use it.

### Subagents (`SubagentsProofs`)

- `MessagesStayAccounted`: `[]MessagesAccounted`
- `ReceiptsStayFinal`: `ReceiptsAreFinal`
- `EndedInboxesStayClosed`: one caller implies `[]EndedInboxIsClosed`

`Mail` says, position by position, what `MessagesAccounted` counts: what waits in an
inbox is accepted, waits there once and nowhere else, every accepted message waits
somewhere, and the same of included messages and transcripts. Three lemmas carry it
through the only ways inboxes change: closing one (`CloseMail`), including a batch
that is a beginning of the input (`IncludeMail`), and a send (`SendMail`).
`MessageInOnePlace` and the finality of receipts follow.

That an action closes or drains an attempt that exists takes the rest of the
invariant, `Shape`. `RunsOK` says that a child run works on the one attempt it is
bound to, and has none before; `SpawnedOnce` that an attempt gets at most one child,
since a queued attempt never had one; `CallsOK` that what an operation staged, it
staged from an attempt of its job. `AttemptsBounded` counts the requeues under way
whose budget is spent, and `DrainOK` keeps a slot for the job being started.

`EndedInboxesStayClosed` needs `EndingsOK` besides: what an operation staged to end
a job was staged from the latest attempt, if the transition table still lets it
commit, and an inbox it found closed is closed. For the drain that holds with any
number of callers, for a cancellation only while nobody else requeues the job, so the
theorem assumes one caller (`SubagentsTwoCallers.cfg` is the counterexample with
two).

### Only model-checked

- Liveness (`WriterReleased`, `QuarantineCompletes`, `LaunchedCallReturns`,
  `RecoveryEnds`, `CatchesUp`, `EventuallyCaughtUp`, `EventuallyCurrent`,
  `EditEnds`, `InboxesSettle`): fairness and `ENABLED` are out of the prover's
  reach.

## 5. Findings

`subagent_late_output`. `cancel_subagent` says "Late child output is never
committed" (`subagents.rs:82`), and so does `docs/develop/adr/0007-agent-communication.md:40`.
The drain drops a result only while the job is `Cancelled`. A job that is
cancelled, requeued and started again while its first child is still running is
completed with the first child's output, and the second child's inbox is closed.

### Further configurations

These configurations are kept to show behaviour that a comment or a document does
not lead one to expect. TLC reports a counterexample for each.

| Configuration | Property | What it shows |
|---|---|---|
| `AuditExportUnknown.cfg` | `UnknownBlocksReplay` | An unknown outcome at an item that is not the first of its batch cannot be recorded (`external_work.rs:230`), and the next drain exports the item again; `docs/admin/audit-telemetry-recovery.md:85` says "An exporter `outcome_unknown` blocks implicit delivery replay." |
| `AuditExportBackoff.cfg` | `RetryPositionWithinJournal` | The position of the retry projection counts failures and is verified as a journal sequence (`verification.rs:182`); failures that journal nothing can push it past the head of an undamaged journal |
| `RedbJournalBackoff.cfg` | `UndamagedIsTrusted` | The consequence: verification quarantines that journal, although no row of it is damaged |
| `EffectGatewayDenied.cfg` | `DeniedCallIsClosed` | A release denied after execution leaves the effect without the terminal event that `docs/develop/security-architecture.md:49` promises, until the next start records it as unknown |
| `ProjectionRebuildRace.cfg` | `StateIsReplay` | Two processes, one of which rebuilds: the position returns to a value the other has staged from, and a batch reduced over reset records is applied |
| `MemoryIndexStale.cfg` | `RestIsCurrent` | Two overlapping syncs: `processed` is asked before the writer lock is taken, so an older event is applied over a newer one; `memory/service.rs:281` says "in global order" |
| `MemoryIndexBehind.cfg` | `IndexNotBehindQueue` | Two overlapping syncs: the slower one moves the index position behind the queue, which the next sync takes for an unverifiable index |
| `HostedLeaseStale.cfg` | `RuntimeIsConfigured` | A runtime starts on a configuration read before an edit that has published meanwhile (`host.rs:69`) |
| `HostedLeaseFirst.cfg` | `EditExcludesTasks` | A project without a gate row: the first edit publishes beside an admission, because a missing row is an open gate and is not locked (`hosted_chat.rs:506`) |
| `SubagentsTwoCallers.cfg` | `EndedInboxIsClosed` | Two callers: a cancellation staged while the old inbox was closed stages no inbox events, commits over a job requeued meanwhile, and leaves its new inbox open; every later requeue is refused |

Further observations from `Subagents`. A job cancelled between the listing and its
start makes the drain return an error; the children of other jobs are aborted and
their jobs stay `Running` until the next start of the process (`Stranded`). A
message that arrives while a run binds its inbox fails the run, because
`begin_run` does not retry a conflict. A slow child of a cancelled attempt can
bind the inbox of the next attempt.

## 6. Plan

Done: all modules above and proofs about each of them. Next, in this order:

1. Workflow engine: schedules, subscriptions, step claims, recovery of runs.
2. Tool turns and session markers of the agent loop, idempotency of runs in the
   public API.
3. The worker's maintenance loop, for starvation between drains.

### Not modelled

Memory, decision and task records step by step (`update` of a memory checks the
status on one read of the stream and takes the version from a second); root
inboxes and the A2A surface; workflow engine, API and cloud control plane beyond
lease and edit. Policy rules, sandbox, terminals, providers, MCP, browser, desktop
and web interfaces and SDKs, which make up most of the repository's lines, are not
planned: they are adapters behind the gateway, or carry no state of this kind; the
gateway model treats them as arbitrary outcomes.
