----------------------------- MODULE HostedLease -----------------------------
(***************************************************************************)
(* Placement of a hosted runtime: the lease of one project/user partition, *)
(* the project's configuration gate and the management requests in         *)
(* PostgreSQL, used by several replicas of the cloud server.               *)
(*                                                                         *)
(* A runtime attempt refreshes its replica's copy of the configuration,    *)
(* claims the lease, opens the fenced journal and runs.  An administrative *)
(* edit claims the gate, checks that the project is idle, asks the live    *)
(* owner to stop and hand its lease over, and publishes a new revision.    *)
(* Each SQL transaction is one step.  Leases, gates and requests may       *)
(* expire, a replica may crash, and a stopped runtime may still be writing *)
(* or releasing its lease arbitrarily late.                                *)
(***************************************************************************)
EXTENDS Naturals, Sequences, FiniteSets

CONSTANTS
    Replicas,
    Attempts,      \* runtime attempts, each with an owner id of its own
    Edits,         \* administrative edits, each with an owner id of its own
    NoOne,
    GateRow,       \* TRUE: the project already has a row in hosted_chat_project_gates
    Budgets        \* bounds: of events written, tasks admitted, expiries of a
                   \* lease or gate and crashes of a replica in one behaviour

ASSUME HostedAssumption ==
    /\ Attempts \cap Edits = {}
    /\ NoOne \notin Attempts \cup Edits
    /\ GateRow \in BOOLEAN
    /\ Budgets \subseteq [writes: Nat, tasks: Nat, expiries: Nat, crashes: Nat]

VARIABLES
    lease,      \* the row of hosted_chat_leases
    gate,       \* the row of hosted_chat_project_gates
    request,    \* request[e]: the stop request of edit e in hosted_chat_requests
    config,     \* revision of the stored configuration
    cache,      \* cache[r]: HostedExecution.projects, by revision
    lifecycle,  \* lifecycle[r]: who holds the lifecycle mutex of replica r
    attempt, edit,
    queued,     \* a hosted task is queued or running
    admit,      \* a transaction that admits a task is open
    journal,    \* generations of the committed events, in order
    budget      \* ghost: what is left of the bounds

vars == <<lease, gate, request, config, cache, lifecycle, attempt, edit, queued,
          admit, journal, budget>>
tasks == <<queued, admit>>

Owner == Attempts \cup Edits \cup {NoOne}

NoRequest == [status |-> "none", gen |-> 0]

NoAttempt == [pc |-> "new", home |-> NoOne, config |-> 0, gen |-> 0, verified |-> FALSE]

NoEdit == [pc |-> "new", home |-> NoOne, target |-> 0, reserved |-> 0, revision |-> 0]

AttemptPcs == {"new", "refresh", "ensure", "claim", "starting", "running", "stopped",
               "releasing", "gone"}

EditPcs == {"new", "idle", "leases", "submit", "wait", "refresh", "projects",
            "recheck", "publish", "drop", "dropGate", "gone"}

TypeOK ==
    /\ lease \in [owner: Owner, gen: Nat, live: BOOLEAN]
    /\ gate \in [owner: Edits \cup {NoOne}, live: BOOLEAN, exists: BOOLEAN]
    /\ request \in [Edits -> [status: {"none", "sent", "dispatched", "answered", "expired"},
                              gen: Nat]]
    /\ config \in Nat
    /\ cache \in [Replicas -> 1 .. config]
    /\ lifecycle \in [Replicas -> Owner]
    /\ attempt \in [Attempts -> [pc: AttemptPcs, home: Replicas \cup {NoOne},
                                 config: 0 .. config, gen: 0 .. lease.gen,
                                 verified: BOOLEAN]]
    /\ edit \in [Edits -> [pc: EditPcs, home: Replicas \cup {NoOne}, target: 0 .. lease.gen,
                           reserved: 0 .. lease.gen, revision: Nat]]
    /\ queued \in BOOLEAN
    /\ admit \in {"none", "locked", "unlocked"}
    /\ journal \in Seq(Nat)

Init ==
    /\ lease = [owner |-> NoOne, gen |-> 0, live |-> FALSE]
    /\ gate = [owner |-> NoOne, live |-> FALSE, exists |-> GateRow]
    /\ request = [e \in Edits |-> NoRequest]
    /\ config = 1
    /\ cache = [r \in Replicas |-> 1]
    /\ lifecycle = [r \in Replicas |-> NoOne]
    /\ attempt = [a \in Attempts |-> NoAttempt]
    /\ edit = [e \in Edits |-> NoEdit]
    /\ queued = FALSE
    /\ admit = "none"
    /\ journal = << >>
    /\ budget \in Budgets

-----------------------------------------------------------------------------
\* The SQL condition namespace, owner, generation and expiry, for the lease that
\* attempt a captured.
Holds(a) == lease.live /\ lease.owner = a /\ lease.gen = attempt[a].gen

\* Mutant: the release matches the partition only.
ReleasedPartition(owner, gen) == [lease EXCEPT !.live = FALSE]

\* release_lease: only the captured owner and generation.
Released(owner, gen) ==
    IF lease.owner = owner /\ lease.gen = gen THEN [lease EXCEPT !.live = FALSE] ELSE lease

To(a, pc) == attempt' = [attempt EXCEPT ![a].pc = pc]

\* refresh_project of ensure, in two halves: the stored revision is read before
\* the replica's map is locked.
RefreshRead(a) ==
    /\ attempt[a].pc = "new"
    /\ \E r \in Replicas :
           attempt' = [attempt EXCEPT ![a] =
               [NoAttempt EXCEPT !.pc = "refresh", !.home = r, !.config = config]]
    /\ UNCHANGED <<lease, gate, request, config, cache, lifecycle, edit, tasks, journal, budget>>

\* The map is locked by an edit that replaces the configuration and read-locked
\* by a runtime that starts.
MapFree(r) ==
    /\ \A e \in Edits : edit[e].home = r => edit[e].pc \notin {"recheck", "publish"}
    /\ \A a \in Attempts : attempt[a].home = r => attempt[a].pc \notin {"claim", "starting"}

RefreshInsert(a) ==
    /\ attempt[a].pc = "refresh"
    /\ MapFree(attempt[a].home)
    /\ cache' = [cache EXCEPT ![attempt[a].home] = attempt[a].config]
    /\ To(a, "ensure")
    /\ UNCHANGED <<lease, gate, request, config, lifecycle, edit, tasks, journal, budget>>

\* ensure_local takes the lifecycle mutex and its configuration from the map.
EnsureLocal(a) ==
    /\ attempt[a].pc = "ensure"
    /\ lifecycle[attempt[a].home] = NoOne
    /\ lifecycle' = [lifecycle EXCEPT ![attempt[a].home] = a]
    /\ attempt' = [attempt EXCEPT ![a].pc = "claim", ![a].config = cache[attempt[a].home]]
    /\ UNCHANGED <<lease, gate, request, config, cache, edit, tasks, journal, budget>>

\* Mutant: the project gate is not looked at.
ClaimIgnoresGate(a) ==
    /\ attempt[a].pc = "claim"
    /\ gate' = [gate EXCEPT !.exists = TRUE]
    /\ IF ~lease.live
       THEN /\ lease' = [owner |-> a, gen |-> lease.gen + 1, live |-> TRUE]
            /\ attempt' = [attempt EXCEPT ![a].pc = "starting", ![a].gen = lease.gen + 1]
            /\ UNCHANGED lifecycle
       ELSE /\ To(a, "gone")
            /\ lifecycle' = [lifecycle EXCEPT ![attempt[a].home] = NoOne]
            /\ UNCHANGED lease
    /\ UNCHANGED <<request, config, cache, edit, tasks, journal, budget>>

\* claim_lease: refused while the project gate is live or the lease is.
ClaimLease(a) ==
    /\ attempt[a].pc = "claim"
    /\ IF ~gate.live /\ ~lease.live
       THEN /\ gate' = [gate EXCEPT !.exists = TRUE]
            /\ lease' = [owner |-> a, gen |-> lease.gen + 1, live |-> TRUE]
            /\ attempt' = [attempt EXCEPT ![a].pc = "starting", ![a].gen = lease.gen + 1]
            /\ UNCHANGED lifecycle
       ELSE /\ To(a, "gone")
            /\ lifecycle' = [lifecycle EXCEPT ![attempt[a].home] = NoOne]
            /\ UNCHANGED <<lease, gate>>
    /\ UNCHANGED <<request, config, cache, edit, tasks, journal, budget>>

\* The last verify_lease before the runtime is published; a failed start drops
\* its LeaseClaim.
Start(a) ==
    /\ attempt[a].pc = "starting"
    /\ \/ Holds(a) /\ To(a, "running")
       \/ To(a, "releasing")
    /\ lifecycle' = [lifecycle EXCEPT ![attempt[a].home] = NoOne]
    /\ UNCHANGED <<lease, gate, request, config, cache, edit, tasks, journal, budget>>

Writing(a) == attempt[a].pc \in {"starting", "running", "stopped", "releasing"}

\* FencedJournal: verify, then the append in a transaction of its own.
VerifyFence(a) ==
    /\ Writing(a)
    /\ budget.writes > 0
    /\ Holds(a)
    /\ ~attempt[a].verified
    /\ attempt' = [attempt EXCEPT ![a].verified = TRUE]
    /\ UNCHANGED <<lease, gate, request, config, cache, lifecycle, edit, tasks, journal, budget>>

\* Mutant: the transaction relies on the verification before it.
AppendVerifiedBefore(a) ==
    /\ Writing(a)
    /\ attempt[a].verified
    /\ attempt' = [attempt EXCEPT ![a].verified = FALSE]
    /\ budget.writes > 0
    /\ journal' = Append(journal, attempt[a].gen)
    /\ budget' = [budget EXCEPT !.writes = @ - 1]
    /\ UNCHANGED <<lease, gate, request, config, cache, lifecycle, edit, tasks>>

\* verify_transaction_fence locks the lease row until the events are committed;
\* WriterLeaseHeld otherwise.
AppendFenced(a) ==
    /\ Writing(a)
    /\ attempt[a].verified
    /\ attempt' = [attempt EXCEPT ![a].verified = FALSE]
    /\ IF Holds(a)
       THEN /\ budget.writes > 0
            /\ journal' = Append(journal, attempt[a].gen)
            /\ budget' = [budget EXCEPT !.writes = @ - 1]
       ELSE UNCHANGED <<journal, budget>>
    /\ UNCHANGED <<lease, gate, request, config, cache, lifecycle, edit, tasks>>

\* The monitor cannot renew, or the runtime is evicted: it shuts down and its
\* lease is released some time later.
Stop(a) ==
    /\ attempt[a].pc = "running"
    /\ To(a, "releasing")
    /\ UNCHANGED <<lease, gate, request, config, cache, lifecycle, edit, tasks, journal, budget>>

ReleaseLease(a) ==
    /\ attempt[a].pc = "releasing"
    /\ lease' = Released(a, attempt[a].gen)
    /\ To(a, "gone")
    /\ UNCHANGED <<gate, request, config, cache, lifecycle, edit, tasks, journal, budget>>

\* take_management: a live owner takes a request for its generation once.
TakeManagement(a, e) ==
    /\ attempt[a].pc = "running"
    /\ Holds(a)
    /\ request[e] = [status |-> "sent", gen |-> attempt[a].gen]
    /\ request' = [request EXCEPT ![e].status = "dispatched"]
    /\ UNCHANGED <<lease, gate, config, cache, lifecycle, attempt, edit, tasks, journal, budget>>

\* Management::Stop of an idle runtime; a busy one answers with an error, and the
\* edit fails.
HandleStop(a, e) ==
    /\ attempt[a].pc = "running"
    /\ request[e] = [status |-> "dispatched", gen |-> attempt[a].gen]
    /\ To(a, "stopped")
    /\ UNCHANGED <<lease, gate, request, config, cache, lifecycle, edit, tasks, journal, budget>>

\* complete_management: the answer and the hand-over in one transaction.
CompleteManagement(a, e) ==
    /\ attempt[a].pc = "stopped"
    /\ IF Holds(a) /\ request[e] = [status |-> "dispatched", gen |-> attempt[a].gen]
       THEN /\ request' = [request EXCEPT ![e].status = "answered"]
            /\ lease' = [owner |-> e, gen |-> lease.gen + 1, live |-> TRUE]
       ELSE UNCHANGED <<request, lease>>
    /\ To(a, "releasing")
    /\ UNCHANGED <<gate, config, cache, lifecycle, edit, tasks, journal, budget>>

-----------------------------------------------------------------------------
EditTo(e, pc) == edit' = [edit EXCEPT ![e].pc = pc]

\* claim_project_gate, under the lifecycle mutex of the replica; it waits for an
\* admission that has locked the row.
BeginEdit(e) ==
    /\ edit[e].pc = "new"
    /\ admit # "locked"
    /\ \E r \in Replicas :
       /\ lifecycle[r] = NoOne
       /\ IF ~gate.live
          THEN /\ gate' = [owner |-> e, live |-> TRUE, exists |-> TRUE]
               /\ lifecycle' = [lifecycle EXCEPT ![r] = e]
               /\ edit' = [edit EXCEPT ![e].pc = "idle", ![e].home = r]
          ELSE EditTo(e, "gone") /\ UNCHANGED <<gate, lifecycle>>
    /\ UNCHANGED <<lease, request, config, cache, attempt, tasks, journal, budget>>

\* An early return: SharedEdit is dropped.
Fail(e) ==
    /\ edit[e].pc \in {"idle", "leases", "submit", "wait", "refresh", "projects",
                       "recheck", "publish"}
    /\ EditTo(e, "drop")
    /\ UNCHANGED <<lease, gate, request, config, cache, lifecycle, attempt, tasks, journal, budget>>

\* active_project_run_status, when the edit begins and again before it publishes.
\* The code asks for one status after another; that is one step here.
CheckIdle(e) ==
    /\ \/ edit[e].pc = "idle" /\ EditTo(e, IF queued THEN "drop" ELSE "leases")
       \/ edit[e].pc = "recheck" /\ EditTo(e, IF queued THEN "drop" ELSE "publish")
    /\ UNCHANGED <<lease, gate, request, config, cache, lifecycle, attempt, tasks, journal, budget>>

ProjectLeases(e) ==
    /\ edit[e].pc = "leases"
    /\ edit' = [edit EXCEPT ![e].pc = IF lease.live THEN "submit" ELSE "refresh",
                            ![e].target = lease.gen]
    /\ UNCHANGED <<lease, gate, request, config, cache, lifecycle, attempt, tasks, journal, budget>>

\* submit_management beneath the captured live generation.
SubmitManagement(e) ==
    /\ edit[e].pc = "submit"
    /\ IF lease.live /\ lease.gen = edit[e].target
       THEN /\ request' = [request EXCEPT ![e] = [status |-> "sent", gen |-> edit[e].target]]
            /\ EditTo(e, "wait")
       ELSE EditTo(e, "drop") /\ UNCHANGED request
    /\ UNCHANGED <<lease, gate, config, cache, lifecycle, attempt, tasks, journal, budget>>

\* Mutant: an unanswered request is polled without looking at its expiry or owner.
PollForever(e) ==
    /\ edit[e].pc = "wait"
    /\ request[e].status = "answered"
    /\ request' = [request EXCEPT ![e] = NoRequest]
    /\ edit' = IF lease.live /\ lease.owner = e
               THEN [edit EXCEPT ![e].pc = "refresh", ![e].reserved = lease.gen]
               ELSE [edit EXCEPT ![e].pc = "drop"]
    /\ UNCHANGED <<lease, gate, config, cache, lifecycle, attempt, tasks, journal, budget>>

\* One poll of management_request: an answer first, then verify_lease.  After an
\* answer the handed-over lease is read.
PollResponse(e) ==
    /\ edit[e].pc = "wait"
    /\ \/ /\ request[e].status = "answered"
          /\ request' = [request EXCEPT ![e] = NoRequest]
          /\ edit' = IF lease.live /\ lease.owner = e
                     THEN [edit EXCEPT ![e].pc = "refresh", ![e].reserved = lease.gen]
                     ELSE [edit EXCEPT ![e].pc = "drop"]
       \/ /\ request[e].status # "answered"
          /\ request[e].status = "expired" \/ ~lease.live \/ lease.gen # edit[e].target
          /\ EditTo(e, "drop")
          /\ UNCHANGED request
    /\ UNCHANGED <<lease, gate, config, cache, lifecycle, attempt, tasks, journal, budget>>

\* The edit's own refresh_project, and then the write lock of the map.
RefreshEdit(e) ==
    /\ edit[e].pc = "refresh"
    /\ MapFree(edit[e].home)
    /\ cache' = [cache EXCEPT ![edit[e].home] = config]
    /\ EditTo(e, "projects")
    /\ UNCHANGED <<lease, gate, request, config, lifecycle, attempt, tasks, journal, budget>>

LockProjects(e) ==
    /\ edit[e].pc = "projects"
    /\ MapFree(edit[e].home)
    /\ edit' = [edit EXCEPT ![e].pc = "recheck", ![e].revision = cache[edit[e].home] + 1]
    /\ UNCHANGED <<lease, gate, request, config, cache, lifecycle, attempt, tasks, journal, budget>>

\* save_configuration: the exact prior revision, while the edit's gate is live.
Publish(e) ==
    /\ edit[e].pc = "publish"
    /\ IF gate.live /\ gate.owner = e /\ config + 1 = edit[e].revision
       THEN /\ config' = edit[e].revision
            /\ cache' = [cache EXCEPT ![edit[e].home] = edit[e].revision]
       ELSE UNCHANGED <<config, cache>>
    /\ EditTo(e, "drop")
    /\ UNCHANGED <<lease, gate, request, lifecycle, attempt, tasks, journal, budget>>

\* Drop of SharedEdit: the reservation, then the gate, each if still its own.
DropReservation(e) ==
    /\ edit[e].pc = "drop"
    /\ lease' = IF edit[e].reserved # 0 THEN Released(e, edit[e].reserved) ELSE lease
    /\ EditTo(e, "dropGate")
    /\ UNCHANGED <<gate, request, config, cache, lifecycle, attempt, tasks, journal, budget>>

DropGate(e) ==
    /\ edit[e].pc = "dropGate"
    /\ gate' = IF gate.owner = e THEN [gate EXCEPT !.live = FALSE] ELSE gate
    /\ lifecycle' = [lifecycle EXCEPT ![edit[e].home] = NoOne]
    /\ EditTo(e, "gone")
    /\ UNCHANGED <<lease, request, config, cache, attempt, tasks, journal, budget>>

-----------------------------------------------------------------------------
\* guard_admission: a live gate refuses the task; the row, if there is one, stays
\* locked until the transaction commits.
GuardAdmission ==
    /\ admit = "none"
    /\ budget.tasks > 0
    /\ ~gate.live
    /\ admit' = IF gate.exists THEN "locked" ELSE "unlocked"
    /\ budget' = [budget EXCEPT !.tasks = @ - 1]
    /\ UNCHANGED <<lease, gate, request, config, cache, lifecycle, attempt, edit, queued, journal>>

CommitTask ==
    /\ admit # "none"
    /\ admit' = "none"
    /\ queued' = TRUE
    /\ UNCHANGED <<lease, gate, request, config, cache, lifecycle, attempt, edit, journal, budget>>

FinishTask ==
    /\ queued
    /\ queued' = FALSE
    /\ UNCHANGED <<lease, gate, request, config, cache, lifecycle, attempt, edit, admit, journal, budget>>

\* The database clock passes an expiry.
Expire ==
    /\ budget.expiries > 0
    /\ \/ lease.live /\ lease' = [lease EXCEPT !.live = FALSE] /\ UNCHANGED gate
       \/ gate.live /\ gate' = [gate EXCEPT !.live = FALSE] /\ UNCHANGED lease
    /\ budget' = [budget EXCEPT !.expiries = @ - 1]
    /\ UNCHANGED <<request, config, cache, lifecycle, attempt, edit, tasks, journal>>

\* A request that was not answered in time.
ExpireRequest(e) ==
    /\ request[e].status \in {"sent", "dispatched"}
    /\ request' = [request EXCEPT ![e].status = "expired"]
    /\ UNCHANGED <<lease, gate, config, cache, lifecycle, attempt, edit, tasks, journal, budget>>

\* The replica restarts: rows stay, its tasks and locks are gone, its map is read
\* again.
Crash(r) ==
    /\ budget.crashes > 0
    /\ budget' = [budget EXCEPT !.crashes = @ - 1]
    /\ attempt' = [a \in Attempts |->
           IF attempt[a].home = r THEN [attempt[a] EXCEPT !.pc = "gone"] ELSE attempt[a]]
    /\ edit' = [e \in Edits |->
           IF edit[e].home = r THEN [edit[e] EXCEPT !.pc = "gone"] ELSE edit[e]]
    /\ lifecycle' = [lifecycle EXCEPT ![r] = NoOne]
    /\ cache' = [cache EXCEPT ![r] = config]
    /\ UNCHANGED <<lease, gate, request, config, tasks, journal>>

AttemptStep(a) ==
    \/ RefreshRead(a)
    \/ RefreshInsert(a)
    \/ EnsureLocal(a)
    \/ ClaimLease(a)
    \/ Start(a)
    \/ VerifyFence(a)
    \/ AppendFenced(a)
    \/ Stop(a)
    \/ ReleaseLease(a)
    \/ \E e \in Edits : TakeManagement(a, e) \/ HandleStop(a, e) \/ CompleteManagement(a, e)

EditStep(e) ==
    \/ CheckIdle(e)
    \/ ProjectLeases(e)
    \/ SubmitManagement(e)
    \/ PollResponse(e)
    \/ RefreshEdit(e)
    \/ LockProjects(e)
    \/ Publish(e)
    \/ DropReservation(e)
    \/ DropGate(e)

Next ==
    \/ \E a \in Attempts : AttemptStep(a)
    \/ \E e \in Edits : BeginEdit(e) \/ Fail(e) \/ EditStep(e) \/ ExpireRequest(e)
    \/ GuardAdmission
    \/ CommitTask
    \/ FinishTask
    \/ Expire
    \/ \E r \in Replicas : Crash(r)

Spec == Init /\ [][Next]_vars

-----------------------------------------------------------------------------
\* "A newer generation permanently fences its predecessor": no event of an older
\* owner is committed after one of a newer owner, however late its write is.
NewerGenerationFences ==
    \A i, j \in 1 .. Len(journal) : i < j => journal[i] <= journal[j]

\* The journal of a partition is written by one generation after the other.
OneGenerationWrites == TypeOK /\ NewerGenerationFences

\* A delayed release never ends the lease of a successor: a live lease that no
\* clock ended was ended by its own holder, or handed over by it.
LeaseEndsByItsHolder ==
    [][lease.live /\ lease' # lease /\ budget' = budget =>
           \/ lease.owner \in Attempts /\ attempt[lease.owner].pc \in {"releasing", "stopped"}
           \/ lease.owner \in Edits /\ edit[lease.owner].pc = "drop"]_vars

\* A revision is never published over a runtime that could still write: the gate
\* keeps new owners out while the old one is asked to stop.
EditExcludesRuntimes == [][config' # config => \A a \in Attempts : ~Holds(a)]_vars

\* A revision is never published over an admitted task, once the project has a
\* gate row; the first edit of a project has none to lock.
EditExcludesTasks == [][config' # config => ~queued]_vars

\* An edit excludes what runs or is about to run on the old configuration.
EditExcludes == EditExcludesRuntimes /\ EditExcludesTasks

\* A running owner of the partition has the stored configuration.
RuntimeIsConfigured ==
    \A a \in Attempts : Holds(a) /\ attempt[a].pc = "running" => attempt[a].config = config

\* Tasks of a replica go on, and so does the clock of a request.
FairSpec ==
    /\ Spec
    /\ \A e \in Edits : WF_vars(EditStep(e)) /\ WF_vars(ExpireRequest(e))
    /\ \A a \in Attempts : WF_vars(RefreshInsert(a)) /\ WF_vars(ClaimLease(a)) /\ WF_vars(Start(a))

\* An edit, and with it the lifecycle mutex and the gate, ends whatever the owner
\* that it asked to stop does: crash, expire, or never answer.
EditEnds == \A e \in Edits : edit[e].pc # "new" ~> edit[e].pc = "gone"
=============================================================================
