------------------------------ MODULE Subagents ------------------------------
(***************************************************************************)
(* Child-agent jobs and their inboxes: the job records of WorkService, the *)
(* attempts (participants) of CommunicationService, the child runs the     *)
(* drain spawns, and callers who cancel, requeue and send messages to a    *)
(* job meanwhile.                                                          *)
(*                                                                         *)
(* A service operation reads the job and checks its status, stages the     *)
(* inbox events of the latest attempt, and commits both in one batch that  *)
(* re-reads the job: three steps, between which others commit.  The batch  *)
(* carries the versions of the streams it was staged from; comparing the   *)
(* participant itself stands for comparing versions: one that has come     *)
(* back to the value it was staged from (a message sent and included) is   *)
(* staged again to the same batch.                                         *)
(***************************************************************************)
EXTENDS Naturals, Sequences, FiniteSets, SequencesExt

CONSTANTS
    Jobs, Messages, \* numbered in the order of their ids (Uuid::now_v7)
    Callers,
    Drain,          \* the task that holds subagent_drain_lock
    MaxConcurrent,  \* subagents.maxConcurrent
    InboxLimit,     \* MAX_AGENT_INBOX_MESSAGES
    ScopeLimit,     \* MAX_SCOPE_PENDING_BYTES, a message counting as one
    BatchLimit,     \* messages prepared for one turn
    MaxTurns,       \* agent_max_turns
    Budgets,        \* bounds: jobs, messages, requeues, crashes
    NoRun

ASSUME SubagentsAssumption ==
    /\ Drain \notin Callers
    /\ {MaxConcurrent, InboxLimit, ScopeLimit, BatchLimit, MaxTurns} \subseteq Nat \ {0}
    /\ Jobs \subseteq Nat /\ Messages \subseteq Nat
    /\ IsFiniteSet(Jobs) /\ IsFiniteSet(Messages) /\ IsFiniteSet(Callers)
    /\ Budgets \subseteq [jobs: Nat, messages: Nat, requeues: Nat, crashes: Nat]

VARIABLES
    job,         \* job[j]: the record of subagent:<j>
    inbox,       \* inbox[j]: its attempts, oldest first; the last one is the AttemptIndex
    receipt,     \* receipt[m]: what became of message m
    transcript,  \* transcript[j]: the messages written into the child session
    scope,       \* ScopeState.pending_bytes of the collaboration
    run,         \* run[r]: the child run spawned for attempt r[2] of job r[1]
    drain,       \* the scheduling loop
    call,        \* call[t]: the service operation thread t is in the middle of
    process,     \* "up", "down", or the two phases of startup recovery
    budget

vars == <<job, inbox, receipt, transcript, scope, run, drain, call, process, budget>>

Threads == Callers \cup {Drain}
MaxAttempts == 1 + Max({b.requeues : b \in Budgets})
Runs == Jobs \X (1 .. MaxAttempts)

ASSUME AttemptsAssumption ==
    /\ MaxAttempts \in Nat
    /\ \A b \in Budgets : b.requeues < MaxAttempts
    /\ NoRun \notin Runs

Status == {"None", "Queued", "Running", "Completed", "Failed", "Cancelled", "Interrupted"}

\* result: the attempt whose run gave child_run_id and final_output, 0 for none.
SubagentJob == [status: Status, result: 0 .. MaxAttempts]

Attempt == [open: BOOLEAN, run: Runs \cup {NoRun}, pending: Seq(Messages)]

Absent == [pc |-> "absent"]
\* at: the attempt the run is bound to.  seen: the participant as last read.
Run == [pc: {"begin", "binding", "turn", "including", "model", "ending", "ok", "err"},
        at: 0 .. MaxAttempts, seen: Attempt, turn: 0 .. MaxTurns, aborted: BOOLEAN]
Live == {"begin", "binding", "turn", "including", "model", "ending"}

\* A run that holds nothing of its inbox: it has not begun, or has returned.
Fresh == [open |-> TRUE, run |-> NoRun, pending |-> << >>]
Ended(pc) == [pc |-> pc, at |-> 0, seen |-> Fresh, turn |-> 0, aborted |-> FALSE]

Idle == [pc |-> "idle"]
Operation == {"start", "unprepared", "complete", "fail", "cancel", "requeue"}
\* at: the attempt whose run is reported.  on, seen: the attempt the inbox events
\* were staged from.
Frame == [pc: {"check", "stage", "commit", "prepare", "latest"}, op: Operation, job: Jobs,
          at: 0 .. MaxAttempts, on: 0 .. MaxAttempts, seen: Attempt]

TypeOK ==
    /\ job \in [Jobs -> SubagentJob]
    /\ inbox \in [Jobs -> Seq(Attempt)]
    /\ \A j \in Jobs : Len(inbox[j]) <= MaxAttempts
    /\ receipt \in [Messages -> {"unsent", "Accepted", "IncludedInTurn", "NotDelivered"}]
    /\ transcript \in [Jobs -> Seq(Messages)]
    /\ scope \in 0 .. ScopeLimit
    /\ run \in [Runs -> {Absent} \cup Run]
    /\ drain \in [pc: {"idle", "list", "start", "join"}, queue: SUBSET Jobs, set: SUBSET Runs,
                  notified: BOOLEAN]
    /\ Cardinality(drain.set) + Cardinality(drain.queue) <= MaxConcurrent
    /\ call \in [Threads -> {Idle} \cup Frame]
    /\ process \in {"up", "down", "jobs", "inboxes"}
    /\ budget \in [jobs: Nat, messages: Nat, requeues: Nat, crashes: Nat]

NoDrain == [pc |-> "idle", queue |-> {}, set |-> {}, notified |-> FALSE]

Init ==
    /\ job = [j \in Jobs |-> [status |-> "None", result |-> 0]]
    /\ inbox = [j \in Jobs |-> << >>]
    /\ receipt = [m \in Messages |-> "unsent"]
    /\ transcript = [j \in Jobs |-> << >>]
    /\ scope = 0
    /\ run = [r \in Runs |-> Absent]
    /\ drain = NoDrain
    /\ call = [t \in Threads |-> Idle]
    /\ process = "up"
    /\ budget \in Budgets

Latest(j) == Len(inbox[j])
Queued == {j \in Jobs : job[j].status = "Queued"}

-----------------------------------------------------------------------------
(* Inboxes.  A change of attempt a of job j gives the new values of inbox,   *)
(* receipt and scope, which are parts of the same batch.                     *)

\* Mutant: a closed inbox drops its input without a receipt.
CloseSilently(j, a) ==
    /\ inbox' = [inbox EXCEPT ![j][a].open = FALSE, ![j][a].pending = << >>]
    /\ scope' = scope - Len(inbox[j][a].pending)
    /\ UNCHANGED receipt

\* close_events: an attempt that is already closed has none.
Close(j, a) ==
    /\ inbox' = [inbox EXCEPT ![j][a].open = FALSE, ![j][a].pending = << >>]
    /\ receipt' = [m \in Messages |-> IF m \in ToSet(inbox[j][a].pending)
                                      THEN "NotDelivered" ELSE receipt[m]]
    /\ scope' = scope - Len(inbox[j][a].pending)

\* register_child: the next generation, open and not yet bound to a run.
Register(j) ==
    /\ inbox' = [inbox EXCEPT ![j] = Append(@, Fresh)]
    /\ UNCHANGED <<receipt, scope>>

\* send: one attempt is addressed, and a repeated key finds its claim.
Send(m, j, a) ==
    /\ process = "up"
    /\ m <= budget.messages
    /\ receipt[m] = "unsent" /\ \A n \in Messages : n < m => receipt[n] # "unsent"
    /\ inbox[j][a].open
    /\ Len(inbox[j][a].pending) < InboxLimit
    /\ scope < ScopeLimit
    /\ inbox' = [inbox EXCEPT ![j][a].pending = Append(@, m)]
    /\ receipt' = [receipt EXCEPT ![m] = "Accepted"]
    /\ scope' = scope + 1
    /\ UNCHANGED <<job, transcript, run, drain, call, process, budget>>

-----------------------------------------------------------------------------
(* Service operations.                                                       *)

Goal(op) == CASE op = "start" -> "Running"
              [] op \in {"unprepared", "fail"} -> "Failed"
              [] op = "complete" -> "Completed"
              [] op = "cancel" -> "Cancelled"
              [] op = "requeue" -> "Queued"

\* The checks of start_subagent, complete_subagent, stop_subagent, requeue_subagent.
Allowed(op, status) ==
    CASE op = "start" -> status = "Queued"
      [] op \in {"unprepared", "fail", "complete"} -> status = "Running"
      [] op = "cancel" -> status \in {"Queued", "Running"}
      [] op = "requeue" -> status \in {"Failed", "Cancelled", "Interrupted"}

\* The repository's table, on the status it reads itself.
TransitionValid(from, to) ==
    \/ from = "Queued" /\ to \in {"Running", "Cancelled"}
    \/ from = "Running" /\ to \in {"Completed", "Failed", "Cancelled", "Interrupted"}
    \/ from \in {"Failed", "Cancelled", "Interrupted"} /\ to = "Queued"

Begun(op, j, a) ==
    [pc |-> "check", op |-> op, job |-> j, at |-> a, on |-> 0, seen |-> Fresh]

\* create_subagent.  The parent that delegates is running, so its inbox is open.
Create(j) ==
    /\ process = "up"
    /\ j <= budget.jobs
    /\ job[j].status = "None" /\ \A i \in Jobs : i < j => job[i].status # "None"
    /\ job' = [job EXCEPT ![j].status = "Queued"]
    /\ Register(j)
    /\ drain' = [drain EXCEPT !.notified = drain.pc # "idle"]
    /\ UNCHANGED <<transcript, run, call, process, budget>>

\* cancel_subagent and requeue_subagent of a caller.
Request(c, op, j) ==
    /\ process = "up"
    /\ call[c] = Idle
    /\ Allowed(op, job[j].status)   \* a refused call changes nothing
    /\ \/ op = "cancel" /\ UNCHANGED budget
       \/ /\ op = "requeue" /\ budget.requeues > 0
          /\ budget' = [budget EXCEPT !.requeues = @ - 1]
    /\ call' = [call EXCEPT ![c] = [Begun(op, j, 0) EXCEPT !.pc = "stage"]]
    /\ UNCHANGED <<job, inbox, receipt, transcript, scope, run, drain, process>>

\* The drain gives up: dropping the JoinSet aborts its children, whose jobs stay
\* Running.  Its causes here are refused operations; storage errors and the panic
\* of a child have the same effect and are left out.
DrainFails ==
    /\ drain' = NoDrain
    /\ call' = [call EXCEPT ![Drain] = Idle]
    /\ run' = [r \in Runs |-> IF r \in drain.set THEN [run[r] EXCEPT !.aborted = TRUE]
                              ELSE run[r]]

\* An operation is refused: a joined result looks at the job once more, and any
\* other error of the drain ends it.
Refused(t) ==
    IF t = Drain /\ call[t].op \in {"start", "unprepared"} THEN DrainFails
    ELSE /\ call' = [call EXCEPT ![t] = IF t = Drain THEN [@ EXCEPT !.pc = "latest"] ELSE Idle]
         /\ UNCHANGED <<drain, run>>

\* require_subagent and the status check, for the operations of the drain.
Check ==
    LET f == call[Drain] IN
    /\ f.pc = "check"
    /\ \/ /\ Allowed(f.op, job[f.job].status)
          /\ call' = [call EXCEPT ![Drain].pc = "stage"]
          /\ UNCHANGED <<drain, run>>
       \/ ~ Allowed(f.op, job[f.job].status) /\ Refused(Drain)
    /\ UNCHANGED <<job, inbox, receipt, transcript, scope, process, budget>>

\* register_child or close_child for the latest attempt; a job that becomes
\* Running has no inbox events.  register_child refuses an open predecessor.
Stage(t) ==
    LET f == call[t]
        a == Latest(f.job)
    IN
    /\ f.pc = "stage"
    /\ call' = [call EXCEPT ![t] =
                  IF f.op = "requeue" /\ inbox[f.job][a].open THEN Idle
                  ELSE [f EXCEPT !.pc = "commit", !.on = a, !.seen = inbox[f.job][a]]]
    /\ UNCHANGED <<job, inbox, receipt, transcript, scope, run, drain, process, budget>>

\* What is staged still fits: a registration carries the version of the attempt
\* index, a closing that of the participant.  A participant found closed has no
\* events, and then nothing ties the batch to the attempt.
StagedFits(f) ==
    CASE f.op = "requeue" -> f.on = Latest(f.job)
      [] f.op = "start" -> TRUE
      [] OTHER -> f.seen.open => inbox[f.job][f.on] = f.seen

\* Mutant: a job is stopped without its inbox.
StagedNothing(f) ==
    IF f.op = "requeue" THEN Register(f.job) ELSE UNCHANGED <<inbox, receipt, scope>>

StagedEvents(f) ==
    CASE f.op = "requeue" -> Register(f.job)
      [] f.op \notin {"start", "requeue"} /\ f.seen.open -> Close(f.job, f.on)
      [] OTHER -> UNCHANGED <<inbox, receipt, scope>>

\* commit_subagent: update_subagent_with_events reads the job again, and the batch
\* is refused, retried from Stage, or applied.
Commit(t) ==
    LET f == call[t]
        valid == TransitionValid(job[f.job].status, Goal(f.op))
    IN
    /\ f.pc = "commit"
    /\ \/ /\ ~ valid
          /\ Refused(t)
          /\ UNCHANGED <<job, inbox, receipt, scope>>
       \/ /\ valid /\ ~ StagedFits(f)
          /\ call' = [call EXCEPT ![t].pc = "stage"]
          /\ UNCHANGED <<job, inbox, receipt, scope, run, drain>>
       \/ /\ valid /\ StagedFits(f)
          /\ StagedEvents(f)
          /\ job' = [job EXCEPT ![f.job] =
                        [status |-> Goal(f.op), result |-> IF f.op = "complete" THEN f.at ELSE 0]]
          /\ call' = [call EXCEPT ![t] = IF f.op = "start"
                                         THEN [f EXCEPT !.pc = "prepare", !.at = Latest(f.job)]
                                         ELSE Idle]
          /\ UNCHANGED <<run, drain>>
    /\ UNCHANGED <<transcript, process, budget>>

-----------------------------------------------------------------------------
(* drain_subagents_with_events.  A drain that finds nothing queued ends at   *)
(* once, so it is begun here only when there is a job to start.              *)

DrainBegin ==
    /\ process = "up"
    /\ drain.pc = "idle"
    /\ Queued # {}
    /\ drain' = [drain EXCEPT !.pc = "list"]
    /\ UNCHANGED <<job, inbox, receipt, transcript, scope, run, call, process, budget>>

\* As many queued jobs as there are free slots.
List ==
    /\ drain.pc = "list"
    /\ call[Drain] = Idle
    /\ LET available == MaxConcurrent - Cardinality(drain.set) IN
       \E Q \in SUBSET Queued :
          /\ Cardinality(Q) <= available
          /\ Cardinality(Q) = available \/ Q = Queued
          /\ drain' = [drain EXCEPT !.pc = "start", !.queue = Q]
    /\ UNCHANGED <<job, inbox, receipt, transcript, scope, run, call, process, budget>>

StartNext(j) ==
    /\ drain.pc = "start"
    /\ call[Drain] = Idle
    /\ j \in drain.queue
    /\ drain' = [drain EXCEPT !.queue = @ \ {j}]
    /\ call' = [call EXCEPT ![Drain] = Begun("start", j, 0)]
    /\ UNCHANGED <<job, inbox, receipt, transcript, scope, run, process, budget>>

\* The started job gets its child, or is stopped because its captured context is gone.
Prepare ==
    LET f == call[Drain] IN
    /\ f.pc = "prepare"
    /\ \/ /\ call' = [call EXCEPT ![Drain] = Idle]
          /\ drain' = [drain EXCEPT !.set = @ \cup {<<f.job, f.at>>}]
          /\ run' = [run EXCEPT ![<<f.job, f.at>>] =
                        [Ended("begin") EXCEPT !.turn = 1]]
       \/ /\ call' = [call EXCEPT ![Drain] = Begun("unprepared", f.job, 0)]
          /\ UNCHANGED <<drain, run>>
    /\ UNCHANGED <<job, inbox, receipt, transcript, scope, process, budget>>

Started ==
    /\ drain.pc = "start"
    /\ call[Drain] = Idle
    /\ drain.queue = {}
    /\ drain' = IF drain.set = {} THEN NoDrain ELSE [drain EXCEPT !.pc = "join"]
    /\ UNCHANGED <<job, inbox, receipt, transcript, scope, run, call, process, budget>>

\* A job has been delegated since the drain last looked, and a slot is free.
Notified ==
    /\ drain.pc = "join"
    /\ Cardinality(drain.set) < MaxConcurrent
    /\ drain.notified
    /\ drain' = [drain EXCEPT !.pc = "list", !.notified = FALSE]
    /\ UNCHANGED <<job, inbox, receipt, transcript, scope, run, call, process, budget>>

\* A result that arrives while its job is Cancelled is dropped.
Skips(j) == job[j].status = "Cancelled"

\* join_next: a child has returned, and its result is dropped or reported.
Join(r) ==
    /\ drain.pc = "join"
    /\ r \in drain.set
    /\ run[r].pc \in {"ok", "err"}
    /\ drain' = [drain EXCEPT !.pc = "list", !.set = @ \ {r}]
    /\ call' = IF Skips(r[1]) THEN call
               ELSE [call EXCEPT ![Drain] =
                        Begun(IF run[r].pc = "ok" THEN "complete" ELSE "fail", r[1], r[2])]
    /\ run' = [run EXCEPT ![r] = Absent]
    /\ UNCHANGED <<job, inbox, receipt, transcript, scope, process, budget>>

\* The report was refused: that is fine if the job has been cancelled meanwhile.
LatestStatus ==
    LET f == call[Drain] IN
    /\ f.pc = "latest"
    /\ \/ /\ job[f.job].status = "Cancelled"
          /\ call' = [call EXCEPT ![Drain] = Idle]
          /\ UNCHANGED <<drain, run>>
       \/ job[f.job].status # "Cancelled" /\ DrainFails
    /\ UNCHANGED <<job, inbox, receipt, transcript, scope, process, budget>>

-----------------------------------------------------------------------------
(* A child run, as far as its inbox is concerned.                            *)

Goes(r, pc) == run' = [run EXCEPT ![r].pc = pc, ![r].seen = Fresh]
Returns(r, pc) == run' = [run EXCEPT ![r] = Ended(pc)]

\* begin_run binds the latest attempt of the job, which must be open and unbound.
BeginRead(r) ==
    LET j == r[1]
        a == Latest(j)
    IN
    /\ run[r].pc = "begin"
    /\ run' = IF inbox[j][a].open /\ inbox[j][a].run = NoRun
              THEN [run EXCEPT ![r].pc = "binding", ![r].at = a, ![r].seen = inbox[j][a]]
              ELSE [run EXCEPT ![r] = Ended("err")]
    /\ UNCHANGED <<job, inbox, receipt, transcript, scope, drain, call, process, budget>>

\* A conflict with a message that arrived in between is not retried: the run fails.
BeginCommit(r) ==
    LET j == r[1]
        a == run[r].at
    IN
    /\ run[r].pc = "binding"
    /\ \/ /\ inbox[j][a] = run[r].seen
          /\ inbox' = [inbox EXCEPT ![j][a].run = r]
          /\ Goes(r, "turn")
       \/ inbox[j][a] # run[r].seen /\ Returns(r, "err") /\ UNCHANGED inbox
    /\ UNCHANGED <<job, receipt, transcript, scope, drain, call, process, budget>>

Batch(p) == SubSeq(p.pending, 1, IF Len(p.pending) < BatchLimit THEN Len(p.pending) ELSE BatchLimit)

\* prepare: the oldest input of an open inbox goes into the next request.
PrepareInput(r) ==
    LET p == inbox[r[1]][run[r].at] IN
    /\ run[r].pc = "turn"
    /\ run' = IF p.open /\ p.pending # << >>
              THEN [run EXCEPT ![r].pc = "including", ![r].seen = p]
              ELSE [run EXCEPT ![r].pc = "model"]
    /\ UNCHANGED <<job, inbox, receipt, transcript, scope, drain, call, process, budget>>

\* Mutant: include trusts what prepare read.
BatchTrusted(r) == TRUE

\* The participant has not changed since prepare read it.
BatchCurrent(r) == inbox[r[1]][run[r].at] = run[r].seen

\* include: receipts, transcript, inbox and scope in one batch, or prepare again.
Include(r) ==
    LET j == r[1]
        a == run[r].at
        b == Batch(run[r].seen)
    IN
    /\ run[r].pc = "including"
    /\ \/ /\ BatchCurrent(r)
          /\ inbox' = [inbox EXCEPT ![j][a].pending = SubSeq(@, Len(b) + 1, Len(@))]
          /\ receipt' = [m \in Messages |-> IF m \in ToSet(b) THEN "IncludedInTurn" ELSE receipt[m]]
          /\ transcript' = [transcript EXCEPT ![j] = @ \o b]
          /\ scope' = scope - Len(b)
          /\ Goes(r, "model")
       \/ /\ ~ BatchCurrent(r)
          /\ Goes(r, "turn")
          /\ UNCHANGED <<inbox, receipt, transcript, scope>>
    /\ UNCHANGED <<job, drain, call, process, budget>>

\* The model asked for tools: another turn, or MaxTurns ends the run (RunFails).
ToolTurn(r) ==
    /\ run[r].pc = "model"
    /\ run[r].turn < MaxTurns
    /\ run' = [run EXCEPT ![r].pc = "turn", ![r].turn = @ + 1]
    /\ UNCHANGED <<job, inbox, receipt, transcript, scope, drain, call, process, budget>>

\* A final answer.  try_complete closes an inbox that is empty; accepted input
\* earns another turn, or is refused as BudgetExhausted after the last.
Answer(r) ==
    LET p == inbox[r[1]][run[r].at] IN
    /\ run[r].pc = "model"
    /\ \/ /\ p.pending # << >> /\ run[r].turn < MaxTurns
          /\ run' = [run EXCEPT ![r].pc = "turn", ![r].turn = @ + 1]
          /\ UNCHANGED <<inbox, receipt, scope>>
       \/ /\ p.pending = << >> \/ run[r].turn = MaxTurns
          /\ Close(r[1], run[r].at)
          /\ Goes(r, "ending")
    /\ UNCHANGED <<job, transcript, drain, call, process, budget>>

Ends(r) ==
    /\ run[r].pc = "ending"
    /\ Returns(r, "ok")
    /\ UNCHANGED <<job, inbox, receipt, transcript, scope, drain, call, process, budget>>

\* The end of an owned run, whatever its result: close_run on the bound inbox.
CloseRun(r) ==
    IF \E a \in 1 .. Latest(r[1]) : inbox[r[1]][a].run = r
    THEN Close(r[1], run[r].at) ELSE UNCHANGED <<inbox, receipt, scope>>

\* Any other error or the cancelled control of the run.
RunFails(r) ==
    /\ run[r].pc \in Live
    /\ CloseRun(r)
    /\ Returns(r, "err")
    /\ UNCHANGED <<job, transcript, drain, call, process, budget>>

\* Mutant: the guard of an aborted run does not close the inbox.
AbortedOpen(r) ==
    /\ run[r].pc \in Live
    /\ run[r].aborted
    /\ run' = [run EXCEPT ![r] = Absent]
    /\ UNCHANGED <<job, inbox, receipt, scope, transcript, drain, call, process, budget>>

\* RunOwnershipGuard: an aborted task stops at an await and its guard is dropped.
Aborted(r) ==
    /\ run[r].pc \in Live
    /\ run[r].aborted
    /\ CloseRun(r)
    /\ run' = [run EXCEPT ![r] = Absent]
    /\ UNCHANGED <<job, transcript, drain, call, process, budget>>

-----------------------------------------------------------------------------
(* The process stops and starts again.                                       *)

Crash ==
    /\ process # "down"
    /\ budget.crashes > 0
    /\ process' = "down"
    /\ budget' = [budget EXCEPT !.crashes = @ - 1]
    /\ drain' = NoDrain
    /\ call' = [t \in Threads |-> Idle]
    /\ run' = [r \in Runs |-> Absent]
    /\ UNCHANGED <<job, inbox, receipt, transcript, scope>>

Restart ==
    /\ process = "down"
    /\ process' = "jobs"
    /\ UNCHANGED <<job, inbox, receipt, transcript, scope, run, drain, call, budget>>

Running == {j \in Jobs : job[j].status = "Running"}

\* recover_interrupted_subagents, one job at a time.
RecoverJob(j) ==
    /\ process = "jobs"
    /\ j \in Running
    /\ job' = [job EXCEPT ![j].status = "Interrupted"]
    /\ Close(j, Latest(j))
    /\ UNCHANGED <<transcript, run, drain, call, process, budget>>

\* CommunicationService::recover, one participant at a time.
Stale == {r \in Runs : r[2] <= Latest(r[1]) /\ inbox[r[1]][r[2]].open
                       /\ inbox[r[1]][r[2]].run # NoRun}

RecoverInbox(j, a) ==
    /\ process = "inboxes"
    /\ <<j, a>> \in Stale
    /\ Close(j, a)
    /\ UNCHANGED <<job, transcript, run, drain, call, process, budget>>

Recovered ==
    /\ \/ process = "jobs" /\ Running = {} /\ process' = "inboxes"
       \/ process = "inboxes" /\ Stale = {} /\ process' = "up"
    /\ UNCHANGED <<job, inbox, receipt, transcript, scope, run, drain, call, budget>>

-----------------------------------------------------------------------------
Scheduling ==
    \/ DrainBegin \/ List \/ Started \/ Notified
    \/ \E j \in Jobs : StartNext(j)
    \/ call[Drain] # Idle /\ (Check \/ Stage(Drain) \/ Commit(Drain) \/ Prepare \/ LatestStatus)
    \/ \E r \in Runs : Join(r)

RunStep(r) ==
    \/ BeginRead(r) \/ BeginCommit(r) \/ PrepareInput(r) \/ Include(r)
    \/ ToolTurn(r) \/ Answer(r) \/ Ends(r)
    \/ run[r] # Absent /\ (RunFails(r) \/ Aborted(r))

Serving(c) == call[c] # Idle /\ (Stage(c) \/ Commit(c))

Recovery == Restart \/ Recovered \/ \E j \in Jobs : RecoverJob(j)
            \/ \E r \in Runs : RecoverInbox(r[1], r[2])

Next ==
    \/ Scheduling
    \/ \E r \in Runs : RunStep(r)
    \/ \E c \in Callers : Serving(c) \/ \E op \in {"cancel", "requeue"}, j \in Jobs : Request(c, op, j)
    \/ \E j \in Jobs : Create(j) \/ \E m \in Messages, a \in 1 .. Latest(j) : Send(m, j, a)
    \/ Crash \/ Recovery

Spec == Init /\ [][Next]_vars

\* Tasks of a running process are scheduled, the worker drains again and again, and
\* a process that stopped is started again.
FairSpec ==
    /\ Spec
    /\ WF_vars(Scheduling)
    /\ \A r \in Runs : WF_vars(RunStep(r))
    /\ \A c \in Callers : WF_vars(Serving(c))
    /\ WF_vars(Recovery)

-----------------------------------------------------------------------------
PendingOf(j, a) == ToSet(inbox[j][a].pending)

\* "A successful send cannot disappear between a final inbox check and completion"
\* (docs/develop/adr/0007-agent-communication.md:246): an accepted message waits in
\* exactly one open inbox, an included one stands once in the transcript of its job
\* and waits nowhere, and a message that was not delivered is in neither.
MessageInOnePlace ==
    \A m \in Messages :
        LET waiting == {r \in Runs : r[2] <= Latest(r[1]) /\ m \in PendingOf(r[1], r[2])}
            written == {w \in Jobs \X (1 .. Cardinality(Messages)) :
                           w[2] <= Len(transcript[w[1]]) /\ transcript[w[1]][w[2]] = m}
        IN
        /\ Cardinality(waiting) = IF receipt[m] = "Accepted" THEN 1 ELSE 0
        /\ \A r \in waiting : inbox[r[1]][r[2]].open
        /\ Cardinality(written) = IF receipt[m] = "IncludedInTurn" THEN 1 ELSE 0

\* The bytes of the scope are those of its inboxes, so that the admission limit of
\* send neither leaks nor is exceeded, and the checked subtractions never fail.
ScopeAccounted == scope = Cardinality({m \in Messages : receipt[m] = "Accepted"})

\* Messages are neither lost, doubled nor miscounted, whoever closes an inbox.
MessagesAccounted == TypeOK /\ MessageInOnePlace /\ ScopeAccounted

\* Only the latest attempt of a job can be open, and not after the job has ended: a
\* job that has ended can be requeued (register_child refuses an open predecessor)
\* and nobody can send to it.  With one caller at a time; see the README for two.
EndedInboxIsClosed ==
    \A j \in Jobs : \A a \in 1 .. Latest(j) :
        inbox[j][a].open => a = Latest(j) /\ job[j].status \in {"Queued", "Running"}

\* A receipt is final: closing an inbox never takes back an inclusion, and a late
\* include never revives a message whose sender was told it was not delivered.
ReceiptsAreFinal ==
    [][\A m \in Messages : receipt[m] \in {"IncludedInTurn", "NotDelivered"} =>
          receipt'[m] = receipt[m]]_receipt

\* The job is Running and neither the drain nor a child works on it.
Stranded(j) ==
    /\ job[j].status = "Running"
    /\ ~ \E r \in drain.set : r[1] = j
    /\ call[Drain] = Idle \/ call[Drain].job # j

\* Every accepted message is settled in the end: included, or reported as not
\* delivered.  Only a job that a failed drain leaves Running keeps input waiting,
\* until the next start of the process.
MessagesSettle ==
    []<>(\A j \in Jobs : \A a \in 1 .. Latest(j) :
            inbox[j][a].pending # << >> => Stranded(j))

\* An inbox bound to a run is closed in the end, whether the run answers, fails, is
\* aborted with the drain, or dies with the process.
BoundInboxCloses == []<>(Stale = {})

\* Neither a message nor an inbox is left behind.
InboxesSettle == MessagesSettle /\ BoundInboxCloses

\* "Late child output is never committed" (cancel_subagent): the result of a
\* completed job is that of its current attempt.
LateOutputNotCommitted ==
    \A j \in Jobs : job[j].status = "Completed" => job[j].result = Latest(j)
=============================================================================
