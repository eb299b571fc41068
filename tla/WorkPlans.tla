------------------------------ MODULE WorkPlans ------------------------------
(***************************************************************************)
(* Plans of colossus-work: a plan is a journal stream whose last event     *)
(* holds the whole record.  Callers (terminal, worker, SDK, model tools)   *)
(* run concurrently and without a lock.  Each operation is three steps:    *)
(* the service reads the record and builds the next one, the repository    *)
(* reads it again with its stream version and checks the transition, the   *)
(* journal appends at that version or reports a conflict.  Executing a     *)
(* plan adds the runtime's steps around them: it selects a plan and keeps  *)
(* its content for the prompt, and it starts the run once the plan is      *)
(* consumed, directly or by the goal created in the same batch.            *)
(***************************************************************************)
EXTENDS Naturals, Sequences

CONSTANTS Callers, Plans, RunIds, Contents, MaxRevision, NoId

ASSUME WorkPlansAssumption ==
    /\ MaxRevision \in Nat
    /\ NoId \notin RunIds

VARIABLES
    plan,     \* plan[p]: the records of stream plan:p, oldest first
    goal,     \* goal[id]: the plan a goal was created from, NoId when absent
    minted,   \* run and goal ids handed out (Uuid::now_v7)
    call,     \* call[c]: the operation caller c is in the middle of
    runs      \* the agent runs started for executed plans

vars == <<plan, goal, minted, call, runs>>

Status == {"Draft", "Approved", "Executed", "Discarded"}

\* approved: approved_at, as the revision it was stamped at (0: none).  Records
\* written before plans had revisions, which read as revision zero, are left out.
PlanRecord == [status: Status, revision: Nat, content: Contents,
               approved: Nat, run: RunIds \cup {NoId}]

Ops == {"update", "approve", "discard", "execute", "goal"}

\* rev: expected_revision, 0 when the caller names none.
\* shown: the content the runtime read for the prompt.
Idle     == [pc |-> "idle"]
Selected == [pc: {"selected"}, op: {"execute", "goal"}, p: Plans, rev: Nat, shown: Contents]
Writing  == [pc: {"repository", "append", "start"}, op: Ops, p: Plans, rev: Nat,
             shown: Contents, rec: PlanRecord, version: Nat]
Frame    == {Idle} \cup Selected \cup Writing

Current(p) == plan[p][Len(plan[p])]

Run == [id: RunIds, p: Plans, content: Contents]

TypeOK ==
    /\ plan \in [Plans -> Seq(PlanRecord)]
    /\ goal \in [RunIds -> Plans \cup {NoId}]
    /\ minted \in SUBSET RunIds
    /\ call \in [Callers -> Frame]
    /\ runs \in SUBSET Run

Init ==
    /\ plan = [p \in Plans |-> << >>]
    /\ goal = [id \in RunIds |-> NoId]
    /\ minted = {}
    /\ call = [c \in Callers |-> Idle]
    /\ runs = {}

Return(c) == call' = [call EXCEPT ![c] = Idle]

-----------------------------------------------------------------------------
\* WorkService::create_plan: a new id, a draft at revision one.
CreatePlan(p, x) ==
    /\ plan[p] = << >>
    /\ plan' = [plan EXCEPT ![p] =
                  <<[status |-> "Draft", revision |-> 1, content |-> x,
                     approved |-> 0, run |-> NoId]>>]
    /\ UNCHANGED <<goal, minted, call, runs>>

\* What the service writes over the record it read.
Edited(r, x)      == [r EXCEPT !.content = x]
ApprovedRec(r)    == [r EXCEPT !.status = "Approved", !.approved = r.revision]
DiscardedRec(r)   == [r EXCEPT !.status = "Discarded"]
ExecutedRec(r, i) == [r EXCEPT !.status = "Executed", !.run = i]

\* require_plan_revision; an unnamed revision is the one read a moment before.
RevisionNamed(r, rev) == rev = 0 \/ r.revision = rev

\* The service step of update_draft_plan, approve_plan(_at_revision) and
\* discard_plan(_at_revision).  rev is any revision the caller may have seen.
Edit(c, op, p, rev, x) ==
    /\ call[c].pc = "idle"
    /\ op \in {"update", "approve", "discard"}
    /\ plan[p] # << >>
    /\ rev \in 0 .. Len(plan[p])
    /\ op = "update" => rev # 0
    /\ RevisionNamed(Current(p), rev)
    /\ Current(p).status \in (IF op = "discard" THEN {"Draft", "Approved"} ELSE {"Draft"})
    /\ LET r == Current(p) IN
       call' = [call EXCEPT ![c] =
                  [pc |-> "repository", op |-> op, p |-> p, rev |-> rev, shown |-> r.content,
                   rec |-> CASE op = "update"  -> Edited(r, x)
                             [] op = "approve" -> ApprovedRec(r)
                             [] op = "discard" -> DiscardedRec(r),
                   version |-> 0]]
    /\ UNCHANGED <<plan, goal, minted, runs>>

\* Runtime: read the plan an execution names, keep its content for the prompt
\* (goal_objective_from_plan), then go through the gateway.
Select(c, op, p, rev) ==
    /\ call[c].pc = "idle"
    /\ op \in {"execute", "goal"}
    /\ plan[p] # << >>
    /\ Current(p).status = "Approved"
    /\ rev \in {0, Current(p).revision}
    /\ op = "goal" => rev # 0
    /\ call' = [call EXCEPT ![c] =
                  [pc |-> "selected", op |-> op, p |-> p, rev |-> rev,
                   shown |-> Current(p).content]]
    /\ UNCHANGED <<plan, goal, minted, runs>>

\* execute_plan(_at_revision) and create_goal_with_plan_at_revision: re-read the
\* plan and mark it executed by a fresh run or goal id.
Consume(c, id) ==
    LET f == call[c]  r == Current(f.p) IN
    /\ f.pc = "selected"
    /\ id \in RunIds \ minted
    /\ \/ /\ RevisionNamed(r, f.rev)
          /\ r.status = "Approved"
          /\ call' = [call EXCEPT ![c] =
                        [pc |-> "repository", op |-> f.op, p |-> f.p, rev |-> f.rev,
                         shown |-> f.shown, rec |-> ExecutedRec(r, id), version |-> 0]]
       \/ /\ ~ (RevisionNamed(r, f.rev) /\ r.status = "Approved")
          /\ Return(c)
    /\ minted' = minted \cup {id}
    /\ UNCHANGED <<plan, goal, runs>>

\* update_plan's transition table, approval lineage and content rule; with an
\* executed record also the comparison of create_goal_from_plan.
Transition(from, to) ==
    \/ from.status = "Draft"    /\ to.status = "Draft"     /\ to.approved = 0
    \/ from.status = "Draft"    /\ to.status = "Discarded" /\ to.approved = 0
                                /\ to.content = from.content
    \/ from.status = "Draft"    /\ to.status = "Approved"  /\ to.approved # 0
                                /\ to.content = from.content
    \/ /\ from.status = "Approved"
       /\ to.status \in {"Executed", "Discarded"}
       /\ to.approved = from.approved
       /\ to.content = from.content

\* validate_plan: which lifecycle fields each status may carry.
LifecycleValid(r) ==
    CASE r.status = "Draft"     -> r.approved = 0 /\ r.run = NoId
      [] r.status = "Approved"  -> r.approved # 0 /\ r.run = NoId
      [] r.status = "Executed"  -> r.approved # 0 /\ r.run # NoId
      [] r.status = "Discarded" -> r.run = NoId

\* Mutant: only the stream version protects the record.
RevisionIgnored(f, r) ==
    LifecycleValid(f.rec) /\ Transition(r, f.rec) /\ (f.op = "goal" => goal[f.rec.run] = NoId)

\* The check part of update_plan and create_goal_from_plan against record r.
Accepted(f, r) ==
    /\ LifecycleValid(f.rec)
    /\ f.rec.revision = r.revision
    /\ Transition(r, f.rec)
    /\ f.op = "goal" => goal[f.rec.run] = NoId

\* update_plan / create_goal_from_plan: one read gives record and version.
Repository(c) ==
    LET f == call[c]  r == Current(f.p) IN
    /\ f.pc = "repository"
    /\ \/ /\ Accepted(f, r)
          /\ call' = [call EXCEPT ![c] =
                        [f EXCEPT !.pc = "append", !.version = Len(plan[f.p]),
                                  !.rec = [f.rec EXCEPT !.revision = @ + 1]]]
       \/ /\ ~ Accepted(f, r)
          /\ Return(c)
    /\ UNCHANGED <<plan, goal, minted, runs>>

\* Mutant: the append does not compare the stream version.
AnyVersion(f) == TRUE

\* The journal's optimistic check, in append_locked.
VersionMatches(f) == Len(plan[f.p]) = f.version

\* Goal and plan events go in one append_batch, so they land together.
GoalCreated(f) ==
    IF f.op = "goal" THEN [goal EXCEPT ![f.rec.run] = f.p] ELSE goal

\* Mutant: a conflict while consuming does not stop the run.
CommitIgnoresConflict(c) ==
    LET f == call[c] IN
    /\ f.pc = "append"
    /\ \/ /\ VersionMatches(f)
          /\ plan' = [plan EXCEPT ![f.p] = Append(@, f.rec)]
          /\ goal' = GoalCreated(f)
       \/ /\ ~ VersionMatches(f)
          /\ UNCHANGED <<plan, goal>>
    /\ IF f.op = "execute" THEN call' = [call EXCEPT ![c].pc = "start"] ELSE Return(c)
    /\ UNCHANGED <<minted, runs>>

\* The append.  The caller learns the outcome, or loses it (a failed terminal
\* effect record, a dropped connection): the plan stays consumed without a run.
Commit(c) ==
    LET f == call[c] IN
    /\ f.pc = "append"
    /\ \/ /\ VersionMatches(f)
          /\ plan' = [plan EXCEPT ![f.p] = Append(@, f.rec)]
          /\ goal' = GoalCreated(f)
          /\ \/ Return(c)
             \/ f.op \in {"execute", "goal"} /\ call' = [call EXCEPT ![c].pc = "start"]
       \/ /\ ~ VersionMatches(f)
          /\ Return(c)
          /\ UNCHANGED <<plan, goal>>
    /\ UNCHANGED <<minted, runs>>

\* run_approved_plan / run_existing_goal: the run carries the content selected.
StartRun(c) ==
    LET f == call[c] IN
    /\ f.pc = "start"
    /\ runs' = runs \cup {[id |-> f.rec.run, p |-> f.p, content |-> f.shown]}
    /\ Return(c)
    /\ UNCHANGED <<plan, goal, minted>>

\* The process stops; the caller's operation is forgotten.
Crash(c) ==
    /\ call[c].pc # "idle"
    /\ Return(c)
    /\ UNCHANGED <<plan, goal, minted, runs>>

\* Bound: streams stop growing at MaxRevision events.
Bounded(c) == call[c].pc = "append" /\ Len(plan[call[c].p]) < MaxRevision

Next ==
    \/ \E p \in Plans, x \in Contents : CreatePlan(p, x)
    \/ \E c \in Callers :
          \/ \E op \in Ops, p \in Plans, rev \in 0 .. MaxRevision :
                \/ \E x \in Contents : Edit(c, op, p, rev, x)
                \/ Select(c, op, p, rev)
          \/ \E id \in RunIds : Consume(c, id)
          \/ Repository(c)
          \/ Bounded(c) /\ Commit(c)
          \/ StartRun(c)
          \/ Crash(c)

Spec == Init /\ [][Next]_vars

-----------------------------------------------------------------------------
\* The revision a record carries is its position in the stream: comparing
\* revisions and comparing stream versions turn away the same stale writers
\* (update_plan and create_goal_from_plan advance both).
RevisionIsVersion ==
    \A p \in Plans : \A i \in 1 .. Len(plan[p]) : plan[p][i].revision = i

\* What was approved is what stays: after an approval no caller changes the
\* content or takes the plan back to draft, whatever it read before.
ApprovedIsFinal ==
    \A p \in Plans : \A i, j \in 1 .. Len(plan[p]) :
        (plan[p][i].status # "Draft" /\ i < j) =>
            /\ plan[p][j].status \notin {"Draft", "Approved"}
            /\ plan[p][j].content = plan[p][i].content

\* A run was started only for the plan whose last record it consumed, with the
\* content that was approved; so a plan is executed at most once
\* ("can be consumed atomically once", docs/use/tasks-decisions-plans.md).
RunConsumedItsPlan ==
    \A r \in runs :
        /\ plan[r.p] # << >>
        /\ Current(r.p).status = "Executed"
        /\ Current(r.p).run = r.id
        /\ \E i \in 1 .. Len(plan[r.p]) :
              plan[r.p][i].status = "Approved" /\ plan[r.p][i].content = r.content

\* A goal with a source plan exists only together with the plan record it
\* consumed, and that plan was consumed by no one else.
GoalConsumedItsPlan ==
    /\ \A id \in RunIds : goal[id] # NoId =>
          /\ plan[goal[id]] # << >>
          /\ Current(goal[id]).status = "Executed"
          /\ Current(goal[id]).run = id
    /\ \A c \in Callers : (call[c].pc = "start" /\ call[c].op = "goal") =>
          goal[call[c].rec.run] = call[c].p

\* An approved plan is consumed by at most one run or goal, which has the text that
\* was approved.
PlanConsumedOnce ==
    TypeOK /\ RevisionIsVersion /\ RunConsumedItsPlan /\ GoalConsumedItsPlan

\* A caller that names a revision writes directly after that revision or not at
\* all: nobody overwrites or approves a draft it has not seen.
NamedRevisionIsLatest ==
    [][\A p \in Plans : Len(plan'[p]) > Len(plan[p]) =>
         \/ plan[p] = << >>
         \/ \E c \in Callers : /\ call[c].pc = "append"
                               /\ call[c].p = p
                               /\ call[c].rec = Current(p)'
                               /\ call[c].rev \in {0, Len(plan[p])}]_vars
=============================================================================
