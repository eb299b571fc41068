------------------------------ MODULE WorkGoals ------------------------------
(***************************************************************************)
(* Bounded goals of colossus-work and the runtime loop that drives them.   *)
(* A goal is a journal stream whose last event holds the whole record.     *)
(* Drivers (a first run, `/goal resume` from another terminal or worker)   *)
(* reserve one iteration before each agent run; reporters mark the goal    *)
(* complete or blocked, usually from a tool call inside a run.  Both read  *)
(* the record in the service, read it again in the repository and append   *)
(* the whole record at the version read.  Names shared with WorkPlans have *)
(* the prefix Goal, so that one module can extend both.                    *)
(***************************************************************************)
EXTENDS Naturals, Sequences

CONSTANTS Drivers, Reporters, Budget, MaxEvents

ASSUME WorkGoalsAssumption ==
    /\ Budget \in Nat \ {0}
    /\ MaxEvents \in Nat
    /\ Drivers \cap Reporters = {}

VARIABLES
    history,  \* the records of stream goal:<id>, oldest first
    drv,      \* drv[d]: where a driver is in run_existing_goal_stream_controlled
    rep,      \* rep[r]: where a reporter is in update_goal_status
    started   \* the iterations for which an agent run was started, in order

goalVars == <<history, drv, rep, started>>

GoalStatus == {"Active", "Complete", "Blocked"}

\* evidence: who wrote the terminal evidence (summary and blocked reason), or "none".
GoalRecord == [status: GoalStatus, evidence: Reporters \cup {"none"}, done: Nat]

GoalIdle    == [pc |-> "idle"]
Looping     == [pc: {"loop", "reserve", "run"}, last: Nat, slot: Nat]
GoalWriting == [pc: {"repository", "append"}, last: Nat, slot: Nat, rec: GoalRecord, version: Nat]
Report      == [pc: {"repository", "append"}, rec: GoalRecord, version: Nat]

CurrentGoal == history[Len(history)]

GoalTypeOK ==
    /\ history \in Seq(GoalRecord)
    /\ drv \in [Drivers -> {GoalIdle} \cup Looping \cup GoalWriting]
    /\ rep \in [Reporters -> {GoalIdle} \cup Report]
    /\ started \in Seq(Nat)

\* create_goal: active with no completed iteration.
GoalInit ==
    /\ history = <<[status |-> "Active", evidence |-> "none", done |-> 0]>>
    /\ drv = [d \in Drivers |-> GoalIdle]
    /\ rep = [r \in Reporters |-> GoalIdle]
    /\ started = << >>

Stop(d) == drv' = [drv EXCEPT ![d] = GoalIdle]

-----------------------------------------------------------------------------
\* validate_goal_resume_selection, then the loop over first_iteration..=budget:
\* last counts the loop's own iterations, which it does not take from the goal.
Resume(d) ==
    /\ drv[d].pc = "idle"
    /\ CurrentGoal.status = "Active"
    /\ CurrentGoal.done < Budget
    /\ drv' = [drv EXCEPT ![d] = [pc |-> "loop", last |-> CurrentGoal.done, slot |-> 0]]
    /\ UNCHANGED <<history, rep, started>>

\* Top of the loop: a goal that is no longer active, a cancelled control or an
\* exhausted range ends it.
LoopRead(d) ==
    /\ drv[d].pc = "loop"
    /\ \/ /\ CurrentGoal.status = "Active"
          /\ drv[d].last < Budget
          /\ drv' = [drv EXCEPT ![d].pc = "reserve"]
       \/ Stop(d)
    /\ UNCHANGED <<history, rep, started>>

\* WorkService::record_goal_iteration: only the budget is checked, a terminal
\* goal may still record the iteration that finished it.
BudgetLeft(g) == g.done < Budget

Reserve(d) ==
    /\ drv[d].pc = "reserve"
    /\ \/ /\ BudgetLeft(CurrentGoal)
          /\ drv' = [drv EXCEPT ![d] =
                       [pc |-> "repository", last |-> @.last, slot |-> 0,
                        rec |-> [CurrentGoal EXCEPT !.done = @ + 1], version |-> 0]]
       \/ ~ BudgetLeft(CurrentGoal) /\ Stop(d)
    /\ UNCHANGED <<history, rep, started>>

\* Mutant: a stale count is not noticed.
CountNotCompared(rec, g) ==
    g.status = rec.status /\ g.evidence = rec.evidence

\* Mutant: a status written since the service read is overwritten.
StatusNotCompared(rec, g) ==
    g.done + 1 = rec.done /\ g.done < Budget

\* EventSourcedWorkRepository::record_goal_iteration against the record g.
ReservationAccepted(rec, g) ==
    /\ g.done + 1 = rec.done
    /\ g.done < Budget
    /\ g.status = rec.status
    /\ g.evidence = rec.evidence

ReserveRepository(d) ==
    /\ drv[d].pc = "repository"
    /\ \/ /\ ReservationAccepted(drv[d].rec, CurrentGoal)
          /\ drv' = [drv EXCEPT ![d].pc = "append", ![d].version = Len(history)]
       \/ ~ ReservationAccepted(drv[d].rec, CurrentGoal) /\ Stop(d)
    /\ UNCHANGED <<history, rep, started>>

\* The journal's optimistic check, in append_locked.
GoalVersionMatches(version) == Len(history) = version

\* The append; a lost outcome leaves the slot consumed without a run.
ReserveCommit(d) ==
    /\ drv[d].pc = "append"
    /\ Len(history) < MaxEvents
    /\ \/ /\ GoalVersionMatches(drv[d].version)
          /\ history' = Append(history, drv[d].rec)
          /\ \/ drv' = [drv EXCEPT ![d] = [pc |-> "run", last |-> @.last, slot |-> @.rec.done]]
             \/ Stop(d)
       \/ /\ ~ GoalVersionMatches(drv[d].version)
          /\ Stop(d)
          /\ history' = history
    /\ UNCHANGED <<rep, started>>

\* The agent run of the reserved iteration; when it completes the loop goes on,
\* a failed or cancelled run ends the driver and keeps the reservation.
RunIteration(d) ==
    /\ drv[d].pc = "run"
    /\ started' = Append(started, drv[d].slot)
    /\ \/ drv' = [drv EXCEPT ![d] = [pc |-> "loop", last |-> @.last + 1, slot |-> 0]]
       \/ Stop(d)
    /\ UNCHANGED <<history, rep>>

\* WorkService::update_goal_status: only an active goal is reported on, with any
\* status; a report that it is still active changes its evidence.
ReportStatus(r, s) ==
    /\ rep[r].pc = "idle"
    /\ CurrentGoal.status = "Active"
    /\ rep' = [rep EXCEPT ![r] =
                 [pc |-> "repository", rec |-> [CurrentGoal EXCEPT !.status = s, !.evidence = r],
                  version |-> 0]]
    /\ UNCHANGED <<history, drv, started>>

\* EventSourcedWorkRepository::update_goal against the record g.
ReportAccepted(rec, g) ==
    /\ g.status # "Active" => (rec.status = g.status /\ rec.evidence = g.evidence)
    /\ rec.done = g.done

ReportRepository(r) ==
    /\ rep[r].pc = "repository"
    /\ rep' = [rep EXCEPT ![r] =
                 IF ReportAccepted(@.rec, CurrentGoal)
                 THEN [pc |-> "append", rec |-> @.rec, version |-> Len(history)]
                 ELSE GoalIdle]
    /\ UNCHANGED <<history, drv, started>>

ReportCommit(r) ==
    /\ rep[r].pc = "append"
    /\ Len(history) < MaxEvents
    /\ history' = IF GoalVersionMatches(rep[r].version)
                  THEN Append(history, rep[r].rec)
                  ELSE history
    /\ rep' = [rep EXCEPT ![r] = GoalIdle]
    /\ UNCHANGED <<drv, started>>

\* The process stops; what it was doing is forgotten, the journal is not.
GoalCrash ==
    /\ drv' = [d \in Drivers |-> GoalIdle]
    /\ rep' = [r \in Reporters |-> GoalIdle]
    /\ UNCHANGED <<history, started>>

GoalNext ==
    \/ \E d \in Drivers : \/ Resume(d) \/ LoopRead(d) \/ Reserve(d) \/ ReserveRepository(d)
                          \/ ReserveCommit(d) \/ RunIteration(d)
    \/ \E r \in Reporters : \/ \E s \in GoalStatus : ReportStatus(r, s)
                            \/ ReportRepository(r) \/ ReportCommit(r)
    \/ GoalCrash

GoalSpec == GoalInit /\ [][GoalNext]_goalVars

-----------------------------------------------------------------------------
\* The budget bounds the runs, not only the record: however many drivers resume
\* the goal and however often they stop, no more runs start than the budget
\* allows and no two runs use the same slot ("resume cannot replay the same
\* budget slot", WorkService::record_goal_iteration).
EachSlotRunsOnce ==
    /\ CurrentGoal.done <= Budget
    /\ \A i \in 1 .. Len(started) : started[i] \in 1 .. CurrentGoal.done
    /\ \A i, j \in 1 .. Len(started) : started[i] = started[j] => i = j

\* A status report never takes back a reservation made since it read the goal.
CountNeverFalls ==
    \A i, j \in 1 .. Len(history) : i < j => history[i].done <= history[j].done

\* Each iteration slot is reserved and run once, and stays reserved.
SlotUsedOnce == GoalTypeOK /\ EachSlotRunsOnce /\ CountNeverFalls

\* Once a goal is complete or blocked, its status and evidence stay, also when
\* an iteration or a second report was already on its way.
TerminalEvidenceStays ==
    \A i, j \in 1 .. Len(history) : (i < j /\ history[i].status # "Active") =>
        history[j].status = history[i].status /\ history[j].evidence = history[i].evidence
=============================================================================
