----------------------------- MODULE WorkProofs -----------------------------
(***************************************************************************)
(* Theorems about plans (WorkPlans) and goals (WorkGoals): any number of   *)
(* callers, plans, drivers and reporters, any budget and any length of the *)
(* histories.  The two are separate specifications; the second part of the *)
(* module is about goals.                                                  *)
(***************************************************************************)
EXTENDS WorkPlans, WorkGoals, TLAPS


(* The frames of an operation that consumes its plan. *)
Consuming(f) ==
    f.pc \in {"repository", "append", "start"} /\ f.op \in {"execute", "goal"}

(* The content kept for the prompt was approved. *)
ShownApproved(f) ==
    \E i \in 1 .. Len(plan[f.p]) :
        plan[f.p][i].status = "Approved" /\ plan[f.p][i].content = f.shown

(* What a frame knows: the plan exists; a named revision is the one the    *)
(* record was built from; what waits to be appended was accepted against   *)
(* the record of its version; whoever may start a run consumed the plan.   *)
FrameOK(f) ==
    /\ f.pc # "idle" => Len(plan[f.p]) > 0
    /\ f.pc = "selected" \/ Consuming(f) => ShownApproved(f)
    /\ Consuming(f) => f.rec.status = "Executed" /\ f.rec.run \in minted
    /\ f.pc = "repository" => f.rev \in {0, f.rec.revision}
    /\ f.pc = "append" =>
         /\ f.version <= Len(plan[f.p])
         /\ f.rec.revision = f.version + 1
         /\ f.rev \in {0, f.version}
         /\ VersionMatches(f) => Transition(Current(f.p), f.rec)
    /\ f.pc = "start" =>
         /\ f.op \in {"execute", "goal"}
         /\ Current(f.p).status = "Executed"
         /\ Current(f.p).run = f.rec.run
         /\ f.op = "goal" => goal[f.rec.run] = f.p

FramesOK == \A c \in Callers : FrameOK(call[c])

(* A run id belongs to one caller. *)
RunsOwned ==
    \A c, d \in Callers :
        (Consuming(call[c]) /\ Consuming(call[d]) /\ call[c].rec.run = call[d].rec.run) => c = d

Inductive ==
    /\ TypeOK
    /\ RevisionIsVersion
    /\ ApprovedIsFinal
    /\ RunConsumedItsPlan
    /\ GoalConsumedItsPlan
    /\ FramesOK
    /\ RunsOwned

-----------------------------------------------------------------------------
(* What a caller keeps, by where it is. *)
LEMMA CallFrame ==
  ASSUME TypeOK, NEW c \in Callers
  PROVE  /\ call[c].pc = "idle" <=> call[c] = Idle
         /\ call[c].pc = "selected" => call[c] \in Selected
         /\ call[c].pc \in {"repository", "append", "start"} => call[c] \in Writing
         /\ call[c].pc \in {"idle", "selected", "repository", "append", "start"}
<1>1. call[c] \in {Idle} \cup Selected \cup Writing
  BY DEF TypeOK, Frame
<1>2. CASE call[c] = Idle
  BY <1>2 DEF Idle
<1>3. CASE call[c] \in Selected
  BY <1>3 DEF Selected, Idle
<1>4. CASE call[c] \in Writing
  BY <1>4 DEF Writing, Idle
<1> QED BY <1>1, <1>2, <1>3, <1>4

(* The plan a frame names is a plan. *)
LEMMA FramePlan ==
  ASSUME TypeOK, NEW c \in Callers, call[c].pc # "idle"
  PROVE  call[c].p \in Plans
<1>1. CASE call[c] \in Selected
  BY <1>1 DEF Selected
<1>2. CASE call[c] \in Writing
  BY <1>2 DEF Writing
<1> QED BY <1>1, <1>2, CallFrame

(* The last record of a plan that exists is a record. *)
LEMMA CurrentType ==
  ASSUME TypeOK, NEW p \in Plans, Len(plan[p]) > 0
  PROVE  /\ Len(plan[p]) \in Nat \ {0}
         /\ Current(p) \in PlanRecord
         /\ Current(p).revision \in Nat
         /\ Current(p).content \in Contents
<1>1. plan[p] \in Seq(PlanRecord) /\ Len(plan[p]) \in 1 .. Len(plan[p])
  BY DEF TypeOK
<1>2. Current(p) \in PlanRecord
  BY <1>1 DEF Current
<1> QED BY <1>1, <1>2 DEF PlanRecord

(* An empty history has no length. *)
LEMMA NotEmpty ==
  ASSUME TypeOK, NEW p \in Plans
  PROVE  Len(plan[p]) \in Nat /\ (plan[p] # << >> <=> Len(plan[p]) > 0)
BY DEF TypeOK

(* The last revision is the number of records. *)
LEMMA CurrentRevision ==
  ASSUME Inductive, NEW p \in Plans, Len(plan[p]) > 0
  PROVE  Current(p).revision = Len(plan[p])
BY CurrentType DEF Inductive, RevisionIsVersion, Current

-----------------------------------------------------------------------------
(* A step that leaves the plans, goals and runs alone and moves the caller *)
(* c to a frame x that knows what it claims and shares no run id.          *)
LEMMA CallerMoves ==
  ASSUME Inductive, NEW c \in Callers, NEW x \in Frame,
         call' = [call EXCEPT ![c] = x], UNCHANGED <<plan, goal>>,
         minted \subseteq minted', minted' \in SUBSET RunIds,
         runs' \in SUBSET Run, RunConsumedItsPlan',
         FrameOK(x)',
         Consuming(x) => \A d \in Callers \ {c} :
                            Consuming(call[d]) => x.rec.run # call[d].rec.run,
         x.pc # "start"
  PROVE  Inductive'
<1>1. /\ call'[c] = x
      /\ \A d \in Callers \ {c} : call'[d] = call[d]
  BY DEF Inductive, TypeOK
<1>2. TypeOK'
  BY DEF Inductive, TypeOK
<1>3. RevisionIsVersion' /\ ApprovedIsFinal'
  BY DEF Inductive, RevisionIsVersion, ApprovedIsFinal
<1>4. \A p : Current(p)' = Current(p)
  BY DEF Current
<1>5. GoalConsumedItsPlan'
  BY <1>1, <1>4 DEF Inductive, GoalConsumedItsPlan
<1>6. ASSUME NEW d \in Callers \ {c}
      PROVE  FrameOK(call[d])'
  <2>1. FrameOK(call[d]) /\ call'[d] = call[d]
    BY <1>1 DEF Inductive, FramesOK
  <2> QED BY <2>1, <1>4 DEF FrameOK, ShownApproved, Consuming, VersionMatches
<1>7. FramesOK'
  <2>1. FrameOK(call[c])'
    BY <1>1 DEF FrameOK, ShownApproved, Consuming, VersionMatches
  <2> QED BY <2>1, <1>6 DEF FramesOK
<1>8. RunsOwned'
  BY <1>1 DEF Inductive, RunsOwned, Consuming
<1> QED BY <1>2, <1>3, <1>5, <1>7, <1>8 DEF Inductive

(* Returning is such a step. *)
LEMMA CallerReturns ==
  ASSUME Inductive, NEW c \in Callers, Return(c), UNCHANGED <<plan, goal>>,
         minted \subseteq minted', minted' \in SUBSET RunIds,
         runs' \in SUBSET Run, RunConsumedItsPlan'
  PROVE  Inductive'
<1>1. Idle \in Frame /\ Idle.pc = "idle"
  BY DEF Idle, Frame
<1>2. call' = [call EXCEPT ![c] = Idle]
  BY DEF Return
<1>3. FrameOK(Idle)' /\ ~ Consuming(Idle)
  BY <1>1 DEF FrameOK, Consuming, Idle
<1> QED BY <1>1, <1>2, <1>3, CallerMoves

(* Nothing that the consumed plans depend on changes. *)
LEMMA RunsKept ==
  ASSUME Inductive, UNCHANGED <<plan, runs>>
  PROVE  RunConsumedItsPlan' /\ runs' \in SUBSET Run
BY DEF Inductive, RunConsumedItsPlan, Current, TypeOK

-----------------------------------------------------------------------------
(* The actions, one by one. *)

(* A created plan is new: nobody's frame, run or goal names it. *)
LEMMA CreatePlanStep ==
  ASSUME Inductive, NEW p \in Plans, NEW x \in Contents, CreatePlan(p, x)
  PROVE  Inductive'
<1> DEFINE rec == [status |-> "Draft", revision |-> 1, content |-> x, approved |-> 0, run |-> NoId]
<1>1. /\ plan[p] = << >> /\ UNCHANGED <<goal, minted, call, runs>>
      /\ plan' = [plan EXCEPT ![p] = <<rec>>]
  BY DEF CreatePlan
<1>2. rec \in PlanRecord /\ rec.revision = 1
  BY DEF PlanRecord, Status
<1> HIDE DEF rec
<1>3. /\ plan'[p] = <<rec>> /\ Len(plan'[p]) = 1 /\ plan'[p][1] = rec
      /\ \A q \in Plans \ {p} : plan'[q] = plan[q]
  BY <1>1 DEF Inductive, TypeOK
<1>4. TypeOK'
  BY <1>1, <1>2 DEF Inductive, TypeOK
<1>5. RevisionIsVersion' /\ ApprovedIsFinal'
  BY <1>2, <1>3 DEF Inductive, RevisionIsVersion, ApprovedIsFinal
<1>6. \A q \in Plans \ {p} : Current(q)' = Current(q)
  BY <1>3 DEF Current
<1>7. RunConsumedItsPlan'
  <2>1. \A r \in runs : r.p \in Plans \ {p}
    BY <1>1 DEF Inductive, RunConsumedItsPlan, TypeOK, Run
  <2> QED BY <2>1, <1>1, <1>3, <1>6 DEF Inductive, RunConsumedItsPlan
<1>8. GoalConsumedItsPlan'
  <2>1. \A id \in RunIds : goal[id] # NoId => goal[id] \in Plans \ {p}
    BY <1>1 DEF Inductive, GoalConsumedItsPlan, TypeOK
  <2> QED BY <2>1, <1>1, <1>3, <1>6 DEF Inductive, GoalConsumedItsPlan
<1>9. FramesOK'
  <2> SUFFICES ASSUME NEW c \in Callers PROVE FrameOK(call[c])'
    BY DEF FramesOK
  <2>1. FrameOK(call[c]) /\ call'[c] = call[c] /\ minted' = minted /\ goal' = goal
    BY <1>1 DEF Inductive, FramesOK
  <2>2. CASE call[c].pc = "idle"
    BY <2>1, <2>2 DEF FrameOK, Consuming
  <2>3. CASE call[c].pc # "idle"
    <3>1. call[c].p \in Plans /\ Len(plan[call[c].p]) > 0 /\ Len(plan[p]) = 0
      BY <2>1, <2>3, <1>1, FramePlan DEF FrameOK, Inductive
    <3>2. call[c].p \in Plans \ {p}
      BY <3>1
    <3> QED BY <3>2, <2>1, <1>3, <1>6 DEF FrameOK, ShownApproved, Consuming, VersionMatches
  <2> QED BY <2>2, <2>3
<1>10. RunsOwned'
  BY <1>1 DEF Inductive, RunsOwned
<1> QED BY <1>4, <1>5, <1>7, <1>8, <1>9, <1>10 DEF Inductive

(* The service step of an edit keeps the revision it read. *)
LEMMA EditStep ==
  ASSUME Inductive, NEW c \in Callers, NEW op \in Ops, NEW p \in Plans,
         NEW rev \in 0 .. MaxRevision, NEW x \in Contents, Edit(c, op, p, rev, x)
  PROVE  Inductive'
<1> DEFINE r == Current(p)
           rec == CASE op = "update"  -> Edited(r, x)
                    [] op = "approve" -> ApprovedRec(r)
                    [] op = "discard" -> DiscardedRec(r)
<1>0. PICK f : f = [pc |-> "repository", op |-> op, p |-> p, rev |-> rev,
                    shown |-> r.content, rec |-> rec, version |-> 0]
  OBVIOUS
<1>1. /\ op \in {"update", "approve", "discard"} /\ plan[p] # << >>
      /\ RevisionNamed(r, rev) /\ UNCHANGED <<plan, goal, minted, runs>>
      /\ call' = [call EXCEPT ![c] = f]
  BY <1>0 DEF Edit
<1>2. Len(plan[p]) > 0
  BY <1>1, NotEmpty DEF Inductive
<1>3. r \in PlanRecord /\ r.revision \in Nat /\ r.content \in Contents
  BY <1>2, CurrentType DEF Inductive
<1>4. rev \in Nat
  BY WorkPlansAssumption
<1>5. rec \in PlanRecord /\ rec.revision = r.revision
  <2> HIDE DEF r
  <2>1. CASE op = "update"
    BY <2>1, <1>3 DEF Edited, PlanRecord
  <2>2. CASE op = "approve"
    BY <2>2, <1>3 DEF ApprovedRec, PlanRecord, Status
  <2>3. CASE op = "discard"
    BY <2>3, <1>3 DEF DiscardedRec, PlanRecord, Status
  <2> QED BY <2>1, <2>2, <2>3, <1>1
<1> HIDE DEF rec
<1>6. f \in Frame
  BY <1>0, <1>3, <1>4, <1>5 DEF Frame, Writing
<1>7. /\ f.pc = "repository" /\ f.op = op /\ f.p = p /\ f.rev \in {0, f.rec.revision}
      /\ ~ Consuming(f)
  BY <1>0, <1>1, <1>5 DEF Consuming, RevisionNamed
<1> HIDE DEF r
<1>8. FrameOK(f)'
  BY <1>1, <1>2, <1>7 DEF FrameOK, Consuming
<1> QED BY <1>1, <1>6, <1>7, <1>8, CallerMoves, RunsKept DEF Inductive, TypeOK

(* What is selected is an approved plan. *)
LEMMA SelectStep ==
  ASSUME Inductive, NEW c \in Callers, NEW op \in Ops, NEW p \in Plans,
         NEW rev \in 0 .. MaxRevision, Select(c, op, p, rev)
  PROVE  Inductive'
<1>0. PICK f : f = [pc |-> "selected", op |-> op, p |-> p, rev |-> rev,
                    shown |-> Current(p).content]
  OBVIOUS
<1>1. /\ op \in {"execute", "goal"} /\ plan[p] # << >> /\ Current(p).status = "Approved"
      /\ UNCHANGED <<plan, goal, minted, runs>>
      /\ call' = [call EXCEPT ![c] = f]
  BY <1>0 DEF Select
<1>2. Len(plan[p]) > 0 /\ Len(plan[p]) \in Nat
  BY <1>1, NotEmpty DEF Inductive
<1>3. Current(p).content \in Contents
  BY <1>2, CurrentType DEF Inductive
<1>4. f \in Frame
  BY <1>0, <1>1, <1>3, WorkPlansAssumption DEF Frame, Selected
<1>5. f.pc = "selected" /\ f.p = p /\ f.shown = Current(p).content /\ ~ Consuming(f)
  BY <1>0 DEF Consuming
<1>6. FrameOK(f)'
  <2>1. Len(plan[p]) \in 1 .. Len(plan[p])
    BY <1>2
  <2>2. ShownApproved(f)'
    BY <2>1, <1>1, <1>5 DEF ShownApproved, Current
  <2> QED BY <2>2, <1>1, <1>2, <1>5 DEF FrameOK, Consuming
<1> QED BY <1>1, <1>4, <1>5, <1>6, CallerMoves, RunsKept DEF Inductive, TypeOK

(* A consumption gets a run id that nobody has. *)
LEMMA ConsumeStep ==
  ASSUME Inductive, NEW c \in Callers, NEW id \in RunIds, Consume(c, id)
  PROVE  Inductive'
<1> DEFINE g == call[c]
           r == Current(g.p)
<1>0. PICK x : x = [pc |-> "repository", op |-> g.op, p |-> g.p, rev |-> g.rev,
                    shown |-> g.shown, rec |-> ExecutedRec(r, id), version |-> 0]
  OBVIOUS
<1>1. /\ g.pc = "selected" /\ id \notin minted /\ minted' = minted \cup {id}
      /\ UNCHANGED <<plan, goal, runs>>
  BY DEF Consume
<1>2. RunConsumedItsPlan' /\ runs' \in SUBSET Run /\ minted' \in SUBSET RunIds
  BY <1>1, RunsKept DEF Inductive, TypeOK
<1>3. CASE Return(c)
  BY <1>1, <1>2, <1>3, CallerReturns
<1>4. CASE RevisionNamed(r, g.rev) /\ call' = [call EXCEPT ![c] = x]
  <2>1. g \in Selected /\ g.p \in Plans /\ Len(plan[g.p]) > 0 /\ ShownApproved(g)
    BY <1>1, CallFrame, FramePlan DEF Inductive, FramesOK, FrameOK
  <2>2. r \in PlanRecord
    BY <2>1, CurrentType DEF Inductive
  <2> DEFINE rec == ExecutedRec(r, id)
  <2>3. /\ rec \in PlanRecord /\ rec.status = "Executed" /\ rec.run = id
        /\ rec.revision = r.revision
    <3> HIDE DEF r
    <3> QED BY <2>2 DEF ExecutedRec, PlanRecord, Status
  <2> HIDE DEF rec
  <2>4. x \in Frame
    BY <1>0, <2>1, <2>3 DEF Frame, Writing, Selected, Ops, rec
  <2>5. /\ x.pc = "repository" /\ x.p = g.p /\ x.shown = g.shown
        /\ x.rec.run = id /\ x.rec.status = "Executed"
        /\ x.rev \in {0, x.rec.revision}
    BY <1>0, <1>4, <2>3 DEF RevisionNamed, rec
  <2>6. FrameOK(x)'
    <3>1. ShownApproved(x)'
      BY <1>1, <2>1, <2>5 DEF ShownApproved
    <3> QED BY <3>1, <1>1, <2>1, <2>3, <2>5 DEF FrameOK
  <2>7. \A d \in Callers \ {c} : Consuming(call[d]) => x.rec.run # call[d].rec.run
    BY <1>1, <2>3, <2>5 DEF Inductive, FramesOK, FrameOK
  <2> QED BY <1>1, <1>2, <1>4, <2>4, <2>5, <2>6, <2>7, CallerMoves
<1> QED BY <1>0, <1>3, <1>4 DEF Consume

(* The transition table does not look at the revision. *)
LEMMA TransitionOfFields ==
  ASSUME NEW r, NEW a, NEW b, a.status = b.status, a.approved = b.approved,
         a.content = b.content, Transition(r, a)
  PROVE  Transition(r, b)
BY DEF Transition

(* The repository accepts a record against the version it read. *)
LEMMA RepositoryStep ==
  ASSUME Inductive, NEW c \in Callers, Repository(c)
  PROVE  Inductive'
<1>1. call[c].pc = "repository" /\ UNCHANGED <<plan, goal, minted, runs>>
  BY DEF Repository
<1>2. RunConsumedItsPlan' /\ runs' \in SUBSET Run /\ minted' \in SUBSET RunIds
  BY <1>1, RunsKept DEF Inductive, TypeOK
<1>3. CASE Return(c)
  BY <1>1, <1>2, <1>3, CallerReturns
<1>4. CASE ~ Return(c)
  <2> DEFINE n == Len(plan[call[c].p])
  <2>1. PICK f : f = call[c]
    OBVIOUS
  <2>2. PICK x : x = [f EXCEPT !.pc = "append", !.version = n,
                               !.rec = [f.rec EXCEPT !.revision = @ + 1]]
    OBVIOUS
  <2>3. Accepted(f, Current(f.p)) /\ call' = [call EXCEPT ![c] = x]
    BY <1>4, <2>1, <2>2 DEF Repository
  <2>4. /\ f \in Writing /\ f.pc = "repository" /\ f.p \in Plans /\ Len(plan[f.p]) > 0
        /\ FrameOK(f)
    BY <1>1, <2>1, CallFrame, FramePlan DEF Inductive, FramesOK, FrameOK
  <2>5. f.rec \in PlanRecord /\ f.rec.revision \in Nat
    BY <2>4 DEF Writing, PlanRecord
  <2>6. n \in Nat /\ n = Len(plan[f.p])
    BY <2>1, <2>4, NotEmpty DEF Inductive
  <2>7. f.rec.revision = n
    BY <2>3, <2>4, <2>6, CurrentRevision DEF Accepted
  <2> HIDE DEF n
  <2>8. PICK r : r = [f.rec EXCEPT !.revision = @ + 1]
    OBVIOUS
  <2>9. /\ r \in PlanRecord /\ r.revision = n + 1 /\ r.status = f.rec.status
        /\ r.run = f.rec.run /\ r.approved = f.rec.approved /\ r.content = f.rec.content
    BY <2>5, <2>7, <2>8 DEF PlanRecord
  <2>10. /\ x \in Writing
         /\ x.pc = "append" /\ x.op = f.op /\ x.p = f.p /\ x.rev = f.rev
         /\ x.shown = f.shown /\ x.version = n /\ x.rec = r
    BY <2>2, <2>4, <2>6, <2>8, <2>9 DEF Writing
  <2>11. FrameOK(x)'
    <3>1. Transition(Current(x.p)', x.rec)
      <4>1. Transition(Current(f.p), f.rec)
        BY <2>3 DEF Accepted
      <4>2. Transition(Current(f.p), r)
        BY <4>1, <2>9, TransitionOfFields
      <4> QED BY <4>2, <2>10, <1>1 DEF Current
    <3>2. Consuming(x) => Consuming(f)
      BY <2>4, <2>10 DEF Consuming
    <3>3. Consuming(x) => ShownApproved(x)'
      BY <3>2, <1>1, <2>4, <2>10 DEF FrameOK, ShownApproved
    <3>4. Consuming(x) => x.rec.status = "Executed" /\ x.rec.run \in minted'
      BY <3>2, <1>1, <2>4, <2>9, <2>10 DEF FrameOK
    <3>5. x.rev \in {0, x.version}
      BY <2>4, <2>7, <2>10 DEF FrameOK
    <3> QED BY <3>1, <3>3, <3>4, <3>5, <1>1, <2>4, <2>6, <2>9, <2>10 DEF FrameOK
  <2>12. Consuming(x) => \A d \in Callers \ {c} :
                            Consuming(call[d]) => x.rec.run # call[d].rec.run
    BY <2>1, <2>4, <2>9, <2>10 DEF Inductive, RunsOwned, Consuming
  <2>13. x \in Frame
    BY <2>10 DEF Frame
  <2> QED BY <1>1, <1>2, <2>3, <2>10, <2>11, <2>12, <2>13, CallerMoves
<1> QED BY <1>3, <1>4

-----------------------------------------------------------------------------
(* Appending a record that the transition table allows after the last one. *)
LEMMA AppendKeepsHistory ==
  ASSUME Inductive, NEW p \in Plans, NEW rec \in PlanRecord, Len(plan[p]) > 0,
         rec.revision = Len(plan[p]) + 1, Transition(Current(p), rec),
         plan' = [plan EXCEPT ![p] = Append(@, rec)]
  PROVE  /\ plan' \in [Plans -> Seq(PlanRecord)]
         /\ Len(plan'[p]) = Len(plan[p]) + 1
         /\ Current(p)' = rec
         /\ \A i \in 1 .. Len(plan[p]) : plan'[p][i] = plan[p][i]
         /\ \A q \in Plans \ {p} : plan'[q] = plan[q]
         /\ Current(p).status \in {"Draft", "Approved"}
         /\ RevisionIsVersion'
         /\ ApprovedIsFinal'
<1>1. plan[p] \in Seq(PlanRecord) /\ Len(plan[p]) \in Nat \ {0}
  BY DEF Inductive, TypeOK
<1>2. plan'[p] = Append(plan[p], rec) /\ \A q \in Plans \ {p} : plan'[q] = plan[q]
  BY DEF Inductive, TypeOK
<1>3. /\ Len(plan'[p]) = Len(plan[p]) + 1
      /\ plan'[p][Len(plan[p]) + 1] = rec
      /\ \A i \in 1 .. Len(plan[p]) : plan'[p][i] = plan[p][i]
  BY <1>1, <1>2
<1>4. Current(p)' = rec
  BY <1>3 DEF Current
<1>5. plan' \in [Plans -> Seq(PlanRecord)]
  BY DEF Inductive, TypeOK
<1>6. Current(p).status \in {"Draft", "Approved"}
  BY DEF Transition
<1>7. RevisionIsVersion'
  <2> SUFFICES ASSUME NEW q \in Plans, NEW i \in 1 .. Len(plan'[q])
               PROVE  plan'[q][i].revision = i
    BY DEF RevisionIsVersion
  <2>1. CASE q # p
    BY <2>1, <1>2 DEF Inductive, RevisionIsVersion
  <2>2. CASE q = p /\ i = Len(plan[p]) + 1
    BY <2>2, <1>3
  <2>3. CASE q = p /\ i \in 1 .. Len(plan[p])
    BY <2>3, <1>3 DEF Inductive, RevisionIsVersion
  <2> QED BY <2>1, <2>2, <2>3, <1>1, <1>3
<1>8. ASSUME NEW i \in 1 .. Len(plan[p]), plan[p][i].status # "Draft"
      PROVE  rec.status \notin {"Draft", "Approved"} /\ rec.content = plan[p][i].content
  <2>1. i = Len(plan[p])
    BY <1>1, <1>6, <1>8 DEF Inductive, ApprovedIsFinal, Current
  <2> QED BY <2>1, <1>8 DEF Transition, Current
<1>9. ApprovedIsFinal'
  <2> SUFFICES ASSUME NEW q \in Plans, NEW i \in 1 .. Len(plan'[q]), NEW j \in 1 .. Len(plan'[q]),
                      plan'[q][i].status # "Draft", i < j
               PROVE  /\ plan'[q][j].status \notin {"Draft", "Approved"}
                      /\ plan'[q][j].content = plan'[q][i].content
    BY DEF ApprovedIsFinal
  <2>1. CASE q # p
    BY <2>1, <1>2 DEF Inductive, ApprovedIsFinal
  <2>2. CASE q = p
    <3>1. i \in 1 .. Len(plan[p])
      BY <2>2, <1>1, <1>3
    <3>2. CASE j = Len(plan[p]) + 1
      BY <2>2, <3>1, <3>2, <1>3, <1>8
    <3>3. CASE j \in 1 .. Len(plan[p])
      BY <2>2, <3>1, <3>3, <1>3 DEF Inductive, ApprovedIsFinal
    <3> QED BY <2>2, <3>2, <3>3, <1>1, <1>3
  <2> QED BY <2>1, <2>2
<1> QED BY <1>2, <1>3, <1>4, <1>5, <1>6, <1>7, <1>9

(* An append to plan p leaves what everybody else knows: whoever waited at *)
(* the old version has lost, and nobody may start a run of p.              *)
LEMMA OthersKept ==
  ASSUME Inductive, NEW p \in Plans, Len(plan[p]) > 0,
         Len(plan'[p]) = Len(plan[p]) + 1,
         \A i \in 1 .. Len(plan[p]) : plan'[p][i] = plan[p][i],
         \A q \in Plans \ {p} : plan'[q] = plan[q],
         Current(p).status \in {"Draft", "Approved"}, minted' = minted,
         NEW d \in Callers,
         call[d].pc = "start" /\ call[d].op = "goal" =>
            goal'[call[d].rec.run] = goal[call[d].rec.run],
         call'[d] = call[d]
  PROVE  FrameOK(call[d])'
<1>1. PICK f : f = call[d]
  OBVIOUS
<1>2. FrameOK(f)
  BY <1>1 DEF Inductive, FramesOK
<1>3. CASE f.pc = "idle"
  BY <1>1, <1>3 DEF FrameOK, Consuming
<1>4. CASE f.pc # "idle" /\ f.p # p
  <2>1. f.p \in Plans \ {p}
    BY <1>1, <1>4, FramePlan DEF Inductive
  <2>2. plan'[f.p] = plan[f.p] /\ Current(f.p)' = Current(f.p)
    BY <2>1 DEF Current
  <2>3. FrameOK(f)'
    BY <1>1, <1>2, <2>2 DEF FrameOK, ShownApproved, Consuming, VersionMatches
  <2> QED BY <1>1, <2>3 DEF FrameOK, ShownApproved, Consuming, VersionMatches, Current, Transition
<1>5. CASE f.pc # "idle" /\ f.p = p
  <2>1. Len(plan[p]) \in Nat
    BY NotEmpty DEF Inductive
  <2>2. f.pc # "start"
    BY <1>2, <1>5 DEF FrameOK
  <2>3. ShownApproved(f) => ShownApproved(f)'
    BY <1>5, <2>1 DEF ShownApproved
  <2>4. f.pc = "append" => f.version \in Nat
    BY <1>1, CallFrame DEF Inductive, Writing
  <2>5. f.pc = "append" => f.version <= Len(plan'[p]) /\ ~ VersionMatches(f)'
    BY <1>2, <1>5, <2>1, <2>4 DEF FrameOK, VersionMatches
  <2>6. FrameOK(f)'
    BY <1>2, <1>5, <2>1, <2>2, <2>3, <2>5 DEF FrameOK, Consuming
  <2> QED BY <1>1, <2>6 DEF FrameOK, ShownApproved, Consuming, VersionMatches, Current, Transition
<1> QED BY <1>3, <1>4, <1>5

(* The append consumes the plan: its last record names the run, and nobody *)
(* consumed it before.                                                     *)
LEMMA CommitStep ==
  ASSUME Inductive, NEW c \in Callers, Commit(c)
  PROVE  Inductive'
<1>1. call[c].pc = "append" /\ UNCHANGED <<minted, runs>>
  BY DEF Commit
<1>2. CASE ~ VersionMatches(call[c])
  <2>1. Return(c) /\ UNCHANGED <<plan, goal>>
    BY <1>2 DEF Commit
  <2>2. RunConsumedItsPlan' /\ runs' \in SUBSET Run /\ minted' \in SUBSET RunIds
    BY <1>1, <2>1, RunsKept DEF Inductive, TypeOK
  <2> QED BY <1>1, <2>1, <2>2, CallerReturns
<1>3. CASE VersionMatches(call[c])
  <2>1. PICK f : f = call[c]
    OBVIOUS
  <2>2. PICK p : p = f.p
    OBVIOUS
  <2>3. PICK rec : rec = f.rec
    OBVIOUS
  <2>4. PICK x : x = [f EXCEPT !.pc = "start"]
    OBVIOUS
  <2>5. f \in Writing /\ f.pc = "append" /\ p \in Plans /\ rec \in PlanRecord
    <3>1. f \in Writing /\ f.pc = "append"
      BY <1>1, <2>1, CallFrame DEF Inductive
    <3> QED BY <3>1, <2>2, <2>3 DEF Writing
  <2>6. /\ Len(plan[p]) > 0 /\ Len(plan[p]) \in Nat
        /\ rec.revision = Len(plan[p]) + 1
        /\ Transition(Current(p), rec)
        /\ Consuming(f) => ShownApproved(f) /\ rec.status = "Executed" /\ rec.run \in minted
    BY <1>3, <2>1, <2>2, <2>3, <2>5, NotEmpty
       DEF Inductive, FramesOK, FrameOK, VersionMatches
  <2>7. /\ plan' = [plan EXCEPT ![p] = Append(@, rec)]
        /\ goal' = IF f.op = "goal" THEN [goal EXCEPT ![rec.run] = p] ELSE goal
        /\ \/ call' = [call EXCEPT ![c] = Idle]
           \/ f.op \in {"execute", "goal"} /\ call' = [call EXCEPT ![c] = x]
    BY <1>3, <2>1, <2>2, <2>3, <2>4 DEF Commit, Return, GoalCreated
  <2>8. /\ plan' \in [Plans -> Seq(PlanRecord)]
        /\ Len(plan'[p]) = Len(plan[p]) + 1
        /\ Current(p)' = rec
        /\ \A i \in 1 .. Len(plan[p]) : plan'[p][i] = plan[p][i]
        /\ \A q \in Plans \ {p} : plan'[q] = plan[q]
        /\ Current(p).status \in {"Draft", "Approved"}
        /\ RevisionIsVersion'
        /\ ApprovedIsFinal'
    BY <2>5, <2>6, <2>7, AppendKeepsHistory
  <2>9. \A q \in Plans \ {p} : Current(q)' = Current(q)
    BY <2>8 DEF Current
  <2>10. /\ x \in Writing /\ x.pc = "start" /\ x.op = f.op /\ x.p = p /\ x.rec = rec
         /\ x.shown = f.shown
    BY <2>2, <2>3, <2>4, <2>5 DEF Writing
  <2>11. Idle.pc = "idle" /\ Idle \in Frame /\ x \in Frame
    BY <2>10 DEF Idle, Frame
  <2>12. /\ \A d \in Callers \ {c} : call'[d] = call[d]
         /\ \/ call'[c] = Idle
            \/ call'[c] = x /\ f.op \in {"execute", "goal"}
    BY <2>7 DEF Inductive, TypeOK
  <2>13. f.op = "goal" => rec.run \in RunIds
    BY <2>5, <2>6 DEF Consuming, Inductive, TypeOK
  <2>14. TypeOK'
    <3>1. goal' \in [RunIds -> Plans \cup {NoId}]
      BY <2>5, <2>7, <2>13 DEF Inductive, TypeOK
    <3>2. call' \in [Callers -> Frame]
      BY <2>7, <2>11 DEF Inductive, TypeOK
    <3> QED BY <1>1, <2>8, <3>1, <3>2 DEF Inductive, TypeOK
  <2>15. plan'[p] # << >>
    BY <2>6, <2>8
  <2>16. RunConsumedItsPlan'
    <3> SUFFICES ASSUME NEW r \in runs
                 PROVE  /\ plan'[r.p] # << >>
                        /\ Current(r.p)'.status = "Executed"
                        /\ Current(r.p)'.run = r.id
                        /\ \E i \in 1 .. Len(plan'[r.p]) :
                              plan'[r.p][i].status = "Approved" /\ plan'[r.p][i].content = r.content
      BY <1>1 DEF RunConsumedItsPlan
    <3>1. /\ Current(r.p).status = "Executed"
          /\ Current(r.p).run = r.id
          /\ plan[r.p] # << >>
          /\ \E i \in 1 .. Len(plan[r.p]) :
                plan[r.p][i].status = "Approved" /\ plan[r.p][i].content = r.content
      BY DEF Inductive, RunConsumedItsPlan
    <3>2. r.p \in Plans \ {p}
      BY <3>1, <2>8 DEF Inductive, TypeOK, Run
    <3> QED BY <3>1, <3>2, <2>8, <2>9
  <2>17. GoalConsumedItsPlan'
    <3>1. ASSUME NEW id \in RunIds, goal'[id] # NoId
          PROVE  /\ plan'[goal'[id]] # << >>
                 /\ Current(goal[id])'.status = "Executed"
                 /\ Current(goal[id])'.run = id
      <4>1. CASE f.op = "goal" /\ id = rec.run
        <5>1. goal'[id] = p
          BY <4>1, <2>7 DEF Inductive, TypeOK
        <5>2. Current(p)' = rec /\ rec.status = "Executed"
          BY <4>1, <2>5, <2>6, <2>8 DEF Consuming
        <5>3. Current(goal[id])' = Current(p)'
          BY <5>1 DEF Current
        <5> QED BY <4>1, <5>1, <5>2, <5>3, <2>15
      <4>2. CASE ~ (f.op = "goal" /\ id = rec.run)
        <5>1. goal'[id] = goal[id]
          BY <4>2, <2>7 DEF Inductive, TypeOK
        <5>2. /\ plan[goal[id]] # << >>
              /\ Current(goal[id]).status = "Executed"
              /\ Current(goal[id]).run = id
          BY <3>1, <5>1 DEF Inductive, GoalConsumedItsPlan
        <5>3. goal[id] \in Plans \ {p}
          BY <3>1, <5>1, <5>2, <2>8 DEF Inductive, TypeOK
        <5>4. Current(goal[id])' = Current(goal[id]) /\ plan'[goal'[id]] = plan[goal[id]]
          BY <5>1, <5>3, <2>8, <2>9 DEF Current
        <5> QED BY <5>2, <5>4
      <4> QED BY <4>1, <4>2
    <3>2. ASSUME NEW d \in Callers, call'[d].pc = "start", call'[d].op = "goal"
          PROVE  goal'[call'[d].rec.run] = call'[d].p
      <4>1. CASE d = c
        BY <4>1, <3>2, <2>7, <2>10, <2>11, <2>12, <2>13 DEF Inductive, TypeOK
      <4>2. CASE d # c
        <5>1. call'[d] = call[d] /\ goal[call[d].rec.run] = call[d].p
          BY <4>2, <3>2, <2>12 DEF Inductive, GoalConsumedItsPlan
        <5>2. f.op = "goal" => call[d].rec.run # rec.run
          BY <4>2, <3>2, <5>1, <2>1, <2>3, <2>5 DEF Inductive, RunsOwned, Consuming
        <5> QED BY <5>1, <5>2, <2>7 DEF Inductive, TypeOK
      <4> QED BY <4>1, <4>2
    <3> QED BY <3>1, <3>2 DEF GoalConsumedItsPlan
  <2>18. FramesOK'
    <3> SUFFICES ASSUME NEW d \in Callers PROVE FrameOK(call[d])'
      BY DEF FramesOK
    <3>1. CASE d # c
      <4>1. call'[d] = call[d]
        BY <3>1, <2>12
      <4>2. call[d].pc = "start" /\ call[d].op = "goal" =>
              goal'[call[d].rec.run] = goal[call[d].rec.run]
        <5> SUFFICES ASSUME call[d].pc = "start", call[d].op = "goal"
                     PROVE  goal'[call[d].rec.run] = goal[call[d].rec.run]
          OBVIOUS
        <5>1. f.op = "goal" => call[d].rec.run # rec.run
          BY <3>1, <2>1, <2>3, <2>5 DEF Inductive, RunsOwned, Consuming
        <5> QED BY <5>1, <2>7 DEF Inductive, TypeOK
      <4> QED BY <4>1, <4>2, <1>1, <2>5, <2>6, <2>8, OthersKept
    <3>2. CASE d = c /\ call'[c] = Idle
      BY <3>2, <2>11 DEF FrameOK, Consuming
    <3>3. CASE d = c /\ call'[c] = x /\ f.op \in {"execute", "goal"}
      <4>1. Consuming(f) /\ Consuming(x)
        BY <3>3, <2>5, <2>10 DEF Consuming
      <4>2. ShownApproved(f) /\ rec.status = "Executed" /\ rec.run \in minted
        BY <4>1, <2>6
      <4>3. ShownApproved(x)'
        BY <4>2, <2>2, <2>6, <2>8, <2>10 DEF ShownApproved
      <4>4. Current(x.p)' = rec
        BY <2>8, <2>10
      <4>5. f.op = "goal" => goal'[rec.run] = p
        BY <2>7, <2>13 DEF Inductive, TypeOK
      <4>6. FrameOK(x)'
        BY <4>1, <4>2, <4>3, <4>4, <4>5, <3>3, <1>1, <2>6, <2>8, <2>10 DEF FrameOK
      <4> QED BY <3>3, <4>6
            DEF FrameOK, ShownApproved, Consuming, VersionMatches, Current, Transition
    <3> QED BY <3>1, <3>2, <3>3, <2>12
  <2>19. RunsOwned'
    <3>1. Consuming(call'[c]) => Consuming(f) /\ call'[c].rec = rec
      BY <2>5, <2>10, <2>11, <2>12 DEF Consuming
    <3> QED BY <3>1, <2>1, <2>3, <2>12 DEF Inductive, RunsOwned, Consuming
  <2> QED BY <2>8, <2>14, <2>16, <2>17, <2>18, <2>19 DEF Inductive
<1> QED BY <1>2, <1>3

(* A run starts for the plan its caller consumed. *)
LEMMA StartRunStep ==
  ASSUME Inductive, NEW c \in Callers, StartRun(c)
  PROVE  Inductive'
<1>1. PICK f : f = call[c]
  OBVIOUS
<1>2. PICK r : r = [id |-> f.rec.run, p |-> f.p, content |-> f.shown]
  OBVIOUS
<1>3. /\ f.pc = "start" /\ runs' = runs \cup {r} /\ Return(c)
      /\ UNCHANGED <<plan, goal, minted>>
  BY <1>1, <1>2 DEF StartRun
<1>4. f \in Writing /\ FrameOK(f)
  BY <1>1, <1>3, CallFrame DEF Inductive, FramesOK
<1>5. /\ ShownApproved(f) /\ f.rec.run \in RunIds /\ f.p \in Plans /\ f.shown \in Contents
      /\ Len(plan[f.p]) > 0
      /\ Current(f.p).status = "Executed" /\ Current(f.p).run = f.rec.run
  BY <1>3, <1>4 DEF FrameOK, Consuming, Writing, Inductive, TypeOK
<1>6. r \in Run /\ r.id = f.rec.run /\ r.p = f.p /\ r.content = f.shown
  BY <1>2, <1>5 DEF Run
<1>7. plan[f.p] # << >>
  BY <1>5, NotEmpty DEF Inductive
<1>8. RunConsumedItsPlan'
  BY <1>3, <1>5, <1>6, <1>7 DEF Inductive, RunConsumedItsPlan, ShownApproved, Current
<1>9. runs' \in SUBSET Run /\ minted' \in SUBSET RunIds
  BY <1>3, <1>6 DEF Inductive, TypeOK
<1> QED BY <1>3, <1>8, <1>9, CallerReturns

LEMMA CrashStep ==
  ASSUME Inductive, NEW c \in Callers, Crash(c)
  PROVE  Inductive'
<1>1. Return(c) /\ UNCHANGED <<plan, goal, minted, runs>>
  BY DEF Crash
<1>2. RunConsumedItsPlan' /\ runs' \in SUBSET Run /\ minted' \in SUBSET RunIds
  BY <1>1, RunsKept DEF Inductive, TypeOK
<1> QED BY <1>1, <1>2, CallerReturns

-----------------------------------------------------------------------------
LEMMA InitInductive == Init => Inductive
<1> SUFFICES ASSUME Init PROVE Inductive
  OBVIOUS
<1>1. TypeOK
  BY DEF Init, TypeOK, Frame
<1>2. \A p \in Plans : Len(plan[p]) = 0
  BY DEF Init
<1>3. \A c \in Callers : call[c].pc = "idle"
  BY DEF Init, Idle
<1>4. FramesOK /\ RunsOwned
  BY <1>3 DEF FramesOK, FrameOK, RunsOwned, Consuming
<1>5. RevisionIsVersion /\ ApprovedIsFinal
  BY <1>2 DEF RevisionIsVersion, ApprovedIsFinal
<1>6. RunConsumedItsPlan /\ GoalConsumedItsPlan
  BY <1>3 DEF Init, RunConsumedItsPlan, GoalConsumedItsPlan
<1> QED BY <1>1, <1>4, <1>5, <1>6 DEF Inductive

LEMMA NextInductive == Inductive /\ [Next]_vars => Inductive'
<1> SUFFICES ASSUME Inductive, [Next]_vars PROVE Inductive'
  OBVIOUS
<1>1. ASSUME NEW p \in Plans, NEW x \in Contents, CreatePlan(p, x)
      PROVE  Inductive'
  BY <1>1, CreatePlanStep
<1>2. ASSUME NEW c \in Callers, NEW op \in Ops, NEW p \in Plans, NEW rev \in 0 .. MaxRevision,
             (\E x \in Contents : Edit(c, op, p, rev, x)) \/ Select(c, op, p, rev)
      PROVE  Inductive'
  BY <1>2, EditStep, SelectStep
<1>3. ASSUME NEW c \in Callers, NEW id \in RunIds, Consume(c, id)
      PROVE  Inductive'
  BY <1>3, ConsumeStep
<1>4. ASSUME NEW c \in Callers, Repository(c) \/ Commit(c) \/ StartRun(c) \/ Crash(c)
      PROVE  Inductive'
  BY <1>4, RepositoryStep, CommitStep, StartRunStep, CrashStep
<1>5. CASE UNCHANGED vars
  BY <1>5 DEF vars, Inductive, TypeOK, RevisionIsVersion, ApprovedIsFinal, RunConsumedItsPlan,
              GoalConsumedItsPlan, FramesOK, FrameOK, ShownApproved, Consuming, VersionMatches,
              RunsOwned, Current
<1> QED BY <1>1, <1>2, <1>3, <1>4, <1>5 DEF Next

(* An approved plan is consumed by at most one run or goal, which carries  *)
(* the approved text, whatever the callers interleave and wherever they    *)
(* stop (execute_plan, create_goal_from_plan and the journal's version).   *)
THEOREM PlansAreConsumedOnce == Spec => []PlanConsumedOnce
<1>1. Inductive => PlanConsumedOnce
  BY DEF Inductive, PlanConsumedOnce
<1> QED BY <1>1, InitInductive, NextInductive, PTL DEF Spec

(* What was approved is what stays: no caller takes an approved plan back  *)
(* to draft or changes its content (update_plan's transition table).       *)
THEOREM ApprovalIsFinal == Spec => []ApprovedIsFinal
<1>1. Inductive => ApprovedIsFinal
  BY DEF Inductive
<1> QED BY <1>1, InitInductive, NextInductive, PTL DEF Spec

(* A caller that names a revision writes right after it or not at all. *)
THEOREM NamedRevisionsAreLatest == Spec => NamedRevisionIsLatest
<1> DEFINE Latest(p) ==
      Len(plan'[p]) > Len(plan[p]) =>
         \/ plan[p] = << >>
         \/ \E c \in Callers : /\ call[c].pc = "append"
                               /\ call[c].p = p
                               /\ call[c].rec = Current(p)'
                               /\ call[c].rev \in {0, Len(plan[p])}
<1>1. ASSUME Inductive, [Next]_vars, NEW p \in Plans, Len(plan'[p]) > Len(plan[p])
      PROVE  Latest(p)
  <2>1. Len(plan[p]) \in Nat
    BY <1>1, NotEmpty DEF Inductive
  <2>2. plan' # plan
    BY <1>1, <2>1
  <2>3. ASSUME NEW q \in Plans, NEW x \in Contents, CreatePlan(q, x)
        PROVE  Latest(p)
    <3>1. q # p => plan'[p] = plan[p]
      BY <1>1, <2>3 DEF CreatePlan, Inductive, TypeOK
    <3> QED BY <3>1, <1>1, <2>1, <2>3 DEF CreatePlan
  <2>4. ASSUME NEW c \in Callers, Commit(c)
        PROVE  Latest(p)
    <3>1. call[c].pc = "append" /\ call[c] \in Writing /\ call[c].p \in Plans
      BY <1>1, <2>4, CallFrame, FramePlan DEF Commit, Inductive
    <3>2. /\ VersionMatches(call[c])
          /\ plan' = [plan EXCEPT ![call[c].p] = Append(@, call[c].rec)]
      BY <2>2, <2>4 DEF Commit
    <3>3. call[c].p = p
      BY <1>1, <2>1, <3>1, <3>2 DEF Inductive, TypeOK
    <3>4. plan[p] \in Seq(PlanRecord) /\ call[c].rec \in PlanRecord
      BY <1>1, <3>1 DEF Inductive, TypeOK, Writing
    <3>5. plan'[p] = Append(plan[p], call[c].rec)
      BY <1>1, <3>2, <3>3 DEF Inductive, TypeOK
    <3>6. Current(p)' = call[c].rec
      BY <3>4, <3>5 DEF Current
    <3>7. call[c].rev \in {0, Len(plan[p])}
      BY <1>1, <3>1, <3>2, <3>3 DEF Inductive, FramesOK, FrameOK, VersionMatches
    <3> QED BY <3>1, <3>3, <3>6, <3>7
  <2>5. \/ \E q \in Plans, x \in Contents : CreatePlan(q, x)
        \/ \E c \in Callers : Commit(c)
    <3>1. \A c \in Callers, op \in Ops, q \in Plans, rev \in 0 .. MaxRevision :
            /\ \A x \in Contents : ~ Edit(c, op, q, rev, x)
            /\ ~ Select(c, op, q, rev)
      <4>1. \A c, op, q, rev, x : Edit(c, op, q, rev, x) => plan' = plan
        BY DEF Edit
      <4>2. \A c, op, q, rev : Select(c, op, q, rev) => plan' = plan
        BY DEF Select
      <4> QED BY <2>2, <4>1, <4>2
    <3>2. \A c \in Callers : /\ \A id \in RunIds : ~ Consume(c, id)
                             /\ ~ Repository(c) /\ ~ StartRun(c) /\ ~ Crash(c)
      BY <2>2 DEF Consume, Repository, StartRun, Crash
    <3>3. ~ UNCHANGED vars
      BY <2>2 DEF vars
    <3> QED BY <1>1, <3>1, <3>2, <3>3, Zenon DEF Next
  <2> HIDE DEF Latest
  <2> QED BY <2>3, <2>4, <2>5
<1>2. Inductive /\ [Next]_vars => [\A p \in Plans : Latest(p)]_vars
  BY <1>1
<1> QED BY <1>2, InitInductive, NextInductive, PTL DEF Spec, NamedRevisionIsLatest

-----------------------------------------------------------------------------
(***************************************************************************)
(* Goals.                                                                  *)
(***************************************************************************)
(* A record that may be written after g: it takes back neither a           *)
(* reservation nor a terminal status with its evidence.                    *)
Follows(rec, g) ==
    /\ g.done <= rec.done
    /\ rec.done <= Budget
    /\ g.status # "Active" => rec.status = g.status /\ rec.evidence = g.evidence

(* What waits to be appended was accepted against the record it was        *)
(* versioned with: if that is still the last one, it is accepted now.      *)
PendingAccepted ==
    /\ \A d \in Drivers : drv[d].pc = "append" =>
         /\ drv[d].version <= Len(history)
         /\ GoalVersionMatches(drv[d].version) => ReservationAccepted(drv[d].rec, CurrentGoal)
    /\ \A r \in Reporters : rep[r].pc = "append" =>
         /\ rep[r].version <= Len(history)
         /\ GoalVersionMatches(rep[r].version) => ReportAccepted(rep[r].rec, CurrentGoal)

(* A driver about to run holds a reserved slot that nobody else holds and  *)
(* that no run has used.                                                   *)
SlotsHeld ==
    /\ \A d \in Drivers : drv[d].pc = "run" =>
         /\ drv[d].slot \in 1 .. CurrentGoal.done
         /\ \A i \in 1 .. Len(started) : started[i] # drv[d].slot
    /\ \A d, e \in Drivers :
         (drv[d].pc = "run" /\ drv[e].pc = "run" /\ drv[d].slot = drv[e].slot) => d = e

GoalInductive ==
    /\ GoalTypeOK
    /\ Len(history) > 0
    /\ CountNeverFalls
    /\ TerminalEvidenceStays
    /\ PendingAccepted
    /\ EachSlotRunsOnce
    /\ SlotsHeld

-----------------------------------------------------------------------------
(* What a driver and a reporter keep, by where they are. *)
LEMMA DriverFrame ==
  ASSUME GoalTypeOK, NEW d \in Drivers
  PROVE  /\ drv[d].pc = "idle" <=> drv[d] = GoalIdle
         /\ drv[d].pc \in {"loop", "reserve", "run"} => drv[d] \in Looping
         /\ drv[d].pc \in {"repository", "append"} => drv[d] \in GoalWriting
         /\ drv[d].pc \in {"idle", "loop", "reserve", "run", "repository", "append"}
<1>1. drv[d] \in {GoalIdle} \cup Looping \cup GoalWriting
  BY DEF GoalTypeOK
<1>2. CASE drv[d] = GoalIdle
  BY <1>2 DEF GoalIdle
<1>3. CASE drv[d] \in Looping
  BY <1>3 DEF Looping, GoalIdle
<1>4. CASE drv[d] \in GoalWriting
  BY <1>4 DEF GoalWriting, GoalIdle
<1> QED BY <1>1, <1>2, <1>3, <1>4

LEMMA ReporterFrame ==
  ASSUME GoalTypeOK, NEW r \in Reporters
  PROVE  /\ rep[r].pc = "idle" <=> rep[r] = GoalIdle
         /\ rep[r].pc \in {"repository", "append"} => rep[r] \in Report
         /\ rep[r].pc \in {"idle", "repository", "append"}
<1>1. rep[r] \in {GoalIdle} \cup Report
  BY DEF GoalTypeOK
<1>2. CASE rep[r] = GoalIdle
  BY <1>2 DEF GoalIdle
<1>3. CASE rep[r] \in Report
  BY <1>3 DEF Report, GoalIdle
<1> QED BY <1>1, <1>2, <1>3

(* The last record is a record. *)
LEMMA CurrentGoalType ==
  ASSUME GoalTypeOK, Len(history) > 0
  PROVE  /\ CurrentGoal \in GoalRecord
         /\ CurrentGoal.done \in Nat
         /\ CurrentGoal.status \in GoalStatus
         /\ CurrentGoal.evidence \in Reporters \cup {"none"}
<1>1. history \in Seq(GoalRecord) /\ Len(history) \in 1 .. Len(history)
  BY DEF GoalTypeOK
<1>2. CurrentGoal \in GoalRecord
  BY <1>1 DEF CurrentGoal
<1> QED BY <1>2 DEF GoalRecord

(* Both repository checks accept only a record that may follow. *)
LEMMA ReservationFollows ==
  ASSUME NEW rec \in GoalRecord, NEW g \in GoalRecord, ReservationAccepted(rec, g)
  PROVE  Follows(rec, g)
BY WorkGoalsAssumption DEF ReservationAccepted, Follows, GoalRecord

LEMMA ReportFollows ==
  ASSUME NEW rec \in GoalRecord, NEW g \in GoalRecord, ReportAccepted(rec, g), g.done <= Budget
  PROVE  Follows(rec, g)
BY WorkGoalsAssumption DEF ReportAccepted, Follows, GoalRecord

(* Appending a record that may follow the last one keeps the history's     *)
(* order; what waits at the old version no longer matches.                 *)
LEMMA GoalHistoryKept ==
  ASSUME GoalInductive, NEW rec \in GoalRecord, Follows(rec, CurrentGoal), history' = Append(history, rec)
  PROVE  /\ history' \in Seq(GoalRecord)
         /\ Len(history') = Len(history) + 1
         /\ CurrentGoal' = rec
         /\ CountNeverFalls'
         /\ TerminalEvidenceStays'
<1>1. /\ history \in Seq(GoalRecord)
      /\ Len(history) \in Nat \ {0}
  BY DEF GoalInductive, GoalTypeOK
<1>2. /\ history' \in Seq(GoalRecord)
      /\ Len(history') = Len(history) + 1
      /\ history'[Len(history) + 1] = rec
      /\ \A i \in 1 .. Len(history) : history'[i] = history[i]
  BY <1>1
<1>3. CurrentGoal' = rec
  BY <1>2 DEF CurrentGoal
<1>4. \A i \in 1 .. Len(history) : history[i] \in GoalRecord
  BY <1>1
<1>5. ASSUME NEW i \in 1 .. Len(history)
      PROVE  /\ history[i].done <= CurrentGoal.done
             /\ history[i].status # "Active" =>
                  CurrentGoal.status = history[i].status /\ CurrentGoal.evidence = history[i].evidence
  <2>1. CASE i = Len(history)
    BY <2>1, <1>1, <1>4 DEF CurrentGoal, GoalRecord
  <2>2. CASE i < Len(history)
    BY <2>2, <1>1 DEF GoalInductive, CountNeverFalls, TerminalEvidenceStays, CurrentGoal
  <2> QED BY <2>1, <2>2, <1>1
<1>6. ASSUME NEW i \in 1 .. Len(history), history[i].status # "Active"
      PROVE  rec.status = history[i].status /\ rec.evidence = history[i].evidence
  BY <1>5, <1>6 DEF Follows
<1>7. ASSUME NEW i \in 1 .. Len(history)
      PROVE  history[i].done <= rec.done
  BY <1>5, <1>1, <1>4, CurrentGoalType DEF Follows, GoalRecord, GoalInductive
<1>8. CountNeverFalls'
  <2> SUFFICES ASSUME NEW i \in 1 .. Len(history'), NEW j \in 1 .. Len(history'), i < j
               PROVE  history'[i].done <= history'[j].done
    BY DEF CountNeverFalls
  <2>1. i \in 1 .. Len(history)
    BY <1>1, <1>2
  <2>2. CASE j = Len(history) + 1
    BY <2>1, <2>2, <1>2, <1>7
  <2>3. CASE j \in 1 .. Len(history)
    BY <2>1, <2>3, <1>2 DEF GoalInductive, CountNeverFalls
  <2> QED BY <2>2, <2>3, <1>1, <1>2
<1>9. TerminalEvidenceStays'
  <2> SUFFICES ASSUME NEW i \in 1 .. Len(history'), NEW j \in 1 .. Len(history'), i < j,
                      history'[i].status # "Active"
               PROVE  history'[j].status = history'[i].status /\ history'[j].evidence = history'[i].evidence
    BY DEF TerminalEvidenceStays
  <2>1. i \in 1 .. Len(history)
    BY <1>1, <1>2
  <2>2. CASE j = Len(history) + 1
    BY <2>1, <2>2, <1>2, <1>6
  <2>3. CASE j \in 1 .. Len(history)
    BY <2>1, <2>3, <1>2 DEF GoalInductive, TerminalEvidenceStays
  <2> QED BY <2>2, <2>3, <1>1, <1>2
<1> QED BY <1>2, <1>3, <1>8, <1>9

-----------------------------------------------------------------------------
(* A step that leaves the goal and the runs alone and moves the driver d   *)
(* to a frame x that does not claim a slot of its own.                     *)
LEMMA DriverMoves ==
  ASSUME GoalInductive, NEW d \in Drivers, NEW x \in {GoalIdle} \cup Looping \cup GoalWriting,
         drv' = [drv EXCEPT ![d] = x], UNCHANGED <<history, rep, started>>,
         x.pc # "run",
         x.pc = "append" => x.version = Len(history) /\ ReservationAccepted(x.rec, CurrentGoal)
  PROVE  GoalInductive'
<1>1. /\ drv'[d] = x
      /\ \A e \in Drivers \ {d} : drv'[e] = drv[e]
      /\ Len(history) \in Nat
  BY DEF GoalInductive, GoalTypeOK
<1>2. GoalTypeOK'
  BY DEF GoalInductive, GoalTypeOK
<1>3. CurrentGoal' = CurrentGoal
  BY DEF CurrentGoal
<1>4. Len(history') > 0 /\ CountNeverFalls' /\ TerminalEvidenceStays' /\ EachSlotRunsOnce'
  BY <1>3 DEF GoalInductive, CountNeverFalls, TerminalEvidenceStays, EachSlotRunsOnce
<1>5. PendingAccepted'
  BY <1>1, <1>3 DEF GoalInductive, PendingAccepted, GoalVersionMatches, ReservationAccepted, ReportAccepted
<1>6. SlotsHeld'
  BY <1>1, <1>3 DEF GoalInductive, SlotsHeld
<1> QED BY <1>2, <1>4, <1>5, <1>6 DEF GoalInductive

(* The same for a reporter. *)
LEMMA ReporterMoves ==
  ASSUME GoalInductive, NEW r \in Reporters, NEW x \in {GoalIdle} \cup Report,
         rep' = [rep EXCEPT ![r] = x], UNCHANGED <<history, drv, started>>,
         x.pc = "append" => x.version = Len(history) /\ ReportAccepted(x.rec, CurrentGoal)
  PROVE  GoalInductive'
<1>1. /\ rep'[r] = x
      /\ \A q \in Reporters \ {r} : rep'[q] = rep[q]
      /\ Len(history) \in Nat
  BY DEF GoalInductive, GoalTypeOK
<1>2. GoalTypeOK'
  BY DEF GoalInductive, GoalTypeOK
<1>3. CurrentGoal' = CurrentGoal
  BY DEF CurrentGoal
<1>4. Len(history') > 0 /\ CountNeverFalls' /\ TerminalEvidenceStays' /\ EachSlotRunsOnce'
  BY <1>3 DEF GoalInductive, CountNeverFalls, TerminalEvidenceStays, EachSlotRunsOnce
<1>5. PendingAccepted'
  BY <1>1, <1>3 DEF GoalInductive, PendingAccepted, GoalVersionMatches, ReservationAccepted, ReportAccepted
<1>6. SlotsHeld'
  BY <1>3 DEF GoalInductive, SlotsHeld
<1> QED BY <1>2, <1>4, <1>5, <1>6 DEF GoalInductive

(* Stopping is such a step. *)
LEMMA DriverStops ==
  ASSUME GoalInductive, NEW d \in Drivers, Stop(d), UNCHANGED <<history, rep, started>>
  PROVE  GoalInductive'
<1>1. GoalIdle \in {GoalIdle} \cup Looping \cup GoalWriting /\ GoalIdle.pc \notin {"run", "append"}
  BY DEF GoalIdle
<1>2. drv' = [drv EXCEPT ![d] = GoalIdle]
  BY DEF Stop
<1> QED BY <1>1, <1>2, DriverMoves

-----------------------------------------------------------------------------
(* The actions, one by one. *)

LEMMA ResumeStep ==
  ASSUME GoalInductive, NEW d \in Drivers, Resume(d)
  PROVE  GoalInductive'
<1> DEFINE x == [pc |-> "loop", last |-> CurrentGoal.done, slot |-> 0]
<1>1. x \in Looping /\ x.pc \notin {"run", "append"}
  BY CurrentGoalType DEF GoalInductive, Looping
<1>2. drv' = [drv EXCEPT ![d] = x] /\ UNCHANGED <<history, rep, started>>
  BY DEF Resume
<1> HIDE DEF x
<1> QED BY <1>1, <1>2, DriverMoves

LEMMA LoopReadStep ==
  ASSUME GoalInductive, NEW d \in Drivers, LoopRead(d)
  PROVE  GoalInductive'
<1>1. CASE Stop(d)
  BY <1>1, DriverStops DEF LoopRead
<1>2. CASE drv' = [drv EXCEPT ![d].pc = "reserve"]
  <2> DEFINE x == [drv[d] EXCEPT !.pc = "reserve"]
  <2>1. drv[d] \in Looping
    BY DriverFrame DEF LoopRead, GoalInductive
  <2>2. x \in Looping /\ x.pc \notin {"run", "append"}
    BY <2>1 DEF Looping
  <2>3. drv' = [drv EXCEPT ![d] = x] /\ UNCHANGED <<history, rep, started>>
    BY <1>2 DEF LoopRead
  <2> HIDE DEF x
  <2> QED BY <2>2, <2>3, DriverMoves
<1> QED BY <1>1, <1>2 DEF LoopRead

LEMMA ReserveStep ==
  ASSUME GoalInductive, NEW d \in Drivers, Reserve(d)
  PROVE  GoalInductive'
<1>1. CASE Stop(d)
  BY <1>1, DriverStops DEF Reserve
<1>2. CASE ~ Stop(d)
  <2> DEFINE rec == [CurrentGoal EXCEPT !.done = @ + 1]
             x == [pc |-> "repository", last |-> drv[d].last, slot |-> 0,
                   rec |-> rec, version |-> 0]
  <2>1. drv[d] \in Looping
    BY DriverFrame DEF Reserve, GoalInductive
  <2>2. rec \in GoalRecord
    BY CurrentGoalType DEF GoalInductive, GoalRecord
  <2>3. drv' = [drv EXCEPT ![d] = x] /\ UNCHANGED <<history, rep, started>>
    BY <1>2 DEF Reserve
  <2> HIDE DEF rec
  <2>4. x \in GoalWriting /\ x.pc \notin {"run", "append"}
    BY <2>1, <2>2 DEF Looping, GoalWriting
  <2> HIDE DEF x
  <2> QED BY <2>3, <2>4, DriverMoves
<1> QED BY <1>1, <1>2

LEMMA ReserveRepositoryStep ==
  ASSUME GoalInductive, NEW d \in Drivers, ReserveRepository(d)
  PROVE  GoalInductive'
<1>1. CASE Stop(d)
  BY <1>1, DriverStops DEF ReserveRepository
<1>2. CASE /\ ReservationAccepted(drv[d].rec, CurrentGoal)
           /\ drv' = [drv EXCEPT ![d].pc = "append", ![d].version = Len(history)]
  <2> DEFINE x == [[drv[d] EXCEPT !.pc = "append"] EXCEPT !.version = Len(history)]
  <2>1. drv[d] \in GoalWriting
    BY DriverFrame DEF ReserveRepository, GoalInductive
  <2>2. Len(history) \in Nat
    BY DEF GoalInductive, GoalTypeOK
  <2>3. /\ x \in GoalWriting /\ x.pc = "append" /\ x.version = Len(history)
        /\ x.rec = drv[d].rec
    BY <2>1, <2>2 DEF GoalWriting
  <2>4. drv' = [drv EXCEPT ![d] = x] /\ UNCHANGED <<history, rep, started>>
    BY <1>2 DEF ReserveRepository, GoalInductive, GoalTypeOK
  <2> HIDE DEF x
  <2> QED BY <1>2, <2>3, <2>4, DriverMoves
<1> QED BY <1>1, <1>2 DEF ReserveRepository

(* The append of a reservation: the driver that goes on to run holds the   *)
(* slot just reserved, which is beyond every slot held or used before.     *)
LEMMA ReserveCommitStep ==
  ASSUME GoalInductive, NEW d \in Drivers, ReserveCommit(d)
  PROVE  GoalInductive'
<1>1. CASE ~ GoalVersionMatches(drv[d].version)
  BY <1>1, DriverStops DEF ReserveCommit
<1>2. CASE GoalVersionMatches(drv[d].version)
  <2> DEFINE rec == drv[d].rec
             x == [pc |-> "run", last |-> drv[d].last, slot |-> rec.done]
  <2>1. drv[d] \in GoalWriting /\ rec \in GoalRecord /\ rec.done \in Nat
    <3>1. drv[d] \in GoalWriting
      BY DriverFrame DEF ReserveCommit, GoalInductive
    <3> QED BY <3>1 DEF GoalWriting, GoalRecord
  <2>2. ReservationAccepted(rec, CurrentGoal)
    BY <1>2 DEF ReserveCommit, GoalInductive, PendingAccepted
  <2>3. history' = Append(history, rec) /\ UNCHANGED <<rep, started>>
    BY <1>2 DEF ReserveCommit
  <2>4. /\ CurrentGoal \in GoalRecord /\ CurrentGoal.done \in Nat
        /\ Len(history) \in Nat \ {0}
    BY CurrentGoalType DEF GoalInductive, GoalTypeOK
  <2>5. rec.done = CurrentGoal.done + 1 /\ rec.done <= Budget
    BY <2>1, <2>2, <2>4, WorkGoalsAssumption DEF ReservationAccepted
  <2>6. Follows(rec, CurrentGoal)
    BY <2>1, <2>2, <2>4, ReservationFollows
  <2>7. drv' = [drv EXCEPT ![d] = x] \/ drv' = [drv EXCEPT ![d] = GoalIdle]
    BY <1>2 DEF ReserveCommit, Stop
  <2>8. x \in Looping /\ x.pc = "run" /\ x.slot = rec.done
    BY <2>1 DEF Looping, GoalWriting
  <2> HIDE DEF rec, x
  <2>9. /\ history' \in Seq(GoalRecord) /\ Len(history') = Len(history) + 1 /\ CurrentGoal' = rec
        /\ CountNeverFalls' /\ TerminalEvidenceStays'
    BY <2>1, <2>3, <2>6, GoalHistoryKept
  <2>10. /\ \A e \in Drivers \ {d} : drv'[e] = drv[e]
         /\ drv'[d] = GoalIdle \/ drv'[d] = x
    BY <2>7 DEF GoalInductive, GoalTypeOK
  <2>11. GoalTypeOK'
    BY <2>3, <2>7, <2>8, <2>9 DEF GoalInductive, GoalTypeOK
  <2>12. PendingAccepted'
    <3>1. \A e \in Drivers : drv'[e].pc = "append" => drv'[e].version < Len(history')
      <4> SUFFICES ASSUME NEW e \in Drivers, drv'[e].pc = "append"
                   PROVE  drv'[e].version < Len(history')
        OBVIOUS
      <4>1. e # d
        BY <2>8, <2>10 DEF GoalIdle
      <4>2. drv[e].pc = "append" /\ drv[e] \in GoalWriting /\ drv'[e] = drv[e]
        BY <4>1, <2>10, DriverFrame DEF GoalInductive
      <4>3. drv[e].version <= Len(history) /\ drv[e].version \in Nat
        BY <4>2 DEF GoalInductive, PendingAccepted, GoalWriting
      <4> QED BY <4>2, <4>3, <2>4, <2>9
    <3>2. \A r \in Reporters : rep[r].pc = "append" => rep[r].version < Len(history')
      <4> SUFFICES ASSUME NEW r \in Reporters, rep[r].pc = "append"
                   PROVE  rep[r].version < Len(history')
        OBVIOUS
      <4>1. rep[r].version <= Len(history) /\ rep[r].version \in Nat
        BY ReporterFrame DEF GoalInductive, PendingAccepted, Report
      <4> QED BY <4>1, <2>4, <2>9
    <3>3. Len(history') \in Nat
      BY <2>4, <2>9
    <3>4. \A e \in Drivers : drv'[e].pc = "append" => drv'[e].version \in Nat
      BY <2>11, <2>10, <2>8, DriverFrame DEF GoalIdle, GoalInductive, GoalWriting
    <3>5. \A r \in Reporters : rep[r].pc = "append" => rep[r].version \in Nat
      BY ReporterFrame DEF GoalInductive, Report
    <3> QED BY <3>1, <3>2, <3>3, <3>4, <3>5, <2>3 DEF PendingAccepted, GoalVersionMatches
  <2>13. EachSlotRunsOnce'
    <3>1. \A i \in 1 .. Len(started) : started[i] \in 1 .. rec.done
      BY <2>4, <2>5 DEF GoalInductive, EachSlotRunsOnce
    <3> QED BY <3>1, <2>3, <2>5, <2>9 DEF GoalInductive, EachSlotRunsOnce
  <2>14. SlotsHeld'
    <3>1. ASSUME NEW e \in Drivers, e # d, drv'[e].pc = "run"
          PROVE  /\ drv'[e] = drv[e]
                 /\ drv[e].pc = "run"
                 /\ drv[e].slot \in 1 .. CurrentGoal.done
                 /\ \A i \in 1 .. Len(started) : started[i] # drv[e].slot
      BY <3>1, <2>10 DEF GoalInductive, SlotsHeld
    <3>2. \A i \in 1 .. Len(started) : started[i] \in 1 .. CurrentGoal.done
      BY DEF GoalInductive, EachSlotRunsOnce
    <3>3. drv'[d].pc = "run" => drv'[d].slot = rec.done
      BY <2>8, <2>10 DEF GoalIdle
    <3>4. ASSUME NEW e \in Drivers, drv'[e].pc = "run"
          PROVE  /\ drv'[e].slot \in 1 .. rec.done
                 /\ \A i \in 1 .. Len(started) : started[i] # drv'[e].slot
      <4>1. CASE e = d
        BY <4>1, <3>2, <3>3, <3>4, <2>4, <2>5
      <4>2. CASE e # d
        BY <4>2, <3>1, <3>4, <2>4, <2>5
      <4> QED BY <4>1, <4>2
    <3>5. ASSUME NEW e \in Drivers, NEW f \in Drivers, drv'[e].pc = "run",
                 drv'[f].pc = "run", drv'[e].slot = drv'[f].slot
          PROVE  e = f
      <4>1. CASE e # d /\ f # d
        BY <4>1, <3>1, <3>5 DEF GoalInductive, SlotsHeld
      <4>2. CASE e = d /\ f # d
        BY <4>2, <3>1, <3>3, <3>5, <2>4, <2>5
      <4>3. CASE e # d /\ f = d
        BY <4>3, <3>1, <3>3, <3>5, <2>4, <2>5
      <4> QED BY <4>1, <4>2, <4>3
    <3> QED BY <3>4, <3>5, <2>3, <2>9 DEF SlotsHeld
  <2> QED BY <2>9, <2>4, <2>11, <2>12, <2>13, <2>14 DEF GoalInductive
<1> QED BY <1>1, <1>2

(* Running a held slot moves it from the driver to the started runs. *)
LEMMA RunIterationStep ==
  ASSUME GoalInductive, NEW d \in Drivers, RunIteration(d)
  PROVE  GoalInductive'
<1> DEFINE n == drv[d].slot
           x == [pc |-> "loop", last |-> drv[d].last + 1, slot |-> 0]
<1>1. drv[d] \in Looping /\ drv[d].pc = "run" /\ n \in Nat
  <2>1. drv[d] \in Looping /\ drv[d].pc = "run"
    BY DriverFrame DEF RunIteration, GoalInductive
  <2> QED BY <2>1 DEF Looping
<1>2. x \in Looping /\ x.pc = "loop"
  BY <1>1 DEF Looping
<1>3. /\ started' = Append(started, n) /\ UNCHANGED <<history, rep>>
      /\ drv' = [drv EXCEPT ![d] = x] \/ drv' = [drv EXCEPT ![d] = GoalIdle]
  BY DEF RunIteration, Stop
<1>4. n \in 1 .. CurrentGoal.done /\ \A i \in 1 .. Len(started) : started[i] # n
  BY <1>1 DEF GoalInductive, SlotsHeld
<1> HIDE DEF n, x
<1>5. /\ started' \in Seq(Nat)
      /\ Len(started') = Len(started) + 1
      /\ Len(started) \in Nat
      /\ started'[Len(started) + 1] = n
      /\ \A i \in 1 .. Len(started) : started'[i] = started[i]
  BY <1>1, <1>3 DEF GoalInductive, GoalTypeOK
<1>6. /\ \A e \in Drivers \ {d} : drv'[e] = drv[e]
      /\ drv'[d].pc \notin {"run", "append"}
  BY <1>2, <1>3 DEF GoalInductive, GoalTypeOK, GoalIdle
<1>7. GoalTypeOK'
  BY <1>2, <1>3, <1>5 DEF GoalInductive, GoalTypeOK
<1>8. CurrentGoal' = CurrentGoal
  BY <1>3 DEF CurrentGoal
<1>9. Len(history') > 0 /\ CountNeverFalls' /\ TerminalEvidenceStays'
  BY <1>3 DEF GoalInductive, CountNeverFalls, TerminalEvidenceStays
<1>10. PendingAccepted'
  BY <1>3, <1>6, <1>8
     DEF GoalInductive, PendingAccepted, GoalVersionMatches, ReservationAccepted, ReportAccepted
<1>11. EachSlotRunsOnce'
  <2>1. \A i \in 1 .. Len(started') : started'[i] \in 1 .. CurrentGoal.done
    BY <1>4, <1>5 DEF GoalInductive, EachSlotRunsOnce
  <2>2. ASSUME NEW i \in 1 .. Len(started'), NEW j \in 1 .. Len(started'),
               started'[i] = started'[j]
        PROVE  i = j
    <3>1. CASE i \in 1 .. Len(started) /\ j \in 1 .. Len(started)
      BY <3>1, <2>2, <1>5 DEF GoalInductive, EachSlotRunsOnce
    <3>2. CASE i \in 1 .. Len(started) /\ j = Len(started) + 1
      BY <3>2, <2>2, <1>4, <1>5
    <3>3. CASE i = Len(started) + 1 /\ j \in 1 .. Len(started)
      BY <3>3, <2>2, <1>4, <1>5
    <3> QED BY <3>1, <3>2, <3>3, <1>5
  <2> QED BY <2>1, <2>2, <1>8 DEF GoalInductive, EachSlotRunsOnce
<1>12. SlotsHeld'
  <2>1. ASSUME NEW e \in Drivers, drv'[e].pc = "run"
        PROVE  e # d /\ drv'[e] = drv[e] /\ drv[e].pc = "run" /\ drv[e].slot # n
    <3>1. e # d /\ drv'[e] = drv[e] /\ drv[e].pc = "run"
      BY <2>1, <1>6
    <3> QED BY <3>1, <1>1 DEF GoalInductive, SlotsHeld, n
  <2>2. ASSUME NEW e \in Drivers, drv'[e].pc = "run"
        PROVE  /\ drv'[e].slot \in 1 .. CurrentGoal.done
               /\ \A i \in 1 .. Len(started') : started'[i] # drv'[e].slot
    <3>1. drv'[e] = drv[e] /\ drv[e].pc = "run" /\ drv[e].slot # n
      BY <2>1, <2>2
    <3>2. /\ drv[e].slot \in 1 .. CurrentGoal.done
          /\ \A i \in 1 .. Len(started) : started[i] # drv[e].slot
      BY <3>1 DEF GoalInductive, SlotsHeld
    <3> QED BY <3>1, <3>2, <1>5
  <2> QED BY <2>1, <2>2, <1>8 DEF GoalInductive, SlotsHeld
<1> QED BY <1>7, <1>9, <1>10, <1>11, <1>12 DEF GoalInductive

LEMMA ReportStatusStep ==
  ASSUME GoalInductive, NEW r \in Reporters, NEW s \in GoalStatus, ReportStatus(r, s)
  PROVE  GoalInductive'
<1> DEFINE rec == [CurrentGoal EXCEPT !.status = s, !.evidence = r]
           x == [pc |-> "repository", rec |-> rec, version |-> 0]
<1>1. rec \in GoalRecord
  BY CurrentGoalType DEF GoalInductive, GoalRecord
<1>2. rep' = [rep EXCEPT ![r] = x] /\ UNCHANGED <<history, drv, started>>
  BY DEF ReportStatus
<1> HIDE DEF rec
<1>3. x \in Report /\ x.pc # "append"
  BY <1>1 DEF Report
<1> HIDE DEF x
<1> QED BY <1>2, <1>3, ReporterMoves

LEMMA ReportRepositoryStep ==
  ASSUME GoalInductive, NEW r \in Reporters, ReportRepository(r)
  PROVE  GoalInductive'
<1> DEFINE x == IF ReportAccepted(rep[r].rec, CurrentGoal)
                THEN [pc |-> "append", rec |-> rep[r].rec, version |-> Len(history)]
                ELSE GoalIdle
<1>1. rep[r] \in Report /\ Len(history) \in Nat
  BY ReporterFrame DEF ReportRepository, GoalInductive, GoalTypeOK
<1>2. rep' = [rep EXCEPT ![r] = x] /\ UNCHANGED <<history, drv, started>>
  BY DEF ReportRepository
<1>3. x \in {GoalIdle} \cup Report
  BY <1>1 DEF Report
<1>4. x.pc = "append" => x.version = Len(history) /\ ReportAccepted(x.rec, CurrentGoal)
  <2>1. CASE ReportAccepted(rep[r].rec, CurrentGoal)
    BY <2>1
  <2>2. CASE ~ ReportAccepted(rep[r].rec, CurrentGoal)
    BY <2>2 DEF GoalIdle
  <2> QED BY <2>1, <2>2
<1> HIDE DEF x
<1> QED BY <1>2, <1>3, <1>4, ReporterMoves

(* The append of a report keeps every reservation: held and used slots     *)
(* stay within the count.                                                  *)
LEMMA ReportCommitStep ==
  ASSUME GoalInductive, NEW r \in Reporters, ReportCommit(r)
  PROVE  GoalInductive'
<1>1. CASE ~ GoalVersionMatches(rep[r].version)
  <2>1. GoalIdle \in {GoalIdle} \cup Report /\ GoalIdle.pc # "append"
    BY DEF GoalIdle
  <2>2. rep' = [rep EXCEPT ![r] = GoalIdle] /\ UNCHANGED <<history, drv, started>>
    BY <1>1 DEF ReportCommit
  <2> QED BY <2>1, <2>2, ReporterMoves
<1>2. CASE GoalVersionMatches(rep[r].version)
  <2> DEFINE rec == rep[r].rec
  <2>1. rec \in GoalRecord /\ rec.done \in Nat
    <3>1. rep[r] \in Report
      BY ReporterFrame DEF ReportCommit, GoalInductive
    <3> QED BY <3>1 DEF Report, GoalRecord
  <2>2. ReportAccepted(rec, CurrentGoal)
    BY <1>2 DEF ReportCommit, GoalInductive, PendingAccepted
  <2>3. /\ history' = Append(history, rec) /\ UNCHANGED <<drv, started>>
        /\ rep' = [rep EXCEPT ![r] = GoalIdle]
    BY <1>2 DEF ReportCommit
  <2>4. /\ CurrentGoal \in GoalRecord /\ CurrentGoal.done \in Nat
        /\ Len(history) \in Nat \ {0} /\ CurrentGoal.done <= Budget
    BY CurrentGoalType DEF GoalInductive, GoalTypeOK, EachSlotRunsOnce
  <2>5. rec.done = CurrentGoal.done
    BY <2>2 DEF ReportAccepted
  <2>6. Follows(rec, CurrentGoal)
    BY <2>1, <2>2, <2>4, ReportFollows
  <2> HIDE DEF rec
  <2>7. /\ history' \in Seq(GoalRecord) /\ Len(history') = Len(history) + 1 /\ CurrentGoal' = rec
        /\ CountNeverFalls' /\ TerminalEvidenceStays'
    BY <2>1, <2>3, <2>6, GoalHistoryKept
  <2>8. GoalTypeOK'
    BY <2>3, <2>7 DEF GoalInductive, GoalTypeOK
  <2>9. PendingAccepted'
    <3>1. ASSUME NEW e \in Drivers, drv[e].pc = "append"
          PROVE  drv[e].version \in Nat /\ drv[e].version < Len(history')
      <4>1. drv[e].version <= Len(history) /\ drv[e].version \in Nat
        BY <3>1, DriverFrame DEF GoalInductive, PendingAccepted, GoalWriting
      <4> QED BY <4>1, <2>4, <2>7
    <3>2. ASSUME NEW q \in Reporters, rep'[q].pc = "append"
          PROVE  rep'[q].version \in Nat /\ rep'[q].version < Len(history')
      <4>1. q # r /\ rep'[q] = rep[q]
        BY <3>2, <2>3 DEF GoalInductive, GoalTypeOK, GoalIdle
      <4>2. rep[q].version <= Len(history) /\ rep[q].version \in Nat
        BY <4>1, <3>2, ReporterFrame DEF GoalInductive, PendingAccepted, Report
      <4> QED BY <4>1, <4>2, <2>4, <2>7
    <3>3. Len(history') \in Nat
      BY <2>4, <2>7
    <3> QED BY <3>1, <3>2, <3>3, <2>3 DEF PendingAccepted, GoalVersionMatches
  <2>10. EachSlotRunsOnce' /\ SlotsHeld'
    BY <2>3, <2>4, <2>5, <2>7 DEF GoalInductive, EachSlotRunsOnce, SlotsHeld
  <2> QED BY <2>4, <2>7, <2>8, <2>9, <2>10 DEF GoalInductive
<1> QED BY <1>1, <1>2

LEMMA GoalCrashStep ==
  ASSUME GoalInductive, GoalCrash
  PROVE  GoalInductive'
<1>1. /\ UNCHANGED <<history, started>>
      /\ \A d \in Drivers : drv'[d].pc = "idle"
      /\ \A r \in Reporters : rep'[r].pc = "idle"
  BY DEF GoalCrash, GoalIdle
<1>2. GoalTypeOK'
  BY DEF GoalInductive, GoalTypeOK, GoalCrash
<1> QED BY <1>1, <1>2 DEF GoalInductive, CountNeverFalls, TerminalEvidenceStays, PendingAccepted,
                          EachSlotRunsOnce, SlotsHeld, CurrentGoal

-----------------------------------------------------------------------------
LEMMA GoalInitInductive == GoalInit => GoalInductive
<1> SUFFICES ASSUME GoalInit PROVE GoalInductive
  OBVIOUS
<1> DEFINE g == [status |-> "Active", evidence |-> "none", done |-> 0]
<1>1. g \in GoalRecord /\ g.done = 0
  BY DEF GoalRecord, GoalStatus
<1>2. history = <<g>> /\ Len(history) = 1 /\ history[1] = g /\ started = << >>
  BY DEF GoalInit
<1> HIDE DEF g
<1>3. GoalTypeOK
  BY <1>1, <1>2 DEF GoalInit, GoalTypeOK
<1>4. CurrentGoal = g
  BY <1>2 DEF CurrentGoal
<1>5. /\ \A d \in Drivers : drv[d].pc = "idle"
      /\ \A r \in Reporters : rep[r].pc = "idle"
  BY DEF GoalInit, GoalIdle
<1>6. CountNeverFalls /\ TerminalEvidenceStays
  BY <1>2 DEF CountNeverFalls, TerminalEvidenceStays
<1>7. EachSlotRunsOnce
  BY <1>1, <1>2, <1>4, WorkGoalsAssumption DEF EachSlotRunsOnce
<1> QED BY <1>2, <1>3, <1>5, <1>6, <1>7 DEF GoalInductive, PendingAccepted, SlotsHeld

LEMMA GoalNextInductive == GoalInductive /\ [GoalNext]_goalVars => GoalInductive'
<1> SUFFICES ASSUME GoalInductive, [GoalNext]_goalVars PROVE GoalInductive'
  OBVIOUS
<1>1. ASSUME NEW d \in Drivers,
             Resume(d) \/ LoopRead(d) \/ Reserve(d) \/ ReserveRepository(d)
             \/ ReserveCommit(d) \/ RunIteration(d)
      PROVE  GoalInductive'
  BY <1>1, ResumeStep, LoopReadStep, ReserveStep, ReserveRepositoryStep, ReserveCommitStep,
     RunIterationStep
<1>2. ASSUME NEW r \in Reporters,
             (\E s \in GoalStatus : ReportStatus(r, s)) \/ ReportRepository(r) \/ ReportCommit(r)
      PROVE  GoalInductive'
  BY <1>2, ReportStatusStep, ReportRepositoryStep, ReportCommitStep
<1>3. CASE GoalCrash
  BY <1>3, GoalCrashStep
<1>4. CASE UNCHANGED goalVars
  BY <1>4 DEF goalVars, GoalInductive, GoalTypeOK, CountNeverFalls, TerminalEvidenceStays, PendingAccepted,
              EachSlotRunsOnce, SlotsHeld, CurrentGoal, GoalVersionMatches, ReservationAccepted,
              ReportAccepted
<1> QED BY <1>1, <1>2, <1>3, <1>4 DEF GoalNext

(* The budget bounds the runs and no slot runs twice, whatever the drivers *)
(* and reporters interleave and wherever they stop (record_goal_iteration  *)
(* and update_goal of the work repository).                                *)
THEOREM SlotsAreUsedOnce == GoalSpec => []SlotUsedOnce
<1>1. GoalInductive => SlotUsedOnce
  BY DEF GoalInductive, SlotUsedOnce
<1> QED BY <1>1, GoalInitInductive, GoalNextInductive, PTL DEF GoalSpec

(* A terminal status and its evidence are never overwritten, not even by a *)
(* reservation or a report prepared before the goal ended.                 *)
THEOREM TerminalEvidenceIsFinal == GoalSpec => []TerminalEvidenceStays
<1>1. GoalInductive => TerminalEvidenceStays
  BY DEF GoalInductive
<1> QED BY <1>1, GoalInitInductive, GoalNextInductive, PTL DEF GoalSpec
=============================================================================
