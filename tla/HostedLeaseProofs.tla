-------------------------- MODULE HostedLeaseProofs --------------------------
(***************************************************************************)
(* Theorems about HostedLease, for any number of replicas, runtime         *)
(* attempts and edits, and any number of writes, tasks, expiries and       *)
(* crashes.                                                                *)
(***************************************************************************)
EXTENDS HostedLease, TLAPS

(* An attempt that has begun and an edit that goes on have a replica, and  *)
(* what is about to be cached is a stored revision.                        *)
Homes ==
    /\ \A a \in Attempts : attempt[a].pc # "new" => attempt[a].home \in Replicas
    /\ \A a \in Attempts : attempt[a].pc = "refresh" => attempt[a].config >= 1
    /\ \A e \in Edits : edit[e].pc \notin {"new", "gone"} => edit[e].home \in Replicas

(* No event carries a generation that was not yet handed out. *)
JournalBehindLease == \A i \in 1 .. Len(journal) : journal[i] <= lease.gen

(* The pcs of an edit that has found or made the partition free. *)
Free == {"refresh", "projects", "recheck", "publish"}

(* While its gate is live, the partition an edit found free stays free. *)
GateKeepsOut ==
    \A e \in Edits : (edit[e].pc \in Free /\ gate.live /\ gate.owner = e) =>
        ~ (lease.live /\ lease.owner \in Attempts)

(* With the gate's row in place an admission locks it, so no task is being *)
(* admitted under a live gate, and none is queued when its edit publishes. *)
NoTaskUnderGate ==
    GateRow =>
        /\ gate.exists
        /\ admit # "unlocked"
        /\ gate.live => admit = "none"
        /\ \A e \in Edits : (edit[e].pc = "publish" /\ gate.live /\ gate.owner = e) => ~ queued

Inductive ==
    /\ TypeOK
    /\ config >= 1
    /\ budget \in [writes: Nat, tasks: Nat, expiries: Nat, crashes: Nat]
    /\ Homes
    /\ NewerGenerationFences
    /\ JournalBehindLease
    /\ GateKeepsOut
    /\ NoTaskUnderGate

-----------------------------------------------------------------------------
(* Type correctness, for the attempts and for the edits. *)

AttemptRec(c, g) ==
    [pc: AttemptPcs, home: Replicas \cup {NoOne}, config: 0 .. c, gen: 0 .. g, verified: BOOLEAN]

EditRec(g) ==
    [pc: EditPcs, home: Replicas \cup {NoOne}, target: 0 .. g, reserved: 0 .. g, revision: Nat]

(* Newer revisions and generations keep what is known of older ones. *)
LEMMA RecsGrow ==
  ASSUME NEW c \in Nat, NEW d \in Nat, c <= d, NEW g \in Nat, NEW h \in Nat, g <= h
  PROVE  AttemptRec(c, g) \subseteq AttemptRec(d, h) /\ EditRec(g) \subseteq EditRec(h)
<1>1. 0 .. c \subseteq 0 .. d /\ 0 .. g \subseteq 0 .. h
  OBVIOUS
<1> QED BY <1>1 DEF AttemptRec, EditRec

(* The states an attempt and an edit may be in. *)
LEMMA Fields ==
  ASSUME TypeOK
  PROVE  /\ lease.gen \in Nat /\ lease.owner \in Owner /\ lease.live \in BOOLEAN
         /\ config \in Nat
         /\ attempt \in [Attempts -> AttemptRec(config, lease.gen)]
         /\ edit \in [Edits -> EditRec(lease.gen)]
BY DEF TypeOK, AttemptRec, EditRec

(* Moving an attempt, and moving an edit. *)
LEMMA ToType ==
  ASSUME TypeOK, NEW a \in Attempts, NEW pc \in AttemptPcs, To(a, pc)
  PROVE  /\ attempt' \in [Attempts -> AttemptRec(config, lease.gen)]
         /\ attempt'[a].pc = pc
         /\ attempt'[a].home = attempt[a].home /\ attempt'[a].gen = attempt[a].gen
         /\ attempt'[a].config = attempt[a].config
         /\ \A b \in Attempts \ {a} : attempt'[b] = attempt[b]
<1>1. attempt[a] \in AttemptRec(config, lease.gen)
  BY Fields
<1>2. [attempt[a] EXCEPT !.pc = pc] \in AttemptRec(config, lease.gen)
  BY <1>1 DEF AttemptRec
<1> QED BY <1>1, <1>2, Fields DEF To, AttemptRec

LEMMA EditToType ==
  ASSUME TypeOK, NEW e \in Edits, NEW pc \in EditPcs, EditTo(e, pc)
  PROVE  /\ edit' \in [Edits -> EditRec(lease.gen)]
         /\ edit'[e].pc = pc
         /\ edit'[e].home = edit[e].home
         /\ \A f \in Edits \ {e} : edit'[f] = edit[f]
<1>1. edit[e] \in EditRec(lease.gen)
  BY Fields
<1>2. [edit[e] EXCEPT !.pc = pc] \in EditRec(lease.gen)
  BY <1>1 DEF EditRec
<1> QED BY <1>1, <1>2, Fields DEF EditTo, EditRec

-----------------------------------------------------------------------------
(* Steps that hand out no lease and no gate. *)

Gates == [owner: Edits \cup {NoOne}, live: BOOLEAN, exists: BOOLEAN]

LeaseKept == lease' \in {lease, [lease EXCEPT !.live = FALSE]}

GateKept ==
    /\ gate' \in Gates
    /\ gate'.owner = gate.owner
    /\ gate'.live => gate.live
    /\ gate.exists => gate'.exists

LEMMA LeaseKeptFields ==
  ASSUME TypeOK, LeaseKept
  PROVE  /\ lease' \in [owner: Owner, gen: Nat, live: BOOLEAN]
         /\ lease'.gen = lease.gen /\ lease'.owner = lease.owner
         /\ lease'.live => lease.live
BY DEF TypeOK, LeaseKept

LEMMA GateUnchanged ==
  ASSUME TypeOK, gate' = gate
  PROVE  GateKept
BY DEF TypeOK, GateKept, Gates

(* An attempt goes on to x. *)
LEMMA AttemptMoves ==
  ASSUME Inductive, NEW a \in Attempts, NEW x \in AttemptRec(config, lease.gen),
         attempt' = [attempt EXCEPT ![a] = x],
         x.pc # "new" => x.home \in Replicas,
         x.pc = "refresh" => x.config >= 1,
         LeaseKept, GateKept,
         UNCHANGED <<request, config, edit, tasks, journal, budget>>,
         cache' \in [Replicas -> 1 .. config], lifecycle' \in [Replicas -> Owner]
  PROVE  Inductive'
<1>1. /\ lease' \in [owner: Owner, gen: Nat, live: BOOLEAN]
      /\ lease'.gen = lease.gen /\ lease'.owner = lease.owner
      /\ lease'.live => lease.live
  BY LeaseKeptFields DEF Inductive
<1>2. /\ attempt' \in [Attempts -> AttemptRec(config, lease.gen)]
      /\ attempt'[a] = x
      /\ \A b \in Attempts \ {a} : attempt'[b] = attempt[b]
  BY Fields DEF Inductive
<1>3. TypeOK'
  BY <1>1, <1>2 DEF Inductive, TypeOK, AttemptRec, GateKept, Gates, tasks
<1>4. Homes'
  BY <1>2 DEF Inductive, Homes
<1>5. config' >= 1 /\ budget' \in [writes: Nat, tasks: Nat, expiries: Nat, crashes: Nat]
  BY DEF Inductive
<1>6. NewerGenerationFences' /\ JournalBehindLease'
  BY <1>1 DEF Inductive, NewerGenerationFences, JournalBehindLease
<1>7. GateKeepsOut'
  BY <1>1 DEF Inductive, GateKeepsOut, GateKept
<1>8. NoTaskUnderGate'
  BY DEF Inductive, NoTaskUnderGate, GateKept, tasks
<1> QED BY <1>3, <1>4, <1>5, <1>6, <1>7, <1>8 DEF Inductive

(* An edit goes on to x: what it claims to have found must be so. *)
LEMMA EditMoves ==
  ASSUME Inductive, NEW e \in Edits, NEW x \in EditRec(lease.gen),
         edit' = [edit EXCEPT ![e] = x],
         x.pc \notin {"new", "gone"} => x.home \in Replicas,
         (x.pc \in Free /\ gate.live /\ gate.owner = e) => ~ (lease.live /\ lease.owner \in Attempts),
         x.pc = "publish" => ~ queued,
         LeaseKept, GateKept,
         UNCHANGED <<config, attempt, tasks, journal, budget>>,
         request' \in [Edits -> [status: {"none", "sent", "dispatched", "answered", "expired"},
                                gen: Nat]],
         cache' \in [Replicas -> 1 .. config], lifecycle' \in [Replicas -> Owner]
  PROVE  Inductive'
<1>1. /\ lease' \in [owner: Owner, gen: Nat, live: BOOLEAN]
      /\ lease'.gen = lease.gen /\ lease'.owner = lease.owner
      /\ lease'.live => lease.live
  BY LeaseKeptFields DEF Inductive
<1>2. /\ edit' \in [Edits -> EditRec(lease.gen)]
      /\ edit'[e] = x
      /\ \A f \in Edits \ {e} : edit'[f] = edit[f]
  BY Fields DEF Inductive
<1>3. TypeOK'
  BY <1>1, <1>2 DEF Inductive, TypeOK, EditRec, GateKept, Gates, tasks
<1>4. Homes'
  BY <1>2 DEF Inductive, Homes
<1>5. config' >= 1 /\ budget' \in [writes: Nat, tasks: Nat, expiries: Nat, crashes: Nat]
  BY DEF Inductive
<1>6. NewerGenerationFences' /\ JournalBehindLease'
  BY <1>1 DEF Inductive, NewerGenerationFences, JournalBehindLease
<1>7. GateKeepsOut'
  BY <1>1, <1>2 DEF Inductive, GateKeepsOut, GateKept
<1>8. NoTaskUnderGate'
  BY <1>2 DEF Inductive, NoTaskUnderGate, GateKept, tasks
<1> QED BY <1>3, <1>4, <1>5, <1>6, <1>7, <1>8 DEF Inductive

(* The two most common forms: only the place changes. *)
LEMMA AttemptGoes ==
  ASSUME Inductive, NEW a \in Attempts, attempt[a].pc # "new",
         NEW pc \in AttemptPcs \ {"new", "refresh"}, To(a, pc), LeaseKept, GateKept,
         UNCHANGED <<request, config, edit, tasks, journal, budget>>,
         cache' \in [Replicas -> 1 .. config], lifecycle' \in [Replicas -> Owner]
  PROVE  Inductive'
<1>1. PICK x : x = [attempt[a] EXCEPT !.pc = pc]
  OBVIOUS
<1>2. attempt[a] \in AttemptRec(config, lease.gen)
  BY Fields DEF Inductive
<1>3. x \in AttemptRec(config, lease.gen) /\ x.pc = pc /\ x.home = attempt[a].home
  BY <1>1, <1>2 DEF AttemptRec
<1>4. attempt' = [attempt EXCEPT ![a] = x]
  BY <1>1 DEF To
<1>5. x.home \in Replicas
  BY <1>3 DEF Inductive, Homes
<1> QED BY <1>3, <1>4, <1>5, AttemptMoves

LEMMA EditGoes ==
  ASSUME Inductive, NEW e \in Edits, edit[e].pc \notin {"new", "gone"},
         NEW pc \in EditPcs \ {"new"}, EditTo(e, pc),
         (pc \in Free /\ gate.live /\ gate.owner = e) => ~ (lease.live /\ lease.owner \in Attempts),
         pc = "publish" => ~ queued,
         LeaseKept, GateKept,
         UNCHANGED <<config, attempt, tasks, journal, budget>>,
         request' \in [Edits -> [status: {"none", "sent", "dispatched", "answered", "expired"},
                                gen: Nat]],
         cache' \in [Replicas -> 1 .. config], lifecycle' \in [Replicas -> Owner]
  PROVE  Inductive'
<1>1. PICK x : x = [edit[e] EXCEPT !.pc = pc]
  OBVIOUS
<1>2. edit[e] \in EditRec(lease.gen)
  BY Fields DEF Inductive
<1>3. x \in EditRec(lease.gen) /\ x.pc = pc /\ x.home = edit[e].home
  BY <1>1, <1>2 DEF EditRec
<1>4. edit' = [edit EXCEPT ![e] = x]
  BY <1>1 DEF EditTo
<1>5. x.home \in Replicas
  BY <1>3 DEF Inductive, Homes
<1> QED BY <1>3, <1>4, <1>5, EditMoves

(* What such steps usually leave alone. *)
LEMMA Kept ==
  ASSUME Inductive
  PROVE  /\ lease' = lease => LeaseKept
         /\ gate' = gate => GateKept
         /\ cache' = cache /\ config' = config => cache' \in [Replicas -> 1 .. config]
         /\ lifecycle' = lifecycle => lifecycle' \in [Replicas -> Owner]
         /\ request' = request =>
                 request' \in [Edits -> [status: {"none", "sent", "dispatched", "answered", "expired"},
                                        gen: Nat]]
<1>1. gate' = gate => GateKept
  BY GateUnchanged DEF Inductive
<1> QED BY <1>1 DEF Inductive, TypeOK, LeaseKept

-----------------------------------------------------------------------------
(* The actions of an attempt, one by one. *)

LEMMA RefreshReadStep ==
  ASSUME Inductive, NEW a \in Attempts, RefreshRead(a)
  PROVE  Inductive'
<1>1. PICK r \in Replicas : attempt' = [attempt EXCEPT ![a] =
               [NoAttempt EXCEPT !.pc = "refresh", !.home = r, !.config = config]]
  BY DEF RefreshRead
<1>2. PICK x : x = [NoAttempt EXCEPT !.pc = "refresh", !.home = r, !.config = config]
  OBVIOUS
<1>3. config \in Nat /\ config >= 1 /\ lease.gen \in Nat
  BY Fields DEF Inductive
<1>4. /\ x \in AttemptRec(config, lease.gen)
      /\ x.pc = "refresh" /\ x.home = r /\ x.config = config
  <2>1. x = [pc |-> "refresh", home |-> r, config |-> config, gen |-> 0, verified |-> FALSE]
    BY <1>2 DEF NoAttempt
  <2>2. config \in 0 .. config /\ 0 \in 0 .. lease.gen
    BY <1>3
  <2> QED BY <2>1, <2>2 DEF AttemptRec, AttemptPcs
<1>5. /\ UNCHANGED <<request, config, edit, tasks, journal, budget>>
      /\ lease' = lease /\ gate' = gate /\ cache' = cache /\ lifecycle' = lifecycle
  BY DEF RefreshRead
<1>6. attempt' = [attempt EXCEPT ![a] = x]
  BY <1>1, <1>2
<1> QED BY <1>3, <1>4, <1>5, <1>6, Kept, AttemptMoves

LEMMA RefreshInsertStep ==
  ASSUME Inductive, NEW a \in Attempts, RefreshInsert(a)
  PROVE  Inductive'
<1>1. /\ attempt[a].pc = "refresh" /\ To(a, "ensure")
      /\ cache' = [cache EXCEPT ![attempt[a].home] = attempt[a].config]
      /\ UNCHANGED <<request, config, edit, tasks, journal, budget>>
      /\ lease' = lease /\ gate' = gate /\ lifecycle' = lifecycle
  BY DEF RefreshInsert
<1>2. attempt[a].config \in 1 .. config
  <2>1. attempt[a] \in AttemptRec(config, lease.gen) /\ attempt[a].config >= 1
    BY <1>1, Fields DEF Inductive, Homes
  <2> QED BY <2>1, Fields DEF Inductive, AttemptRec
<1>3. cache' \in [Replicas -> 1 .. config]
  BY <1>1, <1>2 DEF Inductive, TypeOK
<1>4. "ensure" \in AttemptPcs \ {"new", "refresh"}
  BY DEF AttemptPcs
<1> QED BY <1>1, <1>3, <1>4, Kept, AttemptGoes

LEMMA EnsureLocalStep ==
  ASSUME Inductive, NEW a \in Attempts, EnsureLocal(a)
  PROVE  Inductive'
<1>1. /\ attempt[a].pc = "ensure"
      /\ lifecycle' = [lifecycle EXCEPT ![attempt[a].home] = a]
      /\ attempt' = [attempt EXCEPT ![a].pc = "claim", ![a].config = cache[attempt[a].home]]
      /\ UNCHANGED <<request, config, edit, tasks, journal, budget>>
      /\ lease' = lease /\ gate' = gate /\ cache' = cache
  BY DEF EnsureLocal
<1>2. PICK x : x = [attempt[a] EXCEPT !.pc = "claim", !.config = cache[attempt[a].home]]
  OBVIOUS
<1>3. attempt[a] \in AttemptRec(config, lease.gen) /\ attempt[a].home \in Replicas
  BY <1>1, Fields DEF Inductive, Homes
<1>4. cache[attempt[a].home] \in 0 .. config
  BY <1>3 DEF Inductive, TypeOK
<1>5. x \in AttemptRec(config, lease.gen) /\ x.pc = "claim" /\ x.home = attempt[a].home
  BY <1>2, <1>3, <1>4 DEF AttemptRec, AttemptPcs
<1>6. attempt' = [attempt EXCEPT ![a] = x]
  BY <1>1, <1>2, Fields DEF Inductive
<1>7. a \in Owner
  BY DEF Owner
<1>8. lifecycle' \in [Replicas -> Owner]
  BY <1>1, <1>7 DEF Inductive, TypeOK
<1> QED BY <1>1, <1>3, <1>5, <1>6, <1>8, Kept, AttemptMoves

(* A claim hands out a new generation; no live gate watches it. *)
LEMMA ClaimLeaseStep ==
  ASSUME Inductive, NEW a \in Attempts, ClaimLease(a)
  PROVE  Inductive'
<1>1. /\ attempt[a].pc = "claim"
      /\ gate' = gate \/ gate' = [gate EXCEPT !.exists = TRUE]
      /\ UNCHANGED <<request, config, cache, edit, tasks, journal, budget>>
  BY DEF ClaimLease
<1>2. GateKept
  BY <1>1 DEF Inductive, TypeOK, GateKept, Gates
<1>3. a \in Owner /\ NoOne \in Owner
  BY DEF Owner
<1>4. CASE ~ (~gate.live /\ ~lease.live)
  <2>1. /\ To(a, "gone") /\ lease' = lease
        /\ lifecycle' = [lifecycle EXCEPT ![attempt[a].home] = NoOne]
    BY <1>4 DEF ClaimLease
  <2>2. lifecycle' \in [Replicas -> Owner]
    BY <1>3, <2>1 DEF Inductive, TypeOK
  <2>3. "gone" \in AttemptPcs \ {"new", "refresh"}
    BY DEF AttemptPcs
  <2> QED BY <1>1, <1>2, <2>1, <2>2, <2>3, Kept, AttemptGoes
<1>5. CASE ~gate.live /\ ~lease.live
  <2>1. /\ lease' = [owner |-> a, gen |-> lease.gen + 1, live |-> TRUE]
        /\ attempt' = [attempt EXCEPT ![a].pc = "starting", ![a].gen = lease.gen + 1]
        /\ lifecycle' = lifecycle
    BY <1>5 DEF ClaimLease
  <2>2. /\ lease' \in [owner: Owner, gen: Nat, live: BOOLEAN]
        /\ lease'.gen = lease.gen + 1 /\ lease.gen \in Nat /\ config \in Nat
    BY <1>3, <2>1, Fields DEF Inductive
  <2>3. PICK x : x = [attempt[a] EXCEPT !.pc = "starting", !.gen = lease.gen + 1]
    OBVIOUS
  <2>4. attempt[a] \in AttemptRec(config, lease.gen) /\ attempt[a].home \in Replicas
    BY <1>1, Fields DEF Inductive, Homes
  <2>5. /\ x \in AttemptRec(config, lease.gen + 1)
        /\ x.pc = "starting" /\ x.home = attempt[a].home
    <3>1. lease.gen + 1 \in 0 .. lease.gen + 1
      BY <2>2
    <3>2. attempt[a] \in AttemptRec(config, lease.gen + 1)
      BY <2>2, <2>4, RecsGrow
    <3> QED BY <2>3, <3>1, <3>2 DEF AttemptRec, AttemptPcs
  <2>6. attempt' = [attempt EXCEPT ![a] = x]
    BY <2>1, <2>3, Fields DEF Inductive
  <2>7. /\ AttemptRec(config, lease.gen) \subseteq AttemptRec(config, lease.gen + 1)
        /\ EditRec(lease.gen) \subseteq EditRec(lease.gen + 1)
    BY <2>2, RecsGrow
  <2>8. /\ attempt' \in [Attempts -> AttemptRec(config, lease.gen + 1)]
        /\ edit' \in [Edits -> EditRec(lease.gen + 1)]
        /\ attempt'[a] = x
        /\ \A b \in Attempts \ {a} : attempt'[b] = attempt[b]
    BY <1>1, <2>5, <2>6, <2>7, Fields DEF Inductive
  <2>9. TypeOK'
    BY <1>1, <1>2, <2>1, <2>2, <2>8
       DEF Inductive, TypeOK, AttemptRec, EditRec, GateKept, Gates, tasks
  <2>10. Homes'
    BY <1>1, <2>4, <2>5, <2>8 DEF Inductive, Homes
  <2>11. NewerGenerationFences'
    BY <1>1 DEF Inductive, NewerGenerationFences
  <2>12. JournalBehindLease'
    <3>0. journal \in Seq(Nat)
      BY DEF Inductive, TypeOK
    <3>1. journal' = journal /\ \A i \in 1 .. Len(journal) : journal[i] \in Nat
      BY <3>0, <1>1
    <3>2. \A i \in 1 .. Len(journal) : journal[i] <= lease.gen
      BY DEF Inductive, JournalBehindLease
    <3>3. \A i \in 1 .. Len(journal) : journal[i] <= lease'.gen
      BY <3>1, <3>2, <2>2
    <3> QED BY <3>1, <3>3 DEF JournalBehindLease
  <2>13. GateKeepsOut' /\ NoTaskUnderGate'
    BY <1>1, <1>2, <1>5 DEF Inductive, GateKeepsOut, NoTaskUnderGate, GateKept, tasks
  <2> QED BY <1>1, <2>9, <2>10, <2>11, <2>12, <2>13 DEF Inductive
<1> QED BY <1>4, <1>5

LEMMA StartStep ==
  ASSUME Inductive, NEW a \in Attempts, Start(a)
  PROVE  Inductive'
<1>1. /\ attempt[a].pc = "starting"
      /\ To(a, "running") \/ To(a, "releasing")
      /\ lifecycle' = [lifecycle EXCEPT ![attempt[a].home] = NoOne]
      /\ UNCHANGED <<request, config, edit, tasks, journal, budget>>
      /\ lease' = lease /\ gate' = gate /\ cache' = cache
  BY DEF Start
<1>2. lifecycle' \in [Replicas -> Owner]
  BY <1>1 DEF Inductive, TypeOK, Owner
<1>3. {"running", "releasing"} \subseteq AttemptPcs \ {"new", "refresh"}
  BY DEF AttemptPcs
<1>4. PICK pc \in {"running", "releasing"} : To(a, pc)
  BY <1>1
<1>5. /\ LeaseKept /\ GateKept /\ cache' \in [Replicas -> 1 .. config]
      /\ attempt[a].pc # "new" /\ pc \in AttemptPcs \ {"new", "refresh"}
  BY <1>1, <1>3, Kept
<1> QED BY <1>1, <1>2, <1>4, <1>5, AttemptGoes

(* Setting or clearing the verification moves nothing else. *)
LEMMA Verified ==
  ASSUME Inductive, NEW a \in Attempts, NEW b \in BOOLEAN, Writing(a),
         attempt' = [attempt EXCEPT ![a].verified = b],
         UNCHANGED <<lease, gate, request, config, cache, lifecycle, edit, tasks, journal, budget>>
  PROVE  Inductive'
<1>1. PICK x : x = [attempt[a] EXCEPT !.verified = b]
  OBVIOUS
<1>2. attempt[a] \in AttemptRec(config, lease.gen) /\ attempt[a].home \in Replicas
  BY Fields DEF Inductive, Homes, Writing
<1>3. /\ x \in AttemptRec(config, lease.gen)
      /\ x.pc = attempt[a].pc /\ x.home = attempt[a].home
  BY <1>1, <1>2 DEF AttemptRec
<1>4. attempt' = [attempt EXCEPT ![a] = x]
  BY <1>1
<1>5. x.pc # "refresh"
  BY <1>3 DEF Writing
<1> QED BY <1>2, <1>3, <1>4, <1>5, Kept, AttemptMoves

LEMMA VerifyFenceStep ==
  ASSUME Inductive, NEW a \in Attempts, VerifyFence(a)
  PROVE  Inductive'
BY Verified DEF VerifyFence

(* A fenced append carries the current generation. *)
LEMMA AppendFencedStep ==
  ASSUME Inductive, NEW a \in Attempts, AppendFenced(a)
  PROVE  Inductive'
<1>1. CASE ~ Holds(a)
  BY <1>1, Verified DEF AppendFenced
<1>2. CASE Holds(a)
  <2>1. /\ Writing(a) /\ attempt' = [attempt EXCEPT ![a].verified = FALSE]
        /\ budget.writes > 0
        /\ journal' = Append(journal, attempt[a].gen)
        /\ budget' = [budget EXCEPT !.writes = @ - 1]
        /\ UNCHANGED <<lease, gate, request, config, cache, lifecycle, edit, tasks>>
    BY <1>2 DEF AppendFenced
  <2>2. attempt[a].gen = lease.gen /\ lease.gen \in Nat
    BY <1>2, Fields DEF Holds, Inductive
  <2>3. budget' \in [writes: Nat, tasks: Nat, expiries: Nat, crashes: Nat]
    BY <2>1 DEF Inductive
  <2>4. journal \in Seq(Nat) /\ Len(journal) \in Nat
    BY DEF Inductive, TypeOK
  <2>5. /\ journal' \in Seq(Nat) /\ Len(journal') = Len(journal) + 1
        /\ journal'[Len(journal) + 1] = lease.gen
        /\ \A i \in 1 .. Len(journal) : journal'[i] = journal[i]
    BY <2>1, <2>2, <2>4
  <2>6. PICK x : x = [attempt[a] EXCEPT !.verified = FALSE]
    OBVIOUS
  <2>7. attempt[a] \in AttemptRec(config, lease.gen) /\ attempt[a].home \in Replicas
    BY <2>1, Fields DEF Inductive, Homes, Writing
  <2>8. /\ x \in AttemptRec(config, lease.gen)
        /\ x.pc = attempt[a].pc /\ x.home = attempt[a].home /\ x.config = attempt[a].config
    BY <2>6, <2>7 DEF AttemptRec
  <2>9. /\ attempt' \in [Attempts -> AttemptRec(config, lease.gen)]
        /\ attempt'[a] = x
        /\ \A b \in Attempts \ {a} : attempt'[b] = attempt[b]
    BY <2>1, <2>6, <2>8, Fields DEF Inductive
  <2>10. TypeOK'
    BY <2>1, <2>5, <2>9 DEF Inductive, TypeOK, AttemptRec, tasks
  <2>11. Homes'
    BY <2>1, <2>8, <2>9 DEF Inductive, Homes
  <2>12. JournalBehindLease'
    BY <2>1, <2>2, <2>4, <2>5 DEF Inductive, JournalBehindLease
  <2>13. NewerGenerationFences'
    <3> SUFFICES ASSUME NEW i \in 1 .. Len(journal'), NEW j \in 1 .. Len(journal'), i < j
                 PROVE  journal'[i] <= journal'[j]
      BY DEF NewerGenerationFences
    <3>1. i \in 1 .. Len(journal)
      BY <2>4, <2>5
    <3>2. CASE j = Len(journal) + 1
      BY <3>1, <3>2, <2>5 DEF Inductive, JournalBehindLease
    <3>3. CASE j \in 1 .. Len(journal)
      BY <3>1, <3>3, <2>5 DEF Inductive, NewerGenerationFences
    <3>4. PICK n \in Nat : n = Len(journal)
      BY <2>4
    <3>5. j \in 1 .. n + 1
      BY <3>4, <2>5
    <3>6. j = n + 1 \/ j \in 1 .. n
      BY <3>5
    <3> QED BY <3>2, <3>3, <3>4, <3>6
  <2>14. GateKeepsOut' /\ NoTaskUnderGate' /\ config' >= 1
    BY <2>1 DEF Inductive, GateKeepsOut, NoTaskUnderGate, tasks
  <2> QED BY <2>3, <2>10, <2>11, <2>12, <2>13, <2>14 DEF Inductive
<1> QED BY <1>1, <1>2

LEMMA StopStep ==
  ASSUME Inductive, NEW a \in Attempts, Stop(a)
  PROVE  Inductive'
<1>1. /\ attempt[a].pc # "new" /\ To(a, "releasing") /\ lease' = lease /\ gate' = gate
      /\ UNCHANGED <<request, config, edit, tasks, journal, budget>>
      /\ cache' = cache /\ lifecycle' = lifecycle
  BY DEF Stop
<1>2. "releasing" \in AttemptPcs \ {"new", "refresh"}
  BY DEF AttemptPcs
<1> QED BY <1>1, <1>2, Kept, AttemptGoes

LEMMA ReleaseLeaseStep ==
  ASSUME Inductive, NEW a \in Attempts, ReleaseLease(a)
  PROVE  Inductive'
<1>1. /\ attempt[a].pc # "new" /\ To(a, "gone") /\ gate' = gate
      /\ UNCHANGED <<request, config, edit, tasks, journal, budget>>
      /\ cache' = cache /\ lifecycle' = lifecycle
  BY DEF ReleaseLease
<1>2. LeaseKept
  BY DEF ReleaseLease, Released, LeaseKept
<1>3. "gone" \in AttemptPcs \ {"new", "refresh"}
  BY DEF AttemptPcs
<1> QED BY <1>1, <1>2, <1>3, Kept, AttemptGoes

LEMMA HandleStopStep ==
  ASSUME Inductive, NEW a \in Attempts, NEW e \in Edits, HandleStop(a, e)
  PROVE  Inductive'
<1>1. /\ attempt[a].pc # "new" /\ To(a, "stopped") /\ lease' = lease /\ gate' = gate
      /\ UNCHANGED <<request, config, edit, tasks, journal, budget>>
      /\ cache' = cache /\ lifecycle' = lifecycle
  BY DEF HandleStop
<1>2. "stopped" \in AttemptPcs \ {"new", "refresh"}
  BY DEF AttemptPcs
<1> QED BY <1>1, <1>2, Kept, AttemptGoes

(* A request changes and nothing else. *)
LEMMA RequestMoves ==
  ASSUME Inductive,
         UNCHANGED <<lease, gate, config, cache, lifecycle, attempt, edit, tasks, journal, budget>>,
         request' \in [Edits -> [status: {"none", "sent", "dispatched", "answered", "expired"},
                                gen: Nat]]
  PROVE  Inductive'
<1>1. TypeOK'
  BY DEF Inductive, TypeOK, tasks
<1> QED BY <1>1 DEF Inductive, Homes, NewerGenerationFences, JournalBehindLease, GateKeepsOut,
                    NoTaskUnderGate, tasks

LEMMA TakeManagementStep ==
  ASSUME Inductive, NEW a \in Attempts, NEW e \in Edits, TakeManagement(a, e)
  PROVE  Inductive'
<1>1. request' \in [Edits -> [status: {"none", "sent", "dispatched", "answered", "expired"}, gen: Nat]]
  BY DEF TakeManagement, Inductive, TypeOK
<1> QED BY <1>1, RequestMoves DEF TakeManagement

LEMMA ExpireRequestStep ==
  ASSUME Inductive, NEW e \in Edits, ExpireRequest(e)
  PROVE  Inductive'
<1>1. request' \in [Edits -> [status: {"none", "sent", "dispatched", "answered", "expired"}, gen: Nat]]
  <2>1. request \in [Edits -> [status: {"none", "sent", "dispatched", "answered", "expired"}, gen: Nat]]
    BY DEF Inductive, TypeOK
  <2>2. request' = [request EXCEPT ![e].status = "expired"]
    BY DEF ExpireRequest
  <2> QED BY <2>1, <2>2
<1> QED BY <1>1, RequestMoves DEF ExpireRequest

(* The hand-over gives a new generation to an edit, which is no attempt. *)
LEMMA CompleteManagementStep ==
  ASSUME Inductive, NEW a \in Attempts, NEW e \in Edits, CompleteManagement(a, e)
  PROVE  Inductive'
<1>1. /\ attempt[a].pc = "stopped" /\ To(a, "releasing")
      /\ UNCHANGED <<config, edit, tasks, journal, budget>>
      /\ gate' = gate /\ cache' = cache /\ lifecycle' = lifecycle
  BY DEF CompleteManagement
<1>2. "releasing" \in AttemptPcs \ {"new", "refresh"}
  BY DEF AttemptPcs
<1>3. CASE lease' = lease /\ request' = request
  BY <1>1, <1>2, <1>3, Kept, AttemptGoes
<1>4. CASE /\ request' = [request EXCEPT ![e].status = "answered"]
           /\ lease' = [owner |-> e, gen |-> lease.gen + 1, live |-> TRUE]
  <2>1. /\ lease' \in [owner: Owner, gen: Nat, live: BOOLEAN]
        /\ lease'.gen = lease.gen + 1 /\ lease'.owner = e
        /\ lease.gen \in Nat /\ config \in Nat
    BY <1>4, Fields DEF Inductive, Owner
  <2>2. request' \in [Edits -> [status: {"none", "sent", "dispatched", "answered", "expired"}, gen: Nat]]
    <3>1. request \in [Edits -> [status: {"none", "sent", "dispatched", "answered", "expired"}, gen: Nat]]
      BY DEF Inductive, TypeOK
    <3> QED BY <1>4, <3>1
  <2>3. /\ AttemptRec(config, lease.gen) \subseteq AttemptRec(config, lease.gen + 1)
        /\ EditRec(lease.gen) \subseteq EditRec(lease.gen + 1)
    BY <2>1, RecsGrow
  <2>4. /\ attempt' \in [Attempts -> AttemptRec(config, lease.gen)]
        /\ attempt'[a].pc = "releasing" /\ attempt'[a].home = attempt[a].home
        /\ \A b \in Attempts \ {a} : attempt'[b] = attempt[b]
    BY <1>1, <1>2, ToType DEF Inductive
  <2>5. /\ attempt' \in [Attempts -> AttemptRec(config, lease.gen + 1)]
        /\ edit' \in [Edits -> EditRec(lease.gen + 1)]
    BY <1>1, <2>3, <2>4, Fields DEF Inductive
  <2>6. TypeOK'
    BY <1>1, <2>1, <2>2, <2>5 DEF Inductive, TypeOK, AttemptRec, EditRec, tasks
  <2>7. Homes'
    BY <1>1, <2>4 DEF Inductive, Homes
  <2>8. NewerGenerationFences' /\ NoTaskUnderGate'
    BY <1>1 DEF Inductive, NewerGenerationFences, NoTaskUnderGate, tasks
  <2>9. JournalBehindLease'
    <3>1. journal \in Seq(Nat) /\ JournalBehindLease
      BY DEF Inductive, TypeOK
    <3>2. \A i \in 1 .. Len(journal) : journal[i] \in Nat
      BY <3>1
    <3> QED BY <1>1, <2>1, <3>1, <3>2 DEF JournalBehindLease
  <2>10. GateKeepsOut'
    BY <2>1, HostedAssumption DEF GateKeepsOut
  <2> QED BY <1>1, <2>6, <2>7, <2>8, <2>9, <2>10 DEF Inductive
<1> QED BY <1>3, <1>4 DEF CompleteManagement

-----------------------------------------------------------------------------
(* The actions of an edit, one by one. *)

(* A gate is claimed by an edit that has found nothing yet. *)
LEMMA BeginEditStep ==
  ASSUME Inductive, NEW e \in Edits, BeginEdit(e)
  PROVE  Inductive'
<1>1. PICK r \in Replicas :
        IF ~gate.live
        THEN /\ gate' = [owner |-> e, live |-> TRUE, exists |-> TRUE]
             /\ lifecycle' = [lifecycle EXCEPT ![r] = e]
             /\ edit' = [edit EXCEPT ![e].pc = "idle", ![e].home = r]
        ELSE EditTo(e, "gone") /\ UNCHANGED <<gate, lifecycle>>
  BY DEF BeginEdit
<1>2. /\ edit[e].pc = "new" /\ admit # "locked"
      /\ UNCHANGED <<lease, request, config, cache, attempt, tasks, journal, budget>>
  BY DEF BeginEdit
<1>3. edit[e] \in EditRec(lease.gen)
  BY Fields DEF Inductive
<1>4. CASE gate.live
  <2>1. EditTo(e, "gone") /\ UNCHANGED <<gate, lifecycle>>
    BY <1>1, <1>4
  <2>2. PICK x : x = [edit[e] EXCEPT !.pc = "gone"]
    OBVIOUS
  <2>3. x \in EditRec(lease.gen) /\ x.pc = "gone"
    BY <1>3, <2>2 DEF EditRec, EditPcs
  <2>4. edit' = [edit EXCEPT ![e] = x]
    BY <2>1, <2>2 DEF EditTo
  <2> QED BY <1>2, <2>1, <2>3, <2>4, Kept, EditMoves DEF Free
<1>5. CASE ~gate.live
  <2>1. /\ gate' = [owner |-> e, live |-> TRUE, exists |-> TRUE]
        /\ lifecycle' = [lifecycle EXCEPT ![r] = e]
        /\ edit' = [edit EXCEPT ![e].pc = "idle", ![e].home = r]
    BY <1>1, <1>5
  <2>2. PICK x : x = [edit[e] EXCEPT !.pc = "idle", !.home = r]
    OBVIOUS
  <2>3. x \in EditRec(lease.gen) /\ x.pc = "idle" /\ x.home = r
    BY <1>3, <2>2 DEF EditRec, EditPcs
  <2>4. /\ edit' \in [Edits -> EditRec(lease.gen)]
        /\ edit'[e] = x
        /\ \A f \in Edits \ {e} : edit'[f] = edit[f]
    BY <2>1, <2>2, <2>3, Fields DEF Inductive
  <2>5. gate' \in Gates /\ gate'.owner = e /\ gate'.exists /\ gate'.live
    BY <2>1 DEF Gates
  <2>6. lifecycle' \in [Replicas -> Owner]
    BY <2>1 DEF Inductive, TypeOK, Owner
  <2>7. TypeOK'
    BY <1>2, <2>4, <2>5, <2>6 DEF Inductive, TypeOK, EditRec, Gates, tasks
  <2>8. Homes'
    BY <1>2, <2>3, <2>4 DEF Inductive, Homes
  <2>9. GateKeepsOut'
    BY <2>3, <2>4, <2>5 DEF GateKeepsOut, Free
  <2>10. NoTaskUnderGate'
    BY <1>2, <2>3, <2>4, <2>5 DEF Inductive, NoTaskUnderGate, TypeOK, tasks
  <2>11. NewerGenerationFences' /\ JournalBehindLease'
    BY <1>2 DEF Inductive, NewerGenerationFences, JournalBehindLease
  <2> QED BY <1>2, <2>7, <2>8, <2>9, <2>10, <2>11 DEF Inductive
<1> QED BY <1>4, <1>5

LEMMA FailStep ==
  ASSUME Inductive, NEW e \in Edits, Fail(e)
  PROVE  Inductive'
<1>1. /\ edit[e].pc \notin {"new", "gone"} /\ EditTo(e, "drop") /\ lease' = lease /\ gate' = gate
      /\ UNCHANGED <<config, attempt, tasks, journal, budget>>
      /\ request' = request /\ cache' = cache /\ lifecycle' = lifecycle
  BY DEF Fail
<1>2. "drop" \in EditPcs \ {"new"} /\ "drop" \notin Free
  BY DEF EditPcs, Free
<1> QED BY <1>1, <1>2, Kept, EditGoes

LEMMA CheckIdleStep ==
  ASSUME Inductive, NEW e \in Edits, CheckIdle(e)
  PROVE  Inductive'
<1>1. /\ lease' = lease /\ gate' = gate
      /\ UNCHANGED <<config, attempt, tasks, journal, budget>>
      /\ request' = request /\ cache' = cache /\ lifecycle' = lifecycle
  BY DEF CheckIdle
<1>2. CASE edit[e].pc = "idle"
  <2>1. PICK pc \in {"drop", "leases"} : EditTo(e, pc)
    BY <1>2 DEF CheckIdle
  <2>2. pc \in EditPcs \ {"new"} /\ pc \notin Free /\ edit[e].pc \notin {"new", "gone"}
        /\ pc # "publish"
    BY <1>2 DEF EditPcs, Free
  <2> QED BY <1>1, <2>1, <2>2, Kept, EditGoes
<1>3. CASE edit[e].pc = "recheck"
  <2>1. PICK pc : EditTo(e, pc) /\ pc = IF queued THEN "drop" ELSE "publish"
    BY <1>3 DEF CheckIdle
  <2>2. /\ pc \in EditPcs \ {"new"} /\ edit[e].pc \notin {"new", "gone"}
        /\ pc = "publish" => ~ queued
    BY <1>3, <2>1 DEF EditPcs
  <2>3. (gate.live /\ gate.owner = e) => ~ (lease.live /\ lease.owner \in Attempts)
    BY <1>3 DEF Inductive, GateKeepsOut, Free
  <2> QED BY <1>1, <2>1, <2>2, <2>3, Kept, EditGoes
<1> QED BY <1>2, <1>3 DEF CheckIdle

(* An edit goes on without a request only past a lease that is not live. *)
LEMMA ProjectLeasesStep ==
  ASSUME Inductive, NEW e \in Edits, ProjectLeases(e)
  PROVE  Inductive'
<1>1. /\ edit[e].pc = "leases" /\ lease' = lease /\ gate' = gate
      /\ UNCHANGED <<config, attempt, tasks, journal, budget>>
      /\ request' = request /\ cache' = cache /\ lifecycle' = lifecycle
  BY DEF ProjectLeases
<1>2. PICK x : x = [edit[e] EXCEPT !.pc = IF lease.live THEN "submit" ELSE "refresh",
                                  !.target = lease.gen]
  OBVIOUS
<1>3. edit[e] \in EditRec(lease.gen) /\ edit[e].home \in Replicas /\ lease.gen \in 0 .. lease.gen
  BY <1>1, Fields DEF Inductive, Homes
<1>4. edit' = [edit EXCEPT ![e] = x]
  BY <1>2, Fields DEF ProjectLeases, Inductive
<1>5. /\ x \in EditRec(lease.gen) /\ x.home = edit[e].home
      /\ x.pc = IF lease.live THEN "submit" ELSE "refresh"
  BY <1>2, <1>3 DEF EditRec, EditPcs
<1>6. x.pc # "publish" /\ (x.pc \in Free => ~ lease.live)
  BY <1>5 DEF Free
<1> QED BY <1>1, <1>3, <1>4, <1>5, <1>6, Kept, EditMoves

LEMMA SubmitManagementStep ==
  ASSUME Inductive, NEW e \in Edits, SubmitManagement(e)
  PROVE  Inductive'
<1>1. /\ edit[e].pc = "submit" /\ lease' = lease /\ gate' = gate
      /\ UNCHANGED <<config, attempt, tasks, journal, budget>>
      /\ cache' = cache /\ lifecycle' = lifecycle
  BY DEF SubmitManagement
<1>2. edit[e].target \in Nat
  <2>1. edit[e] \in EditRec(lease.gen)
    BY Fields DEF Inductive
  <2> QED BY <2>1 DEF EditRec
<1>3. request' \in [Edits -> [status: {"none", "sent", "dispatched", "answered", "expired"}, gen: Nat]]
  <2>1. request \in [Edits -> [status: {"none", "sent", "dispatched", "answered", "expired"}, gen: Nat]]
    BY DEF Inductive, TypeOK
  <2> QED BY <1>2, <2>1 DEF SubmitManagement
<1>4. PICK pc \in {"wait", "drop"} : EditTo(e, pc)
  BY DEF SubmitManagement
<1>5. pc \in EditPcs \ {"new"} /\ pc \notin Free /\ pc # "publish"
  BY DEF EditPcs, Free
<1> QED BY <1>1, <1>3, <1>4, <1>5, Kept, EditGoes

(* After an answer the edit goes on past a lease of its own. *)
LEMMA PollResponseStep ==
  ASSUME Inductive, NEW e \in Edits, PollResponse(e)
  PROVE  Inductive'
<1>1. /\ edit[e].pc = "wait" /\ lease' = lease /\ gate' = gate
      /\ UNCHANGED <<config, attempt, tasks, journal, budget>>
      /\ cache' = cache /\ lifecycle' = lifecycle
  BY DEF PollResponse
<1>2. request' \in [Edits -> [status: {"none", "sent", "dispatched", "answered", "expired"}, gen: Nat]]
  <2>1. request \in [Edits -> [status: {"none", "sent", "dispatched", "answered", "expired"}, gen: Nat]]
    BY DEF Inductive, TypeOK
  <2>2. NoRequest \in [status: {"none", "sent", "dispatched", "answered", "expired"}, gen: Nat]
    BY DEF NoRequest
  <2> QED BY <2>1, <2>2 DEF PollResponse
<1>3. CASE EditTo(e, "drop")
  <2>1. "drop" \in EditPcs \ {"new"} /\ "drop" \notin Free
    BY DEF EditPcs, Free
  <2> QED BY <1>1, <1>2, <1>3, <2>1, Kept, EditGoes
<1>4. CASE /\ lease.live /\ lease.owner = e
           /\ edit' = [edit EXCEPT ![e].pc = "refresh", ![e].reserved = lease.gen]
  <2>1. PICK x : x = [edit[e] EXCEPT !.pc = "refresh", !.reserved = lease.gen]
    OBVIOUS
  <2>2. edit[e] \in EditRec(lease.gen) /\ edit[e].home \in Replicas /\ lease.gen \in 0 .. lease.gen
    BY <1>1, Fields DEF Inductive, Homes
  <2>3. edit' = [edit EXCEPT ![e] = x]
    BY <1>4, <2>1, Fields DEF Inductive
  <2>4. x \in EditRec(lease.gen) /\ x.home = edit[e].home /\ x.pc = "refresh"
    BY <2>1, <2>2 DEF EditRec, EditPcs
  <2>5. lease.owner \notin Attempts
    BY <1>4, HostedAssumption
  <2> QED BY <1>1, <1>2, <2>2, <2>3, <2>4, <2>5, Kept, EditMoves
<1> QED BY <1>3, <1>4 DEF PollResponse, EditTo

LEMMA RefreshEditStep ==
  ASSUME Inductive, NEW e \in Edits, RefreshEdit(e)
  PROVE  Inductive'
<1>1. /\ edit[e].pc = "refresh" /\ EditTo(e, "projects") /\ lease' = lease /\ gate' = gate
      /\ UNCHANGED <<config, attempt, tasks, journal, budget>>
      /\ request' = request /\ lifecycle' = lifecycle
      /\ cache' = [cache EXCEPT ![edit[e].home] = config]
  BY DEF RefreshEdit
<1>2. config \in 1 .. config
  BY Fields DEF Inductive
<1>3. cache' \in [Replicas -> 1 .. config]
  BY <1>1, <1>2 DEF Inductive, TypeOK
<1>4. (gate.live /\ gate.owner = e) => ~ (lease.live /\ lease.owner \in Attempts)
  BY <1>1 DEF Inductive, GateKeepsOut, Free
<1>5. "projects" \in EditPcs \ {"new"}
  BY DEF EditPcs
<1> QED BY <1>1, <1>3, <1>4, <1>5, Kept, EditGoes

LEMMA LockProjectsStep ==
  ASSUME Inductive, NEW e \in Edits, LockProjects(e)
  PROVE  Inductive'
<1>1. /\ edit[e].pc = "projects" /\ lease' = lease /\ gate' = gate
      /\ UNCHANGED <<config, attempt, tasks, journal, budget>>
      /\ request' = request /\ cache' = cache /\ lifecycle' = lifecycle
      /\ edit' = [edit EXCEPT ![e].pc = "recheck", ![e].revision = cache[edit[e].home] + 1]
  BY DEF LockProjects
<1>2. edit[e] \in EditRec(lease.gen) /\ edit[e].home \in Replicas
  BY <1>1, Fields DEF Inductive, Homes
<1>3. cache[edit[e].home] + 1 \in Nat
  BY <1>2 DEF Inductive, TypeOK
<1>4. PICK x : x = [edit[e] EXCEPT !.pc = "recheck", !.revision = cache[edit[e].home] + 1]
  OBVIOUS
<1>5. edit' = [edit EXCEPT ![e] = x]
  BY <1>1, <1>4, Fields DEF Inductive
<1>6. x \in EditRec(lease.gen) /\ x.home = edit[e].home /\ x.pc = "recheck"
  BY <1>2, <1>3, <1>4 DEF EditRec, EditPcs
<1>7. (gate.live /\ gate.owner = e) => ~ (lease.live /\ lease.owner \in Attempts)
  BY <1>1 DEF Inductive, GateKeepsOut, Free
<1> QED BY <1>1, <1>2, <1>5, <1>6, <1>7, Kept, EditMoves

LEMMA PublishStep ==
  ASSUME Inductive, NEW e \in Edits, Publish(e)
  PROVE  Inductive'
<1>1. /\ edit[e].pc = "publish" /\ EditTo(e, "drop") /\ lease' = lease /\ gate' = gate
      /\ UNCHANGED <<attempt, tasks, journal, budget>>
      /\ request' = request /\ lifecycle' = lifecycle
  BY DEF Publish
<1>2. "drop" \in EditPcs \ {"new"} /\ "drop" \notin Free
  BY DEF EditPcs, Free
<1>3. CASE config' = config /\ cache' = cache
  BY <1>1, <1>2, <1>3, Kept, EditGoes
<1>4. CASE /\ config + 1 = edit[e].revision /\ config' = edit[e].revision
           /\ cache' = [cache EXCEPT ![edit[e].home] = edit[e].revision]
  <2>1. config \in Nat /\ config' = config + 1 /\ lease.gen \in Nat
    BY <1>4, Fields DEF Inductive
  <2>2. cache' \in [Replicas -> 1 .. config']
    <3>1. cache \in [Replicas -> 1 .. config'] /\ edit[e].revision \in 1 .. config'
      BY <1>4, <2>1 DEF Inductive, TypeOK
    <3> QED BY <1>4, <3>1
  <2>3. AttemptRec(config, lease.gen) \subseteq AttemptRec(config', lease.gen)
    BY <2>1, RecsGrow
  <2>4. attempt' \in [Attempts -> AttemptRec(config', lease.gen)]
    BY <1>1, <2>3, Fields DEF Inductive
  <2>5. /\ edit' \in [Edits -> EditRec(lease.gen)]
        /\ edit'[e].pc = "drop" /\ edit'[e].home = edit[e].home
        /\ \A f \in Edits \ {e} : edit'[f] = edit[f]
    BY <1>1, <1>2, EditToType DEF Inductive
  <2>6. TypeOK'
    <3>1. /\ config' \in Nat /\ cache' \in [Replicas -> 1 .. config']
          /\ attempt' \in [Attempts -> AttemptRec(config', lease'.gen)]
          /\ edit' \in [Edits -> EditRec(lease'.gen)]
      BY <1>1, <2>1, <2>2, <2>4, <2>5
    <3>2. UNCHANGED <<lease, gate, request, lifecycle, queued, admit, journal>>
      BY <1>1 DEF tasks
    <3> QED BY <3>1, <3>2 DEF Inductive, TypeOK, AttemptRec, EditRec
  <2>7. Homes'
    BY <1>1, <2>5 DEF Inductive, Homes
  <2>8. NewerGenerationFences' /\ JournalBehindLease'
    BY <1>1 DEF Inductive, NewerGenerationFences, JournalBehindLease
  <2>9. GateKeepsOut' /\ NoTaskUnderGate'
    BY <1>1, <1>2, <2>5 DEF Inductive, GateKeepsOut, NoTaskUnderGate, tasks
  <2>10. config' >= 1
    BY <2>1
  <2> QED BY <1>1, <2>6, <2>7, <2>8, <2>9, <2>10 DEF Inductive
<1> QED BY <1>3, <1>4 DEF Publish

LEMMA DropReservationStep ==
  ASSUME Inductive, NEW e \in Edits, DropReservation(e)
  PROVE  Inductive'
<1>1. /\ edit[e].pc = "drop" /\ EditTo(e, "dropGate") /\ gate' = gate
      /\ UNCHANGED <<config, attempt, tasks, journal, budget>>
      /\ request' = request /\ cache' = cache /\ lifecycle' = lifecycle
  BY DEF DropReservation
<1>2. LeaseKept
  BY DEF DropReservation, Released, LeaseKept
<1>3. "dropGate" \in EditPcs \ {"new"} /\ "dropGate" \notin Free
  BY DEF EditPcs, Free
<1> QED BY <1>1, <1>2, <1>3, Kept, EditGoes

LEMMA DropGateStep ==
  ASSUME Inductive, NEW e \in Edits, DropGate(e)
  PROVE  Inductive'
<1>1. /\ edit[e].pc = "dropGate" /\ EditTo(e, "gone") /\ lease' = lease
      /\ UNCHANGED <<config, attempt, tasks, journal, budget>>
      /\ request' = request /\ cache' = cache
      /\ lifecycle' = [lifecycle EXCEPT ![edit[e].home] = NoOne]
  BY DEF DropGate
<1>2. GateKept
  BY DEF DropGate, GateKept, Gates, Inductive, TypeOK
<1>3. "gone" \in EditPcs \ {"new"} /\ "gone" \notin Free
  BY DEF EditPcs, Free
<1>4. lifecycle' \in [Replicas -> Owner]
  BY <1>1 DEF Inductive, TypeOK, Owner
<1> QED BY <1>1, <1>2, <1>3, <1>4, Kept, EditGoes

-----------------------------------------------------------------------------
(* Tasks, the clock and crashes. *)

LEMMA GuardAdmissionStep ==
  ASSUME Inductive, GuardAdmission
  PROVE  Inductive'
<1>1. /\ admit = "none" /\ ~gate.live /\ budget.tasks > 0
      /\ admit' = IF gate.exists THEN "locked" ELSE "unlocked"
      /\ budget' = [budget EXCEPT !.tasks = @ - 1]
      /\ UNCHANGED <<lease, gate, request, config, cache, lifecycle, attempt, edit, queued, journal>>
  BY DEF GuardAdmission
<1>2. TypeOK'
  BY <1>1 DEF Inductive, TypeOK
<1>3. budget' \in [writes: Nat, tasks: Nat, expiries: Nat, crashes: Nat]
  BY <1>1 DEF Inductive
<1>4. NoTaskUnderGate'
  BY <1>1 DEF Inductive, NoTaskUnderGate
<1> QED BY <1>1, <1>2, <1>3, <1>4 DEF Inductive, Homes, NewerGenerationFences, JournalBehindLease,
                                       GateKeepsOut

LEMMA CommitTaskStep ==
  ASSUME Inductive, CommitTask
  PROVE  Inductive'
<1>1. /\ admit # "none" /\ admit' = "none" /\ queued' = TRUE
      /\ UNCHANGED <<lease, gate, request, config, cache, lifecycle, attempt, edit, journal, budget>>
  BY DEF CommitTask
<1>2. TypeOK'
  BY <1>1 DEF Inductive, TypeOK
<1>3. NoTaskUnderGate'
  BY <1>1 DEF Inductive, NoTaskUnderGate
<1> QED BY <1>1, <1>2, <1>3 DEF Inductive, Homes, NewerGenerationFences, JournalBehindLease,
                                GateKeepsOut

LEMMA FinishTaskStep ==
  ASSUME Inductive, FinishTask
  PROVE  Inductive'
<1>1. /\ queued' = FALSE
      /\ UNCHANGED <<lease, gate, request, config, cache, lifecycle, attempt, edit, admit, journal,
                     budget>>
  BY DEF FinishTask
<1>2. TypeOK'
  BY <1>1 DEF Inductive, TypeOK
<1>3. NoTaskUnderGate'
  BY <1>1 DEF Inductive, NoTaskUnderGate
<1> QED BY <1>1, <1>2, <1>3 DEF Inductive, Homes, NewerGenerationFences, JournalBehindLease,
                                GateKeepsOut

LEMMA ExpireStep ==
  ASSUME Inductive, Expire
  PROVE  Inductive'
<1>1. /\ budget.expiries > 0 /\ budget' = [budget EXCEPT !.expiries = @ - 1]
      /\ UNCHANGED <<request, config, cache, lifecycle, attempt, edit, queued, admit, journal>>
  BY DEF Expire, tasks
<1>2. LeaseKept /\ GateKept
  <2>1. CASE lease' = [lease EXCEPT !.live = FALSE] /\ gate' = gate
    BY <2>1, GateUnchanged DEF LeaseKept, Inductive
  <2>2. CASE gate' = [gate EXCEPT !.live = FALSE] /\ lease' = lease
    BY <2>2 DEF LeaseKept, GateKept, Gates, Inductive, TypeOK
  <2> QED BY <2>1, <2>2 DEF Expire
<1>3. /\ lease' \in [owner: Owner, gen: Nat, live: BOOLEAN]
      /\ lease'.gen = lease.gen /\ lease'.owner = lease.owner
      /\ lease'.live => lease.live
  BY <1>2, LeaseKeptFields DEF Inductive
<1>4. TypeOK'
  BY <1>1, <1>2, <1>3 DEF Inductive, TypeOK, GateKept, Gates
<1>5. budget' \in [writes: Nat, tasks: Nat, expiries: Nat, crashes: Nat]
  BY <1>1 DEF Inductive
<1>6. GateKeepsOut' /\ NoTaskUnderGate'
  BY <1>1, <1>2, <1>3 DEF Inductive, GateKeepsOut, NoTaskUnderGate, GateKept
<1>7. Homes' /\ NewerGenerationFences' /\ JournalBehindLease' /\ config' >= 1
  BY <1>1, <1>3 DEF Inductive, Homes, NewerGenerationFences, JournalBehindLease
<1> QED BY <1>4, <1>5, <1>6, <1>7 DEF Inductive

LEMMA CrashStep ==
  ASSUME Inductive, NEW r \in Replicas, Crash(r)
  PROVE  Inductive'
<1>1. /\ budget.crashes > 0 /\ budget' = [budget EXCEPT !.crashes = @ - 1]
      /\ lifecycle' = [lifecycle EXCEPT ![r] = NoOne]
      /\ cache' = [cache EXCEPT ![r] = config]
      /\ UNCHANGED <<lease, gate, request, config, queued, admit, journal>>
  BY DEF Crash, tasks
<1>2. /\ attempt \in [Attempts -> AttemptRec(config, lease.gen)]
      /\ edit \in [Edits -> EditRec(lease.gen)]
  BY Fields DEF Inductive
<1>3. ASSUME NEW a \in Attempts
      PROVE  /\ attempt'[a] \in AttemptRec(config, lease.gen)
             /\ attempt'[a] = attempt[a] \/ (attempt'[a].pc = "gone" /\ attempt'[a].home = r)
  <2>1. attempt[a] \in AttemptRec(config, lease.gen)
    BY <1>2
  <2>2. attempt'[a] = IF attempt[a].home = r THEN [attempt[a] EXCEPT !.pc = "gone"] ELSE attempt[a]
    BY DEF Crash
  <2> QED BY <2>1, <2>2 DEF AttemptRec, AttemptPcs
<1>4. ASSUME NEW e \in Edits
      PROVE  /\ edit'[e] \in EditRec(lease.gen)
             /\ edit'[e] = edit[e] \/ edit'[e].pc = "gone"
  <2>1. edit[e] \in EditRec(lease.gen)
    BY <1>2
  <2>2. edit'[e] = IF edit[e].home = r THEN [edit[e] EXCEPT !.pc = "gone"] ELSE edit[e]
    BY DEF Crash
  <2> QED BY <2>1, <2>2 DEF EditRec, EditPcs
<1>5. /\ attempt' \in [Attempts -> AttemptRec(config, lease.gen)]
      /\ edit' \in [Edits -> EditRec(lease.gen)]
  BY <1>3, <1>4 DEF Crash
<1>6. config \in 1 .. config
  BY Fields DEF Inductive
<1>7. TypeOK'
  <2>1. cache' \in [Replicas -> 1 .. config] /\ lifecycle' \in [Replicas -> Owner]
    BY <1>1, <1>6 DEF Inductive, TypeOK, Owner
  <2> QED BY <1>1, <1>5, <2>1 DEF Inductive, TypeOK, AttemptRec, EditRec
<1>8. Homes'
  BY <1>3, <1>4 DEF Inductive, Homes
<1>9. budget' \in [writes: Nat, tasks: Nat, expiries: Nat, crashes: Nat]
  BY <1>1 DEF Inductive
<1>10. GateKeepsOut' /\ NoTaskUnderGate'
  BY <1>1, <1>4 DEF Inductive, GateKeepsOut, NoTaskUnderGate, Free
<1>11. NewerGenerationFences' /\ JournalBehindLease' /\ config' >= 1
  BY <1>1 DEF Inductive, NewerGenerationFences, JournalBehindLease
<1> QED BY <1>7, <1>8, <1>9, <1>10, <1>11 DEF Inductive

-----------------------------------------------------------------------------
LEMMA InitInductive == Init => Inductive
<1> SUFFICES ASSUME Init PROVE Inductive
  OBVIOUS
<1>1. lease.gen = 0 /\ lease.live = FALSE /\ config = 1 /\ journal = << >>
  BY DEF Init
<1>2. NoAttempt \in AttemptRec(config, lease.gen) /\ NoEdit \in EditRec(lease.gen)
  BY <1>1 DEF NoAttempt, NoEdit, AttemptRec, EditRec, AttemptPcs, EditPcs
<1>3. /\ attempt \in [Attempts -> AttemptRec(config, lease.gen)]
      /\ edit \in [Edits -> EditRec(lease.gen)]
      /\ \A a \in Attempts : attempt[a].pc = "new"
      /\ \A e \in Edits : edit[e].pc = "new"
  BY <1>2 DEF Init, NoAttempt, NoEdit
<1>4. TypeOK
  <2>1. /\ lease \in [owner: Owner, gen: Nat, live: BOOLEAN]
        /\ gate \in [owner: Edits \cup {NoOne}, live: BOOLEAN, exists: BOOLEAN]
        /\ request \in [Edits -> [status: {"none", "sent", "dispatched", "answered", "expired"},
                                  gen: Nat]]
    BY HostedAssumption DEF Init, Owner, NoRequest
  <2>2. config \in Nat /\ cache \in [Replicas -> 1 .. config] /\ lifecycle \in [Replicas -> Owner]
    BY DEF Init, Owner
  <2>3. queued \in BOOLEAN /\ admit \in {"none", "locked", "unlocked"}
    BY DEF Init
  <2>4. journal \in Seq(Nat)
    BY <1>1
  <2> QED BY <1>3, <2>1, <2>2, <2>3, <2>4 DEF TypeOK, AttemptRec, EditRec
<1>5. budget \in [writes: Nat, tasks: Nat, expiries: Nat, crashes: Nat]
  BY HostedAssumption DEF Init
<1>6. Homes /\ GateKeepsOut
  BY <1>3 DEF Homes, GateKeepsOut, Free
<1>7. NoTaskUnderGate
  BY <1>3 DEF Init, NoTaskUnderGate
<1>8. NewerGenerationFences /\ JournalBehindLease
  BY <1>1 DEF NewerGenerationFences, JournalBehindLease
<1> QED BY <1>1, <1>4, <1>5, <1>6, <1>7, <1>8 DEF Inductive

LEMMA NextInductive == Inductive /\ [Next]_vars => Inductive'
<1> SUFFICES ASSUME Inductive, [Next]_vars PROVE Inductive'
  OBVIOUS
<1>1. ASSUME NEW a \in Attempts, AttemptStep(a)
      PROVE  Inductive'
  BY <1>1, RefreshReadStep, RefreshInsertStep, EnsureLocalStep, ClaimLeaseStep, StartStep,
     VerifyFenceStep, AppendFencedStep, StopStep, ReleaseLeaseStep, TakeManagementStep,
     HandleStopStep, CompleteManagementStep DEF AttemptStep
<1>2. ASSUME NEW e \in Edits, BeginEdit(e) \/ Fail(e) \/ EditStep(e) \/ ExpireRequest(e)
      PROVE  Inductive'
  BY <1>2, BeginEditStep, FailStep, ExpireRequestStep, CheckIdleStep, ProjectLeasesStep,
     SubmitManagementStep, PollResponseStep, RefreshEditStep, LockProjectsStep, PublishStep,
     DropReservationStep, DropGateStep DEF EditStep
<1>3. CASE GuardAdmission \/ CommitTask \/ FinishTask \/ Expire
  BY <1>3, GuardAdmissionStep, CommitTaskStep, FinishTaskStep, ExpireStep
<1>4. ASSUME NEW r \in Replicas, Crash(r)
      PROVE  Inductive'
  BY <1>4, CrashStep
<1>5. CASE UNCHANGED vars
  <2>1. UNCHANGED <<lease, gate, config, cache, lifecycle, attempt, edit, tasks, journal, budget>>
        /\ request' = request
    BY <1>5 DEF vars, tasks
  <2> QED BY <2>1, Kept, RequestMoves
<1> QED BY <1>1, <1>2, <1>3, <1>4, <1>5 DEF Next

(* The journal of a partition is written by one generation after the       *)
(* other: verify_transaction_fence lets nobody write after a successor.    *)
THEOREM OneGenerationAtATime == Spec => []OneGenerationWrites
<1>1. Inductive => OneGenerationWrites
  BY DEF Inductive, OneGenerationWrites
<1> QED BY <1>1, InitInductive, NextInductive, PTL DEF Spec

-----------------------------------------------------------------------------
(* A step that leaves the bounds alone changes the lease only by a claim,  *)
(* a release, a hand-over or a dropped reservation.                        *)
LEMMA LeaseSteps ==
  ASSUME Inductive, Next, lease' # lease, budget' = budget
  PROVE  \/ \E a \in Attempts : ClaimLease(a) \/ ReleaseLease(a)
                               \/ \E e \in Edits : CompleteManagement(a, e)
         \/ \E e \in Edits : DropReservation(e)
<1>1. ~ Expire
  BY DEF Expire, Inductive
<1>2. ~ GuardAdmission /\ ~ CommitTask /\ ~ FinishTask /\ \A r \in Replicas : ~ Crash(r)
  BY DEF GuardAdmission, CommitTask, FinishTask, Crash
<1>3. ASSUME NEW a \in Attempts, AttemptStep(a)
      PROVE  ClaimLease(a) \/ ReleaseLease(a) \/ \E e \in Edits : CompleteManagement(a, e)
  BY <1>3 DEF AttemptStep, RefreshRead, RefreshInsert, EnsureLocal, Start, VerifyFence,
              AppendFenced, Stop, TakeManagement, HandleStop
<1>4. ASSUME NEW e \in Edits, BeginEdit(e) \/ Fail(e) \/ EditStep(e) \/ ExpireRequest(e)
      PROVE  DropReservation(e)
  BY <1>4 DEF BeginEdit, Fail, ExpireRequest, EditStep, CheckIdle, ProjectLeases, SubmitManagement,
              PollResponse, RefreshEdit, LockProjects, Publish, DropGate
<1> QED BY <1>1, <1>2, <1>3, <1>4 DEF Next

(* A live lease that no clock ended was ended or handed over by its own    *)
(* holder (release_lease and complete_management compare owner and         *)
(* generation), however late a predecessor releases.                       *)
THEOREM LeasesEndByTheirHolder == Spec => LeaseEndsByItsHolder
<1> DEFINE Ends ==
      lease.live /\ lease' # lease /\ budget' = budget =>
           \/ lease.owner \in Attempts /\ attempt[lease.owner].pc \in {"releasing", "stopped"}
           \/ lease.owner \in Edits /\ edit[lease.owner].pc = "drop"
<1>1. ASSUME Inductive, Next PROVE Ends
  <2> SUFFICES ASSUME lease.live, lease' # lease, budget' = budget
               PROVE  \/ lease.owner \in Attempts /\ attempt[lease.owner].pc \in {"releasing", "stopped"}
                      \/ lease.owner \in Edits /\ edit[lease.owner].pc = "drop"
    OBVIOUS
  <2>1. ASSUME NEW a \in Attempts PROVE ~ ClaimLease(a)
    BY DEF ClaimLease
  <2>2. ASSUME NEW a \in Attempts, ReleaseLease(a)
        PROVE  lease.owner = a /\ attempt[a].pc = "releasing"
    BY <2>2 DEF ReleaseLease, Released
  <2>3. ASSUME NEW a \in Attempts, NEW e \in Edits, CompleteManagement(a, e)
        PROVE  lease.owner = a /\ attempt[a].pc = "stopped"
    BY <2>3 DEF CompleteManagement, Holds
  <2>4. ASSUME NEW e \in Edits, DropReservation(e)
        PROVE  lease.owner = e /\ edit[e].pc = "drop"
    BY <2>4 DEF DropReservation, Released
  <2> QED BY <1>1, <2>1, <2>2, <2>3, <2>4, LeaseSteps
<1>2. Inductive /\ [Next]_vars => [Ends]_vars
  BY <1>1
<1> QED BY <1>2, InitInductive, NextInductive, PTL DEF Spec, LeaseEndsByItsHolder

(* Only an edit with a live gate of its own publishes. *)
LEMMA OnlyPublishConfigures ==
  ASSUME Next, config' # config
  PROVE  \E e \in Edits : edit[e].pc = "publish" /\ gate.live /\ gate.owner = e
<1>1. ~ GuardAdmission /\ ~ CommitTask /\ ~ FinishTask /\ ~ Expire /\ \A r \in Replicas : ~ Crash(r)
  BY DEF GuardAdmission, CommitTask, FinishTask, Expire, Crash
<1>2. ASSUME NEW a \in Attempts PROVE ~ AttemptStep(a)
  BY DEF AttemptStep, RefreshRead, RefreshInsert, EnsureLocal, ClaimLease, Start, VerifyFence,
         AppendFenced, Stop, ReleaseLease, TakeManagement, HandleStop, CompleteManagement
<1>3. ASSUME NEW e \in Edits, BeginEdit(e) \/ Fail(e) \/ EditStep(e) \/ ExpireRequest(e)
      PROVE  Publish(e)
  BY <1>3 DEF BeginEdit, Fail, ExpireRequest, EditStep, CheckIdle, ProjectLeases, SubmitManagement,
              PollResponse, RefreshEdit, LockProjects, DropReservation, DropGate
<1>4. \E e \in Edits : Publish(e)
  BY <1>1, <1>2, <1>3 DEF Next
<1> QED BY <1>4 DEF Publish

(* A revision is never published over a runtime that could still write:    *)
(* claim_lease refuses while the gate is live, and the edit found the      *)
(* lease free or took it over.                                             *)
THEOREM EditsExcludeRuntimes == Spec => EditExcludesRuntimes
<1> DEFINE Excludes == config' # config => \A a \in Attempts : ~ Holds(a)
<1>1. ASSUME Inductive, Next PROVE Excludes
  BY <1>1, OnlyPublishConfigures DEF Inductive, GateKeepsOut, Holds, Free
<1>2. Inductive /\ [Next]_vars => [Excludes]_vars
  BY <1>1 DEF vars
<1> QED BY <1>2, InitInductive, NextInductive, PTL DEF Spec, EditExcludesRuntimes

(* Once the project has its gate row, an edit excludes both the runtimes   *)
(* and the admitted tasks (guard_admission locks the row; without one      *)
(* there is nothing to lock).                                              *)
THEOREM EditsExclude ==
  ASSUME GateRow
  PROVE  Spec => EditExcludes
<1> DEFINE Excludes == config' # config => ~ queued
<1>1. ASSUME Inductive, Next PROVE Excludes
  BY <1>1, OnlyPublishConfigures DEF Inductive, NoTaskUnderGate
<1>2. Inductive /\ [Next]_vars => [Excludes]_vars
  BY <1>1 DEF vars
<1>3. Spec => EditExcludesTasks
  BY <1>2, InitInductive, NextInductive, PTL DEF Spec, EditExcludesTasks
<1> QED BY <1>3, EditsExcludeRuntimes, PTL DEF EditExcludes
=============================================================================
