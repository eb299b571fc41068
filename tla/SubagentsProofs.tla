--------------------------- MODULE SubagentsProofs ---------------------------
(***************************************************************************)
(* Theorems about Subagents, for any number of jobs, callers, messages,    *)
(* turns, requeues and crashes, and any limits.                            *)
(***************************************************************************)
EXTENDS Subagents, FiniteSetTheorems, TLAPS

(* The parts of TypeOK. *)
InboxType ==
    /\ inbox \in [Jobs -> Seq(Attempt)]
    /\ \A j \in Jobs : Len(inbox[j]) <= MaxAttempts

MailType ==
    /\ receipt \in [Messages -> {"unsent", "Accepted", "IncludedInTurn", "NotDelivered"}]
    /\ transcript \in [Jobs -> Seq(Messages)]
    /\ scope \in 0 .. ScopeLimit

RunType == run \in [Runs -> {Absent} \cup Run]

DrainType ==
    /\ drain \in [pc: {"idle", "list", "start", "join"}, queue: SUBSET Jobs, set: SUBSET Runs,
                  notified: BOOLEAN]
    /\ Cardinality(drain.set) + Cardinality(drain.queue) <= MaxConcurrent

CallType == call \in [Threads -> {Idle} \cup Frame]

JobType == job \in [Jobs -> SubagentJob]

ProcessType ==
    /\ process \in {"up", "down", "jobs", "inboxes"}
    /\ budget \in [jobs: Nat, messages: Nat, requeues: Nat, crashes: Nat]

(* A job has attempts from its creation on. *)
JobsOK == \A j \in Jobs : job[j].status = "None" <=> Latest(j) = 0

(* An operation is about a job that exists; what it staged, it staged from *)
(* one of its attempts.                                                    *)
CallOK(t) ==
    call[t] # Idle =>
        /\ job[call[t].job].status # "None"
        /\ call[t].pc = "commit" => call[t].on \in 1 .. Latest(call[t].job)
        /\ t = Drain <=> call[t].op \notin {"cancel", "requeue"}
        /\ t # Drain => call[t].pc \in {"stage", "commit"}
        /\ call[t].pc = "prepare" => call[t].op = "start" /\ call[t].at \in 1 .. Latest(call[t].job)

CallsOK == \A t \in Threads : CallOK(t)

(* Requeues under way, whose budget is spent. *)
Requeuing == {c \in Callers : call[c] # Idle /\ call[c].op = "requeue"}

AttemptsBounded ==
    /\ budget.requeues + Cardinality(Requeuing) < MaxAttempts
    /\ \A j \in Jobs : Latest(j) + budget.requeues + Cardinality(Requeuing) <= MaxAttempts

(* The drain starts jobs that exist, has the children of its set, and room *)
(* for the one it is starting.                                             *)
DrainOK ==
    /\ \A j \in drain.queue : job[j].status # "None"
    /\ \A r \in drain.set : run[r] # Absent /\ ~ run[r].aborted
    /\ (call[Drain] # Idle /\ call[Drain].op = "start") =>
         Cardinality(drain.set) + Cardinality(drain.queue) < MaxConcurrent

Bound == {"turn", "including", "model", "ending"}

(* Some attempt of r's job is bound to the child run r. *)
IsBound(r) == \E a \in 1 .. Latest(r[1]) : inbox[r[1]][a].run = r

(* A run is bound to the one attempt it works on, and to none before.      *)
RunOK(r) ==
    run[r] # Absent =>
        /\ r[2] <= Latest(r[1])
        /\ run[r].pc \in Bound \cup {"binding"} => run[r].at \in 1 .. Latest(r[1])
        /\ run[r].pc \in Bound => inbox[r[1]][run[r].at].run = r
        /\ run[r].pc \in {"begin", "binding"} => ~ IsBound(r)
        /\ run[r].pc = "binding" => run[r].seen.run = NoRun

RunsOK == \A r \in Runs : RunOK(r)

(* The attempts that exist. *)
Registered == {r \in Runs : r[2] <= Latest(r[1])}

(* An attempt is bound only to a run of an attempt that exists. *)
BindingsOK ==
    \A j \in Jobs : \A a \in 1 .. Latest(j) :
        inbox[j][a].run # NoRun => inbox[j][a].run \in Registered

(* The attempt r has no child yet and never had one. *)
Unspawned(r) == run[r] = Absent /\ ~ IsBound(r)

(* A child is spawned once per attempt. *)
SpawnedOnce ==
    /\ \A j \in Jobs : job[j].status = "Queued" => Unspawned(<<j, Latest(j)>>)
    /\ call[Drain].pc = "prepare" =>
         /\ Unspawned(<<call[Drain].job, call[Drain].at>>)
         /\ job[call[Drain].job].status = "Queued" => call[Drain].at # Latest(call[Drain].job)

Injective(s) == \A i, k \in 1 .. Len(s) : s[i] = s[k] => i = k

(* What waits in an inbox was accepted, waits there once and nowhere else. *)
PendingAccepted ==
    \A j \in Jobs : \A a \in 1 .. Latest(j) :
        /\ inbox[j][a].pending # << >> => inbox[j][a].open
        /\ \A i \in 1 .. Len(inbox[j][a].pending) : receipt[inbox[j][a].pending[i]] = "Accepted"

PendingOnce ==
    \A j, k \in Jobs : \A a \in 1 .. Latest(j), b \in 1 .. Latest(k) :
        \A i \in 1 .. Len(inbox[j][a].pending), l \in 1 .. Len(inbox[k][b].pending) :
            inbox[j][a].pending[i] = inbox[k][b].pending[l] => j = k /\ a = b /\ i = l

AcceptedPends ==
    \A m \in Messages : receipt[m] = "Accepted" =>
        \E j \in Jobs : \E a \in 1 .. Latest(j) : \E i \in 1 .. Len(inbox[j][a].pending) :
            inbox[j][a].pending[i] = m

(* What stands in a transcript was included, and stands there once. *)
TranscriptsOK ==
    /\ \A j \in Jobs : \A i \in 1 .. Len(transcript[j]) :
         receipt[transcript[j][i]] = "IncludedInTurn"
    /\ \A j, k \in Jobs : \A i \in 1 .. Len(transcript[j]), l \in 1 .. Len(transcript[k]) :
         transcript[j][i] = transcript[k][l] => j = k /\ i = l
    /\ \A m \in Messages : receipt[m] = "IncludedInTurn" =>
         \E j \in Jobs : \E i \in 1 .. Len(transcript[j]) : transcript[j][i] = m

Mail ==
    /\ InboxType
    /\ MailType
    /\ PendingAccepted
    /\ PendingOnce
    /\ AcceptedPends
    /\ TranscriptsOK
    /\ ScopeAccounted

Types ==
    /\ RunType
    /\ DrainType
    /\ CallType
    /\ JobType
    /\ ProcessType

Shape ==
    /\ JobsOK
    /\ CallsOK
    /\ AttemptsBounded
    /\ DrainOK
    /\ RunsOK
    /\ BindingsOK
    /\ SpawnedOnce

Inductive == Types /\ Shape /\ Mail

-----------------------------------------------------------------------------
(* Attempt a of job j becomes p, and nothing else in the inboxes changes. *)
Changed(j, a, p) ==
    /\ InboxType'
    /\ \A k \in Jobs : Len(inbox'[k]) = Len(inbox[k])
    /\ inbox'[j][a] = p
    /\ \A k \in Jobs : \A b \in 1 .. Len(inbox[k]) :
          (k # j \/ b # a) => inbox'[k][b] = inbox[k][b]

(* What an update of one attempt comes to. *)
LEMMA InboxUpdate ==
  ASSUME InboxType, NEW j \in Jobs, NEW a \in 1 .. Len(inbox[j]), NEW p \in Attempt,
         inbox' = [inbox EXCEPT ![j] = [inbox[j] EXCEPT ![a] = p]]
  PROVE  Changed(j, a, p)
<1>1. inbox[j] \in Seq(Attempt)
  BY DEF InboxType
<1>2. PICK s : s = [inbox[j] EXCEPT ![a] = p]
  OBVIOUS
<1>3. s \in Seq(Attempt) /\ Len(s) = Len(inbox[j])
  BY <1>1, <1>2
<1>4. inbox' = [inbox EXCEPT ![j] = s]
  BY <1>2
<1>5. \A k \in Jobs : inbox'[k] = IF k = j THEN s ELSE inbox[k]
  BY <1>4 DEF InboxType
<1>6. inbox' \in [Jobs -> Seq(Attempt)]
  BY <1>3, <1>4 DEF InboxType
<1>7. InboxType'
  BY <1>3, <1>5, <1>6 DEF InboxType
<1>8. s[a] = p /\ \A b \in 1 .. Len(inbox[j]) : b # a => s[b] = inbox[j][b]
  BY <1>1, <1>2
<1> QED BY <1>3, <1>5, <1>7, <1>8 DEF Changed

(* The members of a sequence are what its positions hold. *)
LEMMA Members ==
  ASSUME NEW s \in Seq(Messages), NEW m
  PROVE  m \in ToSet(s) <=> \E i \in 1 .. Len(s) : s[i] = m
BY DEF ToSet

(* A sequence without repetition has as many members as positions. *)
LEMMA InjectiveCount ==
  ASSUME NEW s \in Seq(Messages), Injective(s)
  PROVE  /\ ToSet(s) \subseteq Messages
         /\ IsFiniteSet(ToSet(s))
         /\ Cardinality(ToSet(s)) = Len(s)
<1>1. Len(s) \in Nat /\ DOMAIN s = 1 .. Len(s)
  OBVIOUS
<1>2. ToSet(s) \subseteq Messages
  BY <1>1 DEF ToSet
<1>3. s \in Bijection(1 .. Len(s), ToSet(s))
  <2>1. s \in [1 .. Len(s) -> ToSet(s)]
    BY <1>1 DEF ToSet
  <2>2. \A m \in ToSet(s) : \E i \in 1 .. Len(s) : s[i] = m
    BY <1>1 DEF ToSet
  <2> QED BY <2>1, <2>2 DEF Injective, Bijection, Injection, Surjection, IsInjective
<1>4. ExistsBijection(1 .. Len(s), ToSet(s))
  BY <1>3 DEF ExistsBijection
<1>5. Cardinality(ToSet(s)) = Len(s)
  BY <1>1, <1>4, FS_CountingElements
<1>6. IsFiniteSet(ToSet(s))
  BY <1>2, FS_Subset, SubagentsAssumption
<1> QED BY <1>2, <1>5, <1>6

(* Taking away a part of a finite set. *)
LEMMA CountMinus ==
  ASSUME NEW S, IsFiniteSet(S), NEW T, T \subseteq S
  PROVE  Cardinality(S \ T) = Cardinality(S) - Cardinality(T)
<1>1. S \cap T = T
  OBVIOUS
<1> QED BY <1>1, FS_Difference

-----------------------------------------------------------------------------
(* The attempts that exist and the runs they are bound to. *)
SameShape ==
    /\ \A k \in Jobs : Len(inbox'[k]) = Len(inbox[k])
    /\ \A k \in Jobs : \A b \in 1 .. Len(inbox[k]) : inbox'[k][b].run = inbox[k][b].run

(* A message that is settled stays so. *)
Final == \A m \in Messages : receipt[m] \in {"IncludedInTurn", "NotDelivered"} =>
             receipt'[m] = receipt[m]

(* What an attempt holds. *)
LEMMA AttemptParts ==
  ASSUME InboxType, NEW j \in Jobs, NEW a \in 1 .. Len(inbox[j])
  PROVE  /\ inbox[j][a] \in Attempt
         /\ inbox[j][a].pending \in Seq(Messages)
         /\ Len(inbox[j][a].pending) \in Nat
         /\ \A i \in 1 .. Len(inbox[j][a].pending) : inbox[j][a].pending[i] \in Messages
<1>1. inbox[j] \in Seq(Attempt)
  BY DEF InboxType
<1>2. inbox[j][a] \in Attempt
  BY <1>1
<1>3. inbox[j][a].pending \in Seq(Messages)
  BY <1>2 DEF Attempt
<1> QED BY <1>2, <1>3

(* Message m waits in attempt a of job j, as its i-th. *)
Waits(m, j, a, i) ==
    /\ j \in Jobs /\ a \in 1 .. Latest(j) /\ i \in 1 .. Len(inbox[j][a].pending)
    /\ inbox[j][a].pending[i] = m

(* A message waits at one place. *)
LEMMA WaitsOnce ==
  ASSUME PendingOnce, NEW m, NEW j, NEW a, NEW i, NEW k, NEW b, NEW l,
         Waits(m, j, a, i), Waits(m, k, b, l)
  PROVE  j = k /\ a = b /\ i = l
<1> USE DEF Waits
<1>1. \A x \in 1 .. Latest(j), y \in 1 .. Latest(k) :
        \A z \in 1 .. Len(inbox[j][x].pending), w \in 1 .. Len(inbox[k][y].pending) :
            inbox[j][x].pending[z] = inbox[k][y].pending[w] => j = k /\ x = y /\ z = w
  BY DEF PendingOnce
<1>2. \A z \in 1 .. Len(inbox[j][a].pending), w \in 1 .. Len(inbox[k][b].pending) :
            inbox[j][a].pending[z] = inbox[k][b].pending[w] => j = k /\ a = b /\ z = w
  BY <1>1
<1> QED BY <1>2

(* The first n messages of an inbox are settled, and the others stay in it. *)
Settles(j, a, n, p, x) ==
    /\ p.run = inbox[j][a].run
    /\ Len(p.pending) = Len(inbox[j][a].pending) - n
    /\ \A i \in 1 .. Len(inbox[j][a].pending) - n : p.pending[i] = inbox[j][a].pending[n + i]
    /\ p.pending # << >> => p.open
    /\ receipt' = [m \in Messages |->
                     IF \E i \in 1 .. n : inbox[j][a].pending[i] = m THEN x ELSE receipt[m]]
    /\ scope' = scope - n

LEMMA SettlesPending ==
  ASSUME Mail, NEW j \in Jobs, NEW a \in 1 .. Latest(j), NEW p \in Attempt, Changed(j, a, p),
         NEW n \in 0 .. Len(inbox[j][a].pending), NEW x \in {"IncludedInTurn", "NotDelivered"},
         Settles(j, a, n, p, x)
  PROVE  PendingAccepted' /\ PendingOnce' /\ AcceptedPends'
<1> DEFINE s == inbox[j][a].pending
<1>0. InboxType /\ a \in 1 .. Len(inbox[j])
  BY DEF Mail, Latest
<1>1. /\ s \in Seq(Messages) /\ Len(s) \in Nat
      /\ \A k \in Jobs : \A b \in 1 .. Latest(k) :
           /\ Len(inbox[k][b].pending) \in Nat
           /\ \A i \in 1 .. Len(inbox[k][b].pending) : inbox[k][b].pending[i] \in Messages
  BY <1>0, AttemptParts DEF Latest
<1>2. /\ \A k \in Jobs : Latest(k)' = Latest(k)
      /\ inbox'[j][a] = p
      /\ \A k \in Jobs : \A b \in 1 .. Latest(k) :
           (k # j \/ b # a) => inbox'[k][b] = inbox[k][b]
  BY DEF Changed, Latest
<1>3. /\ Len(p.pending) = Len(s) - n
      /\ \A i \in 1 .. Len(s) - n : p.pending[i] = s[n + i]
      /\ p.pending # << >> => p.open
      /\ \A m \in Messages : receipt'[m] = IF \E i \in 1 .. n : s[i] = m THEN x ELSE receipt[m]
  BY DEF Settles
<1>4. /\ \A k \in Jobs : \A b \in 1 .. Latest(k) :
           /\ inbox[k][b].pending # << >> => inbox[k][b].open
           /\ \A i \in 1 .. Len(inbox[k][b].pending) : receipt[inbox[k][b].pending[i]] = "Accepted"
      /\ AcceptedPends
  BY DEF Mail, PendingAccepted
<1>c. PendingOnce
  BY DEF Mail
<1>a. \A k \in Jobs : \A b \in 1 .. Latest(k) :
        \A i \in 1 .. Len(inbox[k][b].pending), l \in 1 .. Len(s) :
           inbox[k][b].pending[i] = s[l] => k = j /\ b = a /\ i = l
  <2> SUFFICES ASSUME NEW k \in Jobs, NEW b \in 1 .. Latest(k),
                      NEW i \in 1 .. Len(inbox[k][b].pending), NEW l \in 1 .. Len(s),
                      inbox[k][b].pending[i] = s[l]
               PROVE  k = j /\ b = a /\ i = l
    OBVIOUS
  <2>1. Waits(s[l], k, b, i) /\ Waits(s[l], j, a, l)
    BY DEF Waits
  <2> QED BY <1>c, <2>1, WaitsOnce
<1>b. n \in Nat /\ \A l \in 1 .. n : l \in 1 .. Len(s)
  BY <1>1
<1>d. \A i \in 1 .. Len(s) - n : n + i \in 1 .. Len(s) /\ n + i \notin 1 .. n
  <2>1. PICK c \in Nat : c = Len(s)
    BY <1>1
  <2>2. n \in Nat /\ n <= c
    BY <2>1, <1>b
  <2>3. \A i \in 1 .. c - n : n + i \in 1 .. c /\ n + i \notin 1 .. n
    BY <2>2
  <2> QED BY <2>1, <2>3
<1>5. PendingAccepted'
  <2> SUFFICES ASSUME NEW k \in Jobs, NEW b \in 1 .. Latest(k)
               PROVE  /\ inbox'[k][b].pending # << >> => inbox'[k][b].open
                      /\ \A i \in 1 .. Len(inbox'[k][b].pending) :
                           receipt'[inbox'[k][b].pending[i]] = "Accepted"
    BY <1>2 DEF PendingAccepted
  <2>1. CASE k = j /\ b = a
    <3>1. \A i \in 1 .. Len(s) - n : \A l \in 1 .. n : s[n + i] # s[l]
      <4> SUFFICES ASSUME NEW i \in 1 .. Len(s) - n, NEW l \in 1 .. n, s[n + i] = s[l]
                   PROVE  FALSE
        OBVIOUS
      <4>1. n + i \in 1 .. Len(s) /\ l \in 1 .. Len(s)
        BY <1>b, <1>d
      <4>2. Waits(s[l], j, a, n + i) /\ Waits(s[l], j, a, l)
        BY <4>1 DEF Waits
      <4>3. n + i = l
        BY <4>2, <1>c, WaitsOnce
      <4> QED BY <4>3, <1>d
    <3>3. \A i \in 1 .. Len(s) - n : s[n + i] \in Messages /\ receipt[s[n + i]] = "Accepted"
      BY <1>1, <1>4, <1>d
    <3> HIDE DEF s
    <3>4. ASSUME NEW i \in 1 .. Len(s) - n
          PROVE  receipt'[s[n + i]] = "Accepted"
      <4>1. PICK m \in Messages : m = s[n + i]
        BY <3>3
      <4>2. receipt[m] = "Accepted" /\ ~ \E l \in 1 .. n : s[l] = m
        BY <4>1, <3>1, <3>3
      <4> QED BY <4>1, <4>2, <1>3
    <3> QED BY <2>1, <1>2, <1>3, <3>4
  <2>2. CASE k # j \/ b # a
    <3>1. inbox'[k][b] = inbox[k][b]
      BY <2>2, <1>2
    <3>2. \A i \in 1 .. Len(inbox[k][b].pending) : \A l \in 1 .. n :
             s[l] # inbox[k][b].pending[i]
      BY <2>2, <1>a, <1>b
    <3> HIDE DEF s
    <3>3. \A i \in 1 .. Len(inbox[k][b].pending) : receipt'[inbox[k][b].pending[i]] = "Accepted"
      <4> SUFFICES ASSUME NEW i \in 1 .. Len(inbox[k][b].pending)
                   PROVE  receipt'[inbox[k][b].pending[i]] = "Accepted"
        OBVIOUS
      <4>1. inbox[k][b].pending[i] \in Messages /\ receipt[inbox[k][b].pending[i]] = "Accepted"
        BY <1>1, <1>4
      <4> QED BY <1>3, <3>2, <4>1
    <3> QED BY <1>4, <3>1, <3>3
  <2> QED BY <2>1, <2>2
<1>6. PendingOnce'
  <2> SUFFICES ASSUME NEW k \in Jobs, NEW q \in Jobs, NEW b \in 1 .. Latest(k)', NEW c \in 1 .. Latest(q)',
                      NEW i \in 1 .. Len(inbox'[k][b].pending), NEW l \in 1 .. Len(inbox'[q][c].pending),
                      inbox'[k][b].pending[i] = inbox'[q][c].pending[l]
               PROVE  k = q /\ b = c /\ i = l
    BY Zenon DEF PendingOnce
  <2>0. b \in 1 .. Latest(k) /\ c \in 1 .. Latest(q)
    BY <1>2
  <2>1. PICK i0 \in 1 .. Len(inbox[k][b].pending) :
             /\ inbox'[k][b].pending[i] = inbox[k][b].pending[i0]
             /\ i0 = IF k = j /\ b = a THEN n + i ELSE i
    <3>1. CASE k = j /\ b = a
      <4>1. i \in 1 .. Len(s) - n
        BY <3>1, <1>2, <1>3
      <4>2. n + i \in 1 .. Len(s)
        BY <4>1, <1>d
      <4>3. inbox'[k][b].pending[i] = s[n + i]
        BY <3>1, <4>1, <1>2, <1>3
      <4> QED BY <3>1, <4>2, <4>3
    <3>2. CASE k # j \/ b # a
      BY <3>2, <2>0, <1>2
    <3> QED BY <3>1, <3>2
  <2>2. PICK l0 \in 1 .. Len(inbox[q][c].pending) :
             /\ inbox'[q][c].pending[l] = inbox[q][c].pending[l0]
             /\ l0 = IF q = j /\ c = a THEN n + l ELSE l
    <3>1. CASE q = j /\ c = a
      <4>1. l \in 1 .. Len(s) - n
        BY <3>1, <1>2, <1>3
      <4>2. n + l \in 1 .. Len(s)
        BY <4>1, <1>d
      <4>3. inbox'[q][c].pending[l] = s[n + l]
        BY <3>1, <4>1, <1>2, <1>3
      <4> QED BY <3>1, <4>2, <4>3
    <3>2. CASE q # j \/ c # a
      BY <3>2, <2>0, <1>2
    <3> QED BY <3>1, <3>2
  <2>3. k = q /\ b = c /\ i0 = l0
    <3>1. /\ Waits(inbox[q][c].pending[l0], k, b, i0)
          /\ Waits(inbox[q][c].pending[l0], q, c, l0)
      BY <2>0, <2>1, <2>2 DEF Waits
    <3> QED BY <1>c, <3>1, WaitsOnce
  <2>4. i \in Nat /\ l \in Nat /\ n \in Nat
    BY <1>1, <1>2, <1>3
  <2> QED BY <2>1, <2>2, <2>3, <2>4
<1>7. AcceptedPends'
  <2> SUFFICES ASSUME NEW m \in Messages, receipt'[m] = "Accepted"
               PROVE  \E k \in Jobs : \E b \in 1 .. Latest(k)' :
                        \E i \in 1 .. Len(inbox'[k][b].pending) : inbox'[k][b].pending[i] = m
    BY Zenon DEF AcceptedPends
  <2>1. receipt[m] = "Accepted" /\ ~ \E i \in 1 .. n : s[i] = m
    BY <1>3
  <2>a. PICK k \in Jobs : \E b \in 1 .. Latest(k) : \E i \in 1 .. Len(inbox[k][b].pending) :
             inbox[k][b].pending[i] = m
    BY <2>1, <1>4 DEF AcceptedPends
  <2>b. PICK b \in 1 .. Latest(k) : \E i \in 1 .. Len(inbox[k][b].pending) :
             inbox[k][b].pending[i] = m
    BY <2>a
  <2>2. PICK i \in 1 .. Len(inbox[k][b].pending) : inbox[k][b].pending[i] = m
    BY <2>b
  <2>c. b \in 1 .. Latest(k)'
    BY <1>2
  <2>3. CASE k = j /\ b = a
    <3>1. i \in 1 .. Len(s) /\ s[i] = m /\ i \notin 1 .. n
      BY <2>1, <2>2, <2>3
    <3>2. i - n \in 1 .. Len(s) - n /\ n + (i - n) = i
      BY <3>1, <1>1
    <3>3. p.pending[i - n] = m
      BY <1>3, <3>1, <3>2
    <3>4. inbox'[k][b] = p /\ i - n \in 1 .. Len(p.pending)
      BY <2>3, <1>2, <1>3, <3>2
    <3> QED BY <2>c, <3>3, <3>4
  <2>4. CASE k # j \/ b # a
    <3>1. inbox'[k][b] = inbox[k][b]
      BY <2>4, <1>2
    <3> QED BY <2>c, <2>2, <3>1
  <2> QED BY <2>3, <2>4
<1> QED BY <1>5, <1>6, <1>7

(* The scope gives back what was settled, and nothing settled before changes. *)
LEMMA SettlesScope ==
  ASSUME Mail, NEW j \in Jobs, NEW a \in 1 .. Latest(j), NEW p \in Attempt, Changed(j, a, p),
         NEW n \in 0 .. Len(inbox[j][a].pending), NEW x \in {"IncludedInTurn", "NotDelivered"},
         Settles(j, a, n, p, x)
  PROVE  /\ receipt' \in [Messages -> {"unsent", "Accepted", "IncludedInTurn", "NotDelivered"}]
         /\ scope' \in 0 .. ScopeLimit
         /\ ScopeAccounted'
         /\ Final
         /\ SameShape
<1> DEFINE s == inbox[j][a].pending
           b == SubSeq(s, 1, n)
           A == {m \in Messages : receipt[m] = "Accepted"}
<1>0. InboxType /\ a \in 1 .. Len(inbox[j])
  BY DEF Mail, Latest
<1>1. s \in Seq(Messages) /\ Len(s) \in Nat
  BY <1>0, AttemptParts
<1>2. \A i \in 1 .. Len(s) : s[i] \in Messages /\ receipt[s[i]] = "Accepted"
  <2>1. PendingAccepted
    BY DEF Mail
  <2>2. \A i \in 1 .. Len(inbox[j][a].pending) : receipt[inbox[j][a].pending[i]] = "Accepted"
    BY <2>1 DEF PendingAccepted
  <2> QED BY <1>1, <2>2
<1>3. Injective(s)
  <2> SUFFICES ASSUME NEW i \in 1 .. Len(s), NEW l \in 1 .. Len(s), s[i] = s[l]
               PROVE  i = l
    BY DEF Injective
  <2>1. Waits(s[l], j, a, i) /\ Waits(s[l], j, a, l)
    BY DEF Waits
  <2> QED BY <2>1, WaitsOnce DEF Mail
<1>4. n \in Nat /\ \A i \in 1 .. n : i \in 1 .. Len(s)
  BY <1>1
<1>5. receipt' = [m \in Messages |-> IF \E i \in 1 .. n : s[i] = m THEN x ELSE receipt[m]]
  BY DEF Settles
<1>6. receipt \in [Messages -> {"unsent", "Accepted", "IncludedInTurn", "NotDelivered"}]
  BY DEF Mail, MailType
<1> HIDE DEF s
<1>7. b \in Seq(Messages) /\ Len(b) = n /\ \A i \in 1 .. n : b[i] = s[i]
  BY <1>1, <1>4
<1>8. Injective(b)
  BY <1>3, <1>4, <1>7 DEF Injective
<1>9. \A m : m \in ToSet(b) <=> \E i \in 1 .. n : s[i] = m
  <2>1. \A m : m \in ToSet(b) <=> \E i \in 1 .. Len(b) : b[i] = m
    BY <1>7, Members
  <2> QED BY <2>1, <1>7
<1> HIDE DEF b
<1>10. ToSet(b) \subseteq A
  BY <1>2, <1>4, <1>9
<1>11. {m \in Messages : receipt'[m] = "Accepted"} = A \ ToSet(b)
  BY <1>5, <1>9
<1>12. Cardinality(ToSet(b)) = n
  BY <1>7, <1>8, InjectiveCount
<1>13. IsFiniteSet(A) /\ Cardinality(A) \in Nat
  BY SubagentsAssumption, FS_Subset, FS_CardinalityType
<1> HIDE DEF A
<1>14. Cardinality(A \ ToSet(b)) = Cardinality(A) - n
  BY <1>10, <1>12, <1>13, CountMinus
<1>15. Cardinality(A \ ToSet(b)) \in Nat
  BY <1>13, FS_Difference, FS_CardinalityType
<1>16. scope = Cardinality(A) /\ scope' = scope - n /\ scope \in 0 .. ScopeLimit
  BY DEF Mail, MailType, ScopeAccounted, Settles, A
<1>17. ScopeAccounted'
  BY <1>11, <1>14, <1>16 DEF ScopeAccounted
<1>18. scope' \in 0 .. ScopeLimit
  BY <1>4, <1>14, <1>15, <1>16, SubagentsAssumption
<1>19. Final
  BY <1>2, <1>4, <1>5 DEF Final
<1>20. SameShape
  BY DEF Changed, Settles, SameShape, Latest
<1> QED BY <1>5, <1>6, <1>17, <1>18, <1>19, <1>20

(* What an attempt becomes. *)
LEMMA OpenUpdate ==
  ASSUME NEW x \in Attempt, NEW f
  PROVE  [x EXCEPT !.open = f] = [open |-> f, run |-> x.run, pending |-> x.pending]
BY DEF Attempt

LEMMA PendingUpdate ==
  ASSUME NEW f, NEW r, NEW q, NEW e
  PROVE  [[open |-> f, run |-> r, pending |-> q] EXCEPT !.pending = e] = [open |-> f, run |-> r, pending |-> e]
BY DEF Attempt

LEMMA AttemptUpdate ==
  ASSUME NEW x \in Attempt, NEW f, NEW e
  PROVE  [x EXCEPT !.open = f, !.pending = e] = [open |-> f, run |-> x.run, pending |-> e]
<1>1. PICK y : y = [x EXCEPT !.open = f]
  OBVIOUS
<1>2. y = [open |-> f, run |-> x.run, pending |-> x.pending]
  BY <1>1, OpenUpdate
<1>3. [[open |-> f, run |-> x.run, pending |-> x.pending] EXCEPT !.pending = e] =
      [open |-> f, run |-> x.run, pending |-> e]
  BY PendingUpdate, Zenon
<1>4. [y EXCEPT !.pending = e] = [open |-> f, run |-> x.run, pending |-> e]
  BY <1>2, <1>3, Zenon
<1>5. [x EXCEPT !.open = f, !.pending = e] = [y EXCEPT !.pending = e]
  BY <1>1
<1> QED BY <1>4, <1>5, Zenon

(* close_events keeps the messages accounted for. *)
LEMMA CloseMail ==
  ASSUME Mail, NEW j \in Jobs, NEW a \in 1 .. Latest(j), Close(j, a), UNCHANGED transcript
  PROVE  Mail' /\ Final /\ SameShape
<1> DEFINE s == inbox[j][a].pending
           p == [open |-> FALSE, run |-> inbox[j][a].run, pending |-> << >>]
<1>0. InboxType /\ a \in 1 .. Len(inbox[j])
  BY DEF Mail, Latest
<1>1. inbox[j][a] \in Attempt /\ s \in Seq(Messages) /\ Len(s) \in Nat
  BY <1>0, AttemptParts
<1>2. p \in Attempt
  BY <1>1 DEF Attempt
<1>3. inbox' = [inbox EXCEPT ![j] = [inbox[j] EXCEPT ![a] = p]]
  <2>1. [inbox[j][a] EXCEPT !.open = FALSE, !.pending = << >>] = p
    BY <1>1, AttemptUpdate, Zenon
  <2>2. inbox' = [inbox EXCEPT ![j] =
                    [inbox[j] EXCEPT ![a] = [inbox[j][a] EXCEPT !.open = FALSE, !.pending = << >>]]]
    BY <1>0 DEF Close, InboxType
  <2> QED BY <2>1, <2>2, Zenon
<1>4. Changed(j, a, p)
  BY <1>0, <1>2, <1>3, InboxUpdate
<1>5. Settles(j, a, Len(s), p, "NotDelivered")
  <2>1. /\ scope' = scope - Len(s)
        /\ receipt' = [m \in Messages |-> IF m \in ToSet(s) THEN "NotDelivered" ELSE receipt[m]]
    BY DEF Close
  <2>2. \A m \in Messages : m \in ToSet(s) <=> \E i \in 1 .. Len(s) : s[i] = m
    BY <1>1, Members
  <2>3. receipt' = [m \in Messages |->
                      IF \E i \in 1 .. Len(s) : s[i] = m THEN "NotDelivered" ELSE receipt[m]]
    BY <2>1, <2>2
  <2>4. Len(p.pending) = Len(s) - Len(s) /\ p.pending = << >> /\ 1 .. Len(s) - Len(s) = {}
    BY <1>1
  <2> QED BY <2>1, <2>3, <2>4 DEF Settles
<1>6. Len(s) \in 0 .. Len(s)
  BY <1>1
<1> HIDE DEF p
<1>7. PendingAccepted' /\ PendingOnce' /\ AcceptedPends'
  BY <1>2, <1>4, <1>5, <1>6, SettlesPending
<1>8. /\ receipt' \in [Messages -> {"unsent", "Accepted", "IncludedInTurn", "NotDelivered"}]
      /\ scope' \in 0 .. ScopeLimit
      /\ ScopeAccounted' /\ Final /\ SameShape
  BY <1>2, <1>4, <1>5, <1>6, SettlesScope
<1>9. InboxType' /\ MailType'
  BY <1>4, <1>8 DEF Changed, MailType, Mail
<1>10. TranscriptsOK'
  <2>1. \A m \in Messages : receipt'[m] = "IncludedInTurn" <=> receipt[m] = "IncludedInTurn"
    BY <1>5, <1>8 DEF Settles, Final
  <2>2. \A k \in Jobs : \A i \in 1 .. Len(transcript[k]) : transcript[k][i] \in Messages
    BY DEF Mail, MailType
  <2> QED BY <2>1, <2>2 DEF Mail, TranscriptsOK
<1> QED BY <1>7, <1>8, <1>9, <1>10 DEF Mail

(* Message m stands in the transcript of job j, as its i-th. *)
Stands(m, j, i) ==
    /\ j \in Jobs /\ i \in 1 .. Len(transcript[j])
    /\ transcript[j][i] = m

(* A message stands at one place. *)
LEMMA StandsOnce ==
  ASSUME TranscriptsOK, NEW m, NEW j, NEW i, NEW k, NEW l, Stands(m, j, i), Stands(m, k, l)
  PROVE  j = k /\ i = l
<1> USE DEF Stands
<1>1. \A x \in 1 .. Len(transcript[j]), y \in 1 .. Len(transcript[k]) :
         transcript[j][x] = transcript[k][y] => j = k /\ x = y
  BY DEF TranscriptsOK
<1> QED BY <1>1

(* The messages of b are written at the end of the transcript of job j. *)
Written(j, b) ==
    /\ transcript' \in [Jobs -> Seq(Messages)]
    /\ \A k \in Jobs : transcript'[k] = IF k = j THEN transcript[j] \o b ELSE transcript[k]
    /\ \A m \in Messages : receipt'[m] =
          IF \E i \in 1 .. Len(b) : b[i] = m THEN "IncludedInTurn" ELSE receipt[m]

(* Accepted messages are written at the end of a transcript. *)
LEMMA TranscriptGrows ==
  ASSUME MailType, TranscriptsOK, NEW j \in Jobs, NEW b \in Seq(Messages), Injective(b),
         \A i \in 1 .. Len(b) : receipt[b[i]] = "Accepted",
         Written(j, b)
  PROVE  TranscriptsOK'
<1> DEFINE L == Len(transcript[j])
<1>1. /\ transcript \in [Jobs -> Seq(Messages)]
      /\ transcript[j] \in Seq(Messages)
  BY DEF MailType
<1>2. \A k \in Jobs : transcript'[k] = IF k = j THEN transcript[j] \o b ELSE transcript[k]
  BY DEF Written
<1>3. transcript' \in [Jobs -> Seq(Messages)]
  BY DEF Written
<1>a. \A m \in Messages : receipt'[m] =
         IF \E i \in 1 .. Len(b) : b[i] = m THEN "IncludedInTurn" ELSE receipt[m]
  BY DEF Written
<1>4. L \in Nat /\ Len(b) \in Nat /\ Len(transcript[j] \o b) = L + Len(b)
  BY <1>1
<1>5. \A i \in 1 .. L + Len(b) :
         (transcript[j] \o b)[i] = IF i <= L THEN transcript[j][i] ELSE b[i - L]
  BY <1>1
<1>6. ASSUME NEW k \in Jobs, NEW i \in 1 .. Len(transcript'[k])
      PROVE  \/ Stands(transcript'[k][i], k, i)
             \/ k = j /\ i - L \in 1 .. Len(b) /\ b[i - L] = transcript'[k][i]
  <2>1. CASE k # j
    BY <2>1, <1>2 DEF Stands
  <2>2. CASE k = j
    <3>1. i \in 1 .. L + Len(b) /\ transcript'[k] = transcript[j] \o b
      BY <2>2, <1>2, <1>4
    <3>2. CASE i <= L
      <4>1. i \in 1 .. L /\ transcript'[k][i] = transcript[j][i]
        BY <3>1, <3>2, <1>4, <1>5
      <4> QED BY <4>1, <2>2 DEF Stands
    <3>3. CASE ~ (i <= L)
      <4>1. i - L \in 1 .. Len(b)
        BY <3>1, <3>3, <1>4
      <4> QED BY <4>1, <3>1, <3>3, <1>5, <2>2
    <3> QED BY <3>2, <3>3
  <2> QED BY <2>1, <2>2
<1>7. ASSUME NEW m \in Messages, NEW k, NEW i, Stands(m, k, i)
      PROVE  receipt[m] = "IncludedInTurn" /\ ~ \E l \in 1 .. Len(b) : b[l] = m
  BY <1>7 DEF Stands, TranscriptsOK
<1>8. \A l \in 1 .. Len(b) : b[l] \in Messages
  OBVIOUS
<1>9. \A k \in Jobs : \A i \in 1 .. Len(transcript'[k]) : transcript'[k][i] \in Messages
  BY <1>3
<1>10. ASSUME NEW k \in Jobs, NEW i \in 1 .. Len(transcript'[k])
       PROVE  receipt'[transcript'[k][i]] = "IncludedInTurn"
  <2>1. PICK m \in Messages : m = transcript'[k][i]
    BY <1>9
  <2>2. CASE Stands(m, k, i)
    <3>1. receipt[m] = "IncludedInTurn"
      BY <2>2, <1>7
    <3> QED BY <2>1, <3>1, <1>a
  <2>3. CASE \E l \in 1 .. Len(b) : b[l] = m
    BY <2>1, <2>3, <1>a
  <2> QED BY <2>1, <2>2, <2>3, <1>6
<1>11. ASSUME NEW k \in Jobs, NEW q \in Jobs, NEW i \in 1 .. Len(transcript'[k]),
              NEW l \in 1 .. Len(transcript'[q]), transcript'[k][i] = transcript'[q][l]
       PROVE  k = q /\ i = l
  <2> DEFINE m == transcript'[k][i]
  <2>1. m \in Messages /\ m = transcript'[q][l]
    BY <1>9, <1>11
  <2> HIDE DEF m
  <2>2. \/ Stands(m, k, i)
        \/ k = j /\ i - L \in 1 .. Len(b) /\ b[i - L] = m
    BY <1>6 DEF m
  <2>3. \/ Stands(m, q, l)
        \/ q = j /\ l - L \in 1 .. Len(b) /\ b[l - L] = m
    BY <1>6, <2>1
  <2>4. CASE Stands(m, k, i) /\ Stands(m, q, l)
    BY <2>4, StandsOnce
  <2>5. CASE ~ Stands(m, k, i) /\ ~ Stands(m, q, l)
    <3>0. /\ k = j /\ i - L \in 1 .. Len(b) /\ b[i - L] = m
          /\ q = j /\ l - L \in 1 .. Len(b) /\ b[l - L] = m
      BY <2>5, <2>2, <2>3
    <3>a. \A x, y \in 1 .. Len(b) : b[x] = b[y] => x = y
      BY DEF Injective
    <3>b. PICK x \in 1 .. Len(b) : x = i - L
      BY <3>0
    <3>c. PICK y \in 1 .. Len(b) : y = l - L
      BY <3>0
    <3>d. x = y
      BY <3>0, <3>a, <3>b, <3>c
    <3>1. i - L = l - L /\ k = q
      BY <3>0, <3>b, <3>c, <3>d
    <3>2. i \in Int /\ l \in Int
      OBVIOUS
    <3> QED BY <3>1, <3>2, <1>4
  <2>6. ~ (Stands(m, k, i) /\ ~ Stands(m, q, l)) /\ ~ (~ Stands(m, k, i) /\ Stands(m, q, l))
    BY <2>1, <2>2, <2>3, <1>7
  <2> QED BY <2>4, <2>5, <2>6
<1>12. ASSUME NEW m \in Messages, receipt'[m] = "IncludedInTurn"
       PROVE  \E k \in Jobs : \E i \in 1 .. Len(transcript'[k]) : transcript'[k][i] = m
  <2>1. CASE \E l \in 1 .. Len(b) : b[l] = m
    <3>1. PICK l \in 1 .. Len(b) : b[l] = m
      BY <2>1
    <3>2. L + l \in 1 .. L + Len(b) /\ ~ (L + l <= L) /\ L + l - L = l
      BY <1>4
    <3>3. (transcript[j] \o b)[L + l] = m
      BY <1>5, <3>1, <3>2
    <3>4. Len(transcript'[j]) = L + Len(b) /\ transcript'[j][L + l] = m
      BY <1>2, <1>4, <3>3
    <3> QED BY <3>2, <3>4
  <2>2. CASE ~ \E l \in 1 .. Len(b) : b[l] = m
    <3>1. receipt[m] = "IncludedInTurn"
      BY <2>2, <1>12, <1>a
    <3>2. PICK k \in Jobs : \E i \in 1 .. Len(transcript[k]) : transcript[k][i] = m
      BY <3>1 DEF TranscriptsOK
    <3>3. PICK i \in 1 .. Len(transcript[k]) : transcript[k][i] = m
      BY <3>2
    <3>4. CASE k = j
      <4>1. i \in 1 .. L + Len(b) /\ i <= L
        BY <3>3, <3>4, <1>4
      <4>2. (transcript[j] \o b)[i] = m
        BY <4>1, <3>3, <3>4, <1>5
      <4> QED BY <4>1, <4>2, <1>2, <1>4
    <3>5. CASE k # j
      BY <3>3, <3>5, <1>2
    <3> QED BY <3>4, <3>5
  <2> QED BY <2>1, <2>2
<1>13. TranscriptsOK'
  BY <1>10, <1>11, <1>12 DEF TranscriptsOK
<1> QED BY <1>13

LEMMA InputUpdate ==
  ASSUME NEW x \in Attempt, NEW e
  PROVE  [x EXCEPT !.pending = e] = [open |-> x.open, run |-> x.run, pending |-> e]
BY DEF Attempt

(* A prefix of a sequence. *)
LEMMA Prefix ==
  ASSUME NEW s \in Seq(Messages), NEW n \in 0 .. Len(s)
  PROVE  /\ SubSeq(s, 1, n) \in Seq(Messages)
         /\ Len(SubSeq(s, 1, n)) = n
         /\ \A i \in 1 .. n : SubSeq(s, 1, n)[i] = s[i]
         /\ SubSeq(s, n + 1, Len(s)) \in Seq(Messages)
         /\ Len(SubSeq(s, n + 1, Len(s))) = Len(s) - n
         /\ \A i \in 1 .. Len(s) - n : SubSeq(s, n + 1, Len(s))[i] = s[n + i]
<1>1. Len(s) \in Nat /\ n \in Nat /\ n <= Len(s)
  OBVIOUS
<1>2. \A i \in 1 .. n : i \in 1 .. Len(s)
  BY <1>1
<1>3. SubSeq(s, 1, n) \in Seq(Messages) /\ Len(SubSeq(s, 1, n)) = n
  BY <1>1
<1>4. \A i \in 1 .. n : SubSeq(s, 1, n)[i] = s[i]
  BY <1>1
<1>5. SubSeq(s, n + 1, Len(s)) \in Seq(Messages) /\ Len(SubSeq(s, n + 1, Len(s))) = Len(s) - n
  BY <1>1
<1>6. \A i \in 1 .. Len(s) - n : SubSeq(s, n + 1, Len(s))[i] = s[n + i]
  BY <1>1
<1> QED BY <1>3, <1>4, <1>5, <1>6

(* A batch of an attempt is included. *)
Included(j, a, b) ==
    /\ inbox' = [inbox EXCEPT ![j][a].pending = SubSeq(@, Len(b) + 1, Len(@))]
    /\ receipt' = [m \in Messages |-> IF m \in ToSet(b) THEN "IncludedInTurn" ELSE receipt[m]]
    /\ transcript' = [transcript EXCEPT ![j] = @ \o b]
    /\ scope' = scope - Len(b)

(* include keeps the messages accounted for. *)
LEMMA IncludeMail ==
  ASSUME Mail, NEW j \in Jobs, NEW a \in 1 .. Latest(j), NEW n \in 0 .. Len(inbox[j][a].pending),
         NEW b, b = SubSeq(inbox[j][a].pending, 1, n),
         Included(j, a, b)
  PROVE  Mail' /\ Final /\ SameShape
<1> DEFINE s == inbox[j][a].pending
           e == SubSeq(s, n + 1, Len(s))
           p == [open |-> inbox[j][a].open, run |-> inbox[j][a].run, pending |-> e]
<1>0. InboxType /\ a \in 1 .. Len(inbox[j])
  BY DEF Mail, Latest
<1>1. inbox[j][a] \in Attempt /\ s \in Seq(Messages) /\ Len(s) \in Nat
  BY <1>0, AttemptParts
<1>a. /\ b \in Seq(Messages) /\ Len(b) = n /\ n \in Nat
      /\ \A i \in 1 .. n : b[i] = s[i] /\ i \in 1 .. Len(s)
      /\ e \in Seq(Messages) /\ Len(e) = Len(s) - n
      /\ \A i \in 1 .. Len(s) - n : e[i] = s[n + i]
  <2> HIDE DEF s
  <2>1. n \in 0 .. Len(s) /\ b = SubSeq(s, 1, n)
    BY DEF s
  <2>2. /\ SubSeq(s, 1, n) \in Seq(Messages)
        /\ Len(SubSeq(s, 1, n)) = n
        /\ \A i \in 1 .. n : SubSeq(s, 1, n)[i] = s[i]
        /\ e \in Seq(Messages) /\ Len(e) = Len(s) - n
        /\ \A i \in 1 .. Len(s) - n : e[i] = s[n + i]
    BY <1>1, <2>1, Prefix
  <2> HIDE DEF e
  <2> QED BY <1>1, <2>1, <2>2
<1>2. p \in Attempt
  BY <1>1, <1>a DEF Attempt
<1>3. inbox' = [inbox EXCEPT ![j] = [inbox[j] EXCEPT ![a] = p]]
  <2>1. [inbox[j][a] EXCEPT !.pending = e] = p
    BY <1>1, InputUpdate, Zenon
  <2>2. inbox' = [inbox EXCEPT ![j] = [inbox[j] EXCEPT ![a] = [inbox[j][a] EXCEPT !.pending = e]]]
    BY <1>0, <1>a DEF InboxType, Included
  <2> QED BY <2>1, <2>2, Zenon
<1>4. Changed(j, a, p)
  BY <1>0, <1>2, <1>3, InboxUpdate
<1>b. \A m : m \in ToSet(b) <=> \E i \in 1 .. n : s[i] = m
  <2>1. \A m : m \in ToSet(b) <=> \E i \in 1 .. Len(b) : b[i] = m
    BY <1>a, Members
  <2> QED BY <2>1, <1>a
<1>5. Settles(j, a, n, p, "IncludedInTurn")
  <2>1. scope' = scope - n
    BY <1>a DEF Included
  <2>2. receipt' = [m \in Messages |->
                      IF \E i \in 1 .. n : s[i] = m THEN "IncludedInTurn" ELSE receipt[m]]
    BY <1>b DEF Included
  <2>3. PendingAccepted
    BY DEF Mail
  <2>4. e # << >> => inbox[j][a].open
    <3>1. s # << >> => inbox[j][a].open
      BY <2>3 DEF PendingAccepted
    <3>2. CASE s = << >>
      <4>1. Len(e) = 0
        BY <3>2, <1>a
      <4> QED BY <4>1, <1>a
    <3> QED BY <3>1, <3>2
  <2> HIDE DEF e
  <2>5. /\ p.run = inbox[j][a].run /\ p.pending = e /\ p.open = inbox[j][a].open
    OBVIOUS
  <2> QED BY <2>1, <2>2, <2>4, <2>5, <1>a DEF Settles
<1> HIDE DEF p
<1>7. PendingAccepted' /\ PendingOnce' /\ AcceptedPends'
  BY <1>2, <1>4, <1>5, SettlesPending
<1>8. /\ receipt' \in [Messages -> {"unsent", "Accepted", "IncludedInTurn", "NotDelivered"}]
      /\ scope' \in 0 .. ScopeLimit
      /\ ScopeAccounted' /\ Final /\ SameShape
  BY <1>2, <1>4, <1>5, SettlesScope
<1>9. Injective(b)
  <2>1. PendingOnce
    BY DEF Mail
  <2> SUFFICES ASSUME NEW i \in 1 .. n, NEW l \in 1 .. n, b[i] = b[l]
               PROVE  i = l
    BY <1>a DEF Injective
  <2>2. Waits(b[l], j, a, i) /\ Waits(b[l], j, a, l)
    BY <1>a DEF Waits
  <2> QED BY <2>1, <2>2, WaitsOnce
<1>10. \A i \in 1 .. Len(b) : receipt[b[i]] = "Accepted"
  <2>1. PendingAccepted
    BY DEF Mail
  <2>2. \A i \in 1 .. Len(inbox[j][a].pending) : receipt[inbox[j][a].pending[i]] = "Accepted"
    BY <2>1 DEF PendingAccepted
  <2> QED BY <2>2, <1>a
<1>11. \A m \in Messages : receipt'[m] =
          IF \E i \in 1 .. Len(b) : b[i] = m THEN "IncludedInTurn" ELSE receipt[m]
  <2>1. \A m \in Messages : receipt'[m] = IF m \in ToSet(b) THEN "IncludedInTurn" ELSE receipt[m]
    BY DEF Included
  <2>2. \A m : m \in ToSet(b) <=> \E i \in 1 .. Len(b) : b[i] = m
    BY <1>a, Members
  <2> QED BY <2>1, <2>2
<1>12. transcript' \in [Jobs -> Seq(Messages)] /\ TranscriptsOK'
  <2>1. MailType /\ TranscriptsOK
    BY DEF Mail
  <2> HIDE DEF e, s
  <2>2. transcript \in [Jobs -> Seq(Messages)]
    BY <2>1 DEF MailType
  <2>3. transcript' \in [Jobs -> Seq(Messages)]
    BY <2>2, <1>a DEF Included
  <2>4. \A k \in Jobs : transcript'[k] = IF k = j THEN transcript[j] \o b ELSE transcript[k]
    BY <2>2 DEF Included
  <2>a. Written(j, b)
    BY <2>3, <2>4, <1>11 DEF Written
  <2>5. TranscriptsOK'
    BY <2>1, <2>a, <1>a, <1>9, <1>10, TranscriptGrows
  <2> QED BY <2>3, <2>5
<1>13. InboxType' /\ MailType'
  BY <1>4, <1>8, <1>12 DEF Changed, MailType
<1> QED BY <1>7, <1>8, <1>12, <1>13 DEF Mail

(* send keeps the messages accounted for. *)
LEMMA SendMail ==
  ASSUME Mail, NEW j \in Jobs, NEW a \in 1 .. Latest(j), NEW m \in Messages, Send(m, j, a)
  PROVE  Mail' /\ Final /\ SameShape
<1> DEFINE s == inbox[j][a].pending
           e == Append(s, m)
           p == [open |-> inbox[j][a].open, run |-> inbox[j][a].run, pending |-> e]
<1>0. InboxType /\ a \in 1 .. Len(inbox[j])
  BY DEF Mail, Latest
<1>1. inbox[j][a] \in Attempt /\ s \in Seq(Messages) /\ Len(s) \in Nat
  BY <1>0, AttemptParts
<1>2. p \in Attempt
  BY <1>1 DEF Attempt
<1>3. inbox' = [inbox EXCEPT ![j] = [inbox[j] EXCEPT ![a] = p]]
  <2>1. [inbox[j][a] EXCEPT !.pending = e] = p
    BY <1>1, InputUpdate, Zenon
  <2>2. inbox' = [inbox EXCEPT ![j] = [inbox[j] EXCEPT ![a] = [inbox[j][a] EXCEPT !.pending = e]]]
    BY <1>0 DEF InboxType, Send
  <2> QED BY <2>1, <2>2, Zenon
<1>4. Changed(j, a, p)
  BY <1>0, <1>2, <1>3, InboxUpdate
<1>5. /\ e \in Seq(Messages) /\ Len(e) = Len(s) + 1 /\ e[Len(s) + 1] = m
      /\ \A i \in 1 .. Len(s) : e[i] = s[i] /\ i \in 1 .. Len(s) + 1
  <2> HIDE DEF s
  <2> QED BY <1>1
<1> HIDE DEF e
<1>6. /\ \A k \in Jobs : Latest(k)' = Latest(k)
      /\ inbox'[j][a].pending = e /\ inbox'[j][a].open = inbox[j][a].open
      /\ inbox'[j][a].run = inbox[j][a].run
      /\ \A k \in Jobs : \A b \in 1 .. Latest(k) :
           (k # j \/ b # a) => inbox'[k][b] = inbox[k][b]
  BY <1>4 DEF Changed, Latest
<1>a. \A k \in Jobs : Latest(k)' = Latest(k)
  BY <1>6
<1> HIDE DEF p
<1>7. /\ receipt[m] = "unsent" /\ inbox[j][a].open /\ scope < ScopeLimit
      /\ receipt' = [receipt EXCEPT ![m] = "Accepted"]
      /\ scope' = scope + 1 /\ transcript' = transcript
  BY DEF Send
<1>8. /\ receipt \in [Messages -> {"unsent", "Accepted", "IncludedInTurn", "NotDelivered"}]
      /\ scope \in 0 .. ScopeLimit
      /\ transcript \in [Jobs -> Seq(Messages)]
  BY DEF Mail, MailType
<1>9. MailType'
  BY <1>7, <1>8, SubagentsAssumption DEF MailType
<1>10. InboxType'
  BY <1>4 DEF Changed
<1>11. \A x \in Messages : receipt'[x] = IF x = m THEN "Accepted" ELSE receipt[x]
  BY <1>7, <1>8
<1>12. Final
  BY <1>7, <1>11 DEF Final
<1>13. SameShape
  BY <1>6 DEF SameShape, Latest
<1>14. PendingAccepted /\ PendingOnce /\ AcceptedPends /\ TranscriptsOK /\ ScopeAccounted
  BY DEF Mail
<1>15. ASSUME NEW k \in Jobs, NEW b \in 1 .. Latest(k), NEW i \in 1 .. Len(inbox'[k][b].pending)
       PROVE  \/ Waits(inbox'[k][b].pending[i], k, b, i)
              \/ k = j /\ b = a /\ i = Len(s) + 1 /\ inbox'[k][b].pending[i] = m
  <2>1. CASE k # j \/ b # a
    BY <2>1, <1>6 DEF Waits
  <2>2. CASE k = j /\ b = a
    <3>1. i \in 1 .. Len(s) + 1 /\ inbox'[k][b].pending[i] = e[i]
      BY <2>2, <1>5, <1>6
    <3>2. CASE i = Len(s) + 1
      BY <3>1, <3>2, <2>2, <1>5
    <3>3. CASE i # Len(s) + 1
      <4>1. \A n \in Nat : \A l \in 1 .. n + 1 : l # n + 1 => l \in 1 .. n
        OBVIOUS
      <4>2. i \in 1 .. Len(s)
        BY <4>1, <3>1, <3>3, <1>1, Zenon
      <4> QED BY <4>2, <3>1, <2>2, <1>5 DEF Waits
    <3> QED BY <3>2, <3>3
  <2> QED BY <2>1, <2>2
<1>16. ASSUME NEW x, NEW k, NEW b, NEW i, Waits(x, k, b, i)
       PROVE  x \in Messages /\ receipt[x] = "Accepted"
  <2>1. k \in Jobs /\ b \in 1 .. Latest(k) /\ b \in 1 .. Len(inbox[k])
        /\ i \in 1 .. Len(inbox[k][b].pending) /\ inbox[k][b].pending[i] = x
    BY <1>16 DEF Waits, Latest
  <2>2. \A l \in 1 .. Len(inbox[k][b].pending) : receipt[inbox[k][b].pending[l]] = "Accepted"
    BY <2>1, <1>14 DEF PendingAccepted
  <2>3. \A l \in 1 .. Len(inbox[k][b].pending) : inbox[k][b].pending[l] \in Messages
    BY <2>1, <1>0, AttemptParts
  <2> QED BY <2>1, <2>2, <2>3
<1>17. PendingAccepted'
  <2> SUFFICES ASSUME NEW k \in Jobs, NEW b \in 1 .. Latest(k)
               PROVE  /\ inbox'[k][b].pending # << >> => inbox'[k][b].open
                      /\ \A i \in 1 .. Len(inbox'[k][b].pending) :
                           receipt'[inbox'[k][b].pending[i]] = "Accepted"
    BY <1>6 DEF PendingAccepted
  <2>1. inbox'[k][b].pending # << >> => inbox'[k][b].open
    <3>1. CASE k = j /\ b = a
      BY <3>1, <1>6, <1>7
    <3>2. CASE k # j \/ b # a
      BY <3>2, <1>6, <1>14 DEF PendingAccepted
    <3> QED BY <3>1, <3>2
  <2>2. ASSUME NEW i \in 1 .. Len(inbox'[k][b].pending)
        PROVE  receipt'[inbox'[k][b].pending[i]] = "Accepted"
    BY <1>11, <1>15, <1>16
  <2> QED BY <2>1, <2>2
<1>18. PendingOnce'
  <2> SUFFICES ASSUME NEW k \in Jobs, NEW q \in Jobs, NEW b \in 1 .. Latest(k)', NEW c \in 1 .. Latest(q)',
                      NEW i \in 1 .. Len(inbox'[k][b].pending), NEW l \in 1 .. Len(inbox'[q][c].pending),
                      inbox'[k][b].pending[i] = inbox'[q][c].pending[l]
               PROVE  k = q /\ b = c /\ i = l
    BY Zenon DEF PendingOnce
  <2>0. b \in 1 .. Latest(k) /\ c \in 1 .. Latest(q)
    BY <1>a
  <2>1. PICK x : x = inbox'[k][b].pending[i]
    OBVIOUS
  <2>2. \/ Waits(x, k, b, i)
        \/ k = j /\ b = a /\ i = Len(s) + 1 /\ x = m
    BY <2>0, <2>1, <1>15
  <2>3. \/ Waits(x, q, c, l)
        \/ q = j /\ c = a /\ l = Len(s) + 1 /\ x = m
    BY <2>0, <2>1, <1>15
  <2>4. ~ Waits(m, k, b, i) /\ ~ Waits(m, q, c, l)
    BY <1>7, <1>16
  <2>5. CASE Waits(x, k, b, i) /\ Waits(x, q, c, l)
    BY <2>5, <1>14, WaitsOnce
  <2> QED BY <2>2, <2>3, <2>4, <2>5
<1>19. AcceptedPends'
  <2> SUFFICES ASSUME NEW x \in Messages, receipt'[x] = "Accepted"
               PROVE  \E k \in Jobs : \E b \in 1 .. Latest(k) :
                        \E i \in 1 .. Len(inbox'[k][b].pending) : inbox'[k][b].pending[i] = x
    BY <1>6 DEF AcceptedPends
  <2>1. CASE x = m
    <3>1. Len(s) + 1 \in 1 .. Len(e)
      BY <1>1, <1>5
    <3> QED BY <2>1, <3>1, <1>5, <1>6
  <2>2. CASE x # m
    <3>1. PICK k \in Jobs : \E b \in 1 .. Latest(k) : \E i \in 1 .. Len(inbox[k][b].pending) :
             inbox[k][b].pending[i] = x
      BY <2>2, <1>11, <1>14 DEF AcceptedPends
    <3>2. PICK b \in 1 .. Latest(k) : \E i \in 1 .. Len(inbox[k][b].pending) :
             inbox[k][b].pending[i] = x
      BY <3>1
    <3>3. PICK i \in 1 .. Len(inbox[k][b].pending) : inbox[k][b].pending[i] = x
      BY <3>2
    <3>4. CASE k = j /\ b = a
      <4>1. i \in 1 .. Len(e) /\ e[i] = x
        BY <3>3, <3>4, <1>5
      <4> QED BY <4>1, <3>4, <1>6
    <3>5. CASE k # j \/ b # a
      BY <3>3, <3>5, <1>6
    <3> QED BY <3>4, <3>5
  <2> QED BY <2>1, <2>2
<1>20. TranscriptsOK'
  <2>1. \A x \in Messages : receipt'[x] = "IncludedInTurn" <=> receipt[x] = "IncludedInTurn"
    BY <1>7, <1>11
  <2>2. \A k \in Jobs : \A i \in 1 .. Len(transcript[k]) : transcript[k][i] \in Messages
    BY <1>8
  <2>3. \A k \in Jobs : \A i \in 1 .. Len(transcript[k]) : receipt'[transcript[k][i]] = "IncludedInTurn"
    BY <2>1, <2>2, <1>14 DEF TranscriptsOK
  <2>4. \A y \in Messages : receipt'[y] = "IncludedInTurn" =>
          \E k \in Jobs : \E i \in 1 .. Len(transcript[k]) : transcript[k][i] = y
    BY <2>1, <1>14 DEF TranscriptsOK
  <2> QED BY <2>3, <2>4, <1>7, <1>14 DEF TranscriptsOK
<1>21. ScopeAccounted'
  <2> DEFINE A == {x \in Messages : receipt[x] = "Accepted"}
  <2>1. {x \in Messages : receipt'[x] = "Accepted"} = A \cup {m} /\ m \notin A
    BY <1>7, <1>11
  <2>2. IsFiniteSet(A)
    BY SubagentsAssumption, FS_Subset
  <2>3. scope = Cardinality(A)
    BY <1>14 DEF ScopeAccounted
  <2> HIDE DEF A
  <2>4. Cardinality(A \cup {m}) = Cardinality(A) + 1
    BY <2>1, <2>2, FS_AddElement
  <2> QED BY <2>1, <2>3, <2>4, <1>7 DEF ScopeAccounted
<1> QED BY <1>9, <1>10, <1>12, <1>13, <1>17, <1>18, <1>19, <1>20, <1>21 DEF Mail

(* Attempts are added or bound, and what waits in them stays. *)
SameInput ==
    /\ InboxType'
    /\ UNCHANGED <<receipt, scope, transcript>>
    /\ \A k \in Jobs : Latest(k) <= Latest(k)'
    /\ \A k \in Jobs : \A b \in 1 .. Latest(k) :
          inbox'[k][b].pending = inbox[k][b].pending /\ inbox'[k][b].open = inbox[k][b].open
    /\ \A k \in Jobs : \A b \in 1 .. Latest(k)' :
          b \notin 1 .. Latest(k) => inbox'[k][b].pending = << >>

LEMMA SameInputMail ==
  ASSUME Mail, SameInput
  PROVE  Mail' /\ Final
<1>1. InboxType' /\ MailType' /\ TranscriptsOK' /\ ScopeAccounted' /\ Final
  <2>1. InboxType' /\ UNCHANGED <<receipt, scope, transcript>>
    BY DEF SameInput
  <2>2. MailType /\ TranscriptsOK /\ ScopeAccounted
    BY DEF Mail
  <2>3. MailType'
    BY <2>1, <2>2 DEF MailType
  <2>4. TranscriptsOK'
    BY <2>1, <2>2 DEF TranscriptsOK
  <2>5. ScopeAccounted' /\ Final
    BY <2>1, <2>2 DEF ScopeAccounted, Final
  <2> QED BY <2>1, <2>3, <2>4, <2>5
<1>2. PendingAccepted /\ PendingOnce /\ AcceptedPends /\ InboxType
  BY DEF Mail
<1>3. ASSUME NEW k \in Jobs, NEW b \in 1 .. Latest(k)', NEW i \in 1 .. Len(inbox'[k][b].pending)
      PROVE  b \in 1 .. Latest(k) /\ Waits(inbox'[k][b].pending[i], k, b, i)
  <2>1. CASE b \notin 1 .. Latest(k)
    <3>1. Len(inbox'[k][b].pending) = 0
      BY <2>1 DEF SameInput
    <3> QED BY <3>1
  <2>2. CASE b \in 1 .. Latest(k)
    BY <2>2 DEF SameInput, Waits
  <2> QED BY <2>1, <2>2
<1>4. PendingAccepted'
  <2> SUFFICES ASSUME NEW k \in Jobs, NEW b \in 1 .. Latest(k)'
               PROVE  /\ inbox'[k][b].pending # << >> => inbox'[k][b].open
                      /\ \A i \in 1 .. Len(inbox'[k][b].pending) :
                           receipt'[inbox'[k][b].pending[i]] = "Accepted"
    BY Zenon DEF PendingAccepted
  <2>1. CASE b \in 1 .. Latest(k)
    BY <2>1, <1>2 DEF SameInput, PendingAccepted
  <2>2. CASE b \notin 1 .. Latest(k)
    BY <2>2, <1>3 DEF SameInput
  <2> QED BY <2>1, <2>2
<1>5. PendingOnce'
  <2> SUFFICES ASSUME NEW k \in Jobs, NEW q \in Jobs, NEW b \in 1 .. Latest(k)', NEW c \in 1 .. Latest(q)',
                      NEW i \in 1 .. Len(inbox'[k][b].pending), NEW l \in 1 .. Len(inbox'[q][c].pending),
                      inbox'[k][b].pending[i] = inbox'[q][c].pending[l]
               PROVE  k = q /\ b = c /\ i = l
    BY Zenon DEF PendingOnce
  <2>1. PICK x : x = inbox'[k][b].pending[i]
    OBVIOUS
  <2>2. Waits(x, k, b, i) /\ Waits(x, q, c, l)
    BY <2>1, <1>3
  <2> QED BY <2>2, <1>2, WaitsOnce
<1>6. AcceptedPends'
  <2> SUFFICES ASSUME NEW m \in Messages, receipt'[m] = "Accepted"
               PROVE  \E k \in Jobs : \E b \in 1 .. Latest(k)' :
                        \E i \in 1 .. Len(inbox'[k][b].pending) : inbox'[k][b].pending[i] = m
    BY Zenon DEF AcceptedPends
  <2>0. receipt[m] = "Accepted"
    BY DEF SameInput
  <2>1. PICK k \in Jobs : \E b \in 1 .. Latest(k) : \E i \in 1 .. Len(inbox[k][b].pending) :
             inbox[k][b].pending[i] = m
    BY <2>0, <1>2 DEF AcceptedPends
  <2>2. PICK b \in 1 .. Latest(k) : \E i \in 1 .. Len(inbox[k][b].pending) :
             inbox[k][b].pending[i] = m
    BY <2>1
  <2>3. inbox'[k][b].pending = inbox[k][b].pending
    BY DEF SameInput
  <2>4. Latest(k) \in Nat /\ Latest(k)' \in Nat
    BY <1>2, <1>1 DEF Latest, InboxType
  <2>5. b \in 1 .. Latest(k)'
    BY <2>4 DEF SameInput
  <2> QED BY <2>2, <2>3, <2>5
<1> QED BY <1>1, <1>4, <1>5, <1>6 DEF Mail

(* Nothing of it changes. *)
LEMMA KeepMail ==
  ASSUME Mail, UNCHANGED <<inbox, receipt, scope, transcript>>
  PROVE  Mail' /\ Final /\ SameShape
<1>1. Mail'
  BY DEF Mail, InboxType, MailType, PendingAccepted, PendingOnce, AcceptedPends, TranscriptsOK,
         ScopeAccounted, Latest
<1>2. Final /\ SameShape
  BY DEF Final, SameShape
<1> QED BY <1>1, <1>2

(* register_child: one attempt more, open, empty and not bound. *)
Registers(j) ==
    /\ \A k \in Jobs : Latest(k)' = IF k = j THEN Latest(j) + 1 ELSE Latest(k)
    /\ \A k \in Jobs : \A b \in 1 .. Latest(k) : inbox'[k][b] = inbox[k][b]
    /\ inbox'[j][Latest(j) + 1] = Fresh

LEMMA RegisterMail ==
  ASSUME Mail, NEW j \in Jobs, Latest(j) < MaxAttempts, Register(j), UNCHANGED transcript
  PROVE  Mail' /\ Final /\ Registers(j)
<1>1. Fresh \in Attempt
  BY DEF Fresh, Attempt
<1>2. inbox \in [Jobs -> Seq(Attempt)] /\ \A k \in Jobs : Len(inbox[k]) <= MaxAttempts
  BY DEF Mail, InboxType
<1>3. PICK s : s = Append(inbox[j], Fresh)
  OBVIOUS
<1>4. inbox' = [inbox EXCEPT ![j] = s] /\ UNCHANGED <<receipt, scope>>
  BY <1>3 DEF Register
<1>5. inbox[j] \in Seq(Attempt) /\ Len(inbox[j]) \in Nat
  BY <1>2
<1>6. /\ s \in Seq(Attempt) /\ Len(s) = Len(inbox[j]) + 1
      /\ s[Len(inbox[j]) + 1] = Fresh
      /\ \A b \in 1 .. Len(inbox[j]) : s[b] = inbox[j][b]
  BY <1>1, <1>3, <1>5
<1>7. \A k \in Jobs : inbox'[k] = IF k = j THEN s ELSE inbox[k]
  BY <1>2, <1>4
<1>8. Registers(j)
  BY <1>6, <1>7 DEF Registers, Latest
<1>9. InboxType'
  <2>1. inbox' \in [Jobs -> Seq(Attempt)]
    BY <1>2, <1>4, <1>6
  <2>2. Len(s) <= MaxAttempts
    BY <1>5, <1>6, AttemptsAssumption DEF Latest
  <2> QED BY <2>1, <2>2, <1>2, <1>7 DEF InboxType
<1>10. SameInput
  <2>1. \A k \in Jobs : Latest(k) \in Nat
    BY <1>2 DEF Latest
  <2>2. \A k \in Jobs : Latest(k) <= Latest(k)'
    BY <2>1, <1>8 DEF Registers
  <2>3. ASSUME NEW k \in Jobs, NEW b \in 1 .. Latest(k)', b \notin 1 .. Latest(k)
        PROVE  inbox'[k][b].pending = << >>
    <3>1. k = j /\ b = Latest(j) + 1
      BY <2>1, <2>3, <1>8 DEF Registers
    <3> QED BY <3>1, <1>8 DEF Registers, Fresh
  <2> QED BY <2>2, <2>3, <1>4, <1>8, <1>9 DEF SameInput, Registers
<1> QED BY <1>8, <1>10, SameInputMail

(* begin_run: attempt a of job j gets the run r. *)
Binds(j, a, r) ==
    /\ \A k \in Jobs : Latest(k)' = Latest(k)
    /\ inbox'[j][a].run = r
    /\ \A k \in Jobs : \A b \in 1 .. Latest(k) :
          (k # j \/ b # a) => inbox'[k][b].run = inbox[k][b].run

LEMMA BindMail ==
  ASSUME Mail, NEW j \in Jobs, NEW a \in 1 .. Latest(j), NEW r \in Runs,
         inbox' = [inbox EXCEPT ![j][a].run = r], UNCHANGED <<receipt, scope, transcript>>
  PROVE  Mail' /\ Final /\ Binds(j, a, r)
<1> DEFINE x == inbox[j][a]
           p == [open |-> x.open, run |-> r, pending |-> x.pending]
<1>0. InboxType /\ a \in 1 .. Len(inbox[j])
  BY DEF Mail, Latest
<1>1. x \in Attempt
  BY <1>0, AttemptParts
<1>2. p \in Attempt
  BY <1>1 DEF Attempt
<1>3. [x EXCEPT !.run = r] = p
  <2> HIDE DEF x
  <2> QED BY <1>1 DEF Attempt
<1>4. inbox' = [inbox EXCEPT ![j] = [inbox[j] EXCEPT ![a] = [x EXCEPT !.run = r]]]
  BY <1>0 DEF InboxType
<1>5. inbox' = [inbox EXCEPT ![j] = [inbox[j] EXCEPT ![a] = p]]
  BY <1>3, <1>4, Zenon
<1>6. Changed(j, a, p)
  BY <1>0, <1>2, <1>5, InboxUpdate
<1>7. p.run = r /\ p.open = x.open /\ p.pending = x.pending
  OBVIOUS
<1> HIDE DEF p
<1>8. Binds(j, a, r)
  BY <1>6, <1>7 DEF Binds, Changed, Latest
<1>9. \A k \in Jobs : Latest(k)' = Latest(k) /\ Latest(k) \in Nat
  BY <1>0, <1>6 DEF Changed, Latest, InboxType
<1>10. SameInput
  BY <1>6, <1>7, <1>9 DEF SameInput, Changed, Latest
<1> QED BY <1>8, <1>10, SameInputMail

-----------------------------------------------------------------------------
(* The parts of an attempt's identity. *)
LEMMA RunParts ==
  ASSUME NEW r \in Runs
  PROVE  r[1] \in Jobs /\ r[2] \in 1 .. MaxAttempts /\ r = <<r[1], r[2]>>
BY DEF Runs

(* Mail is what MessageInOnePlace asks for. *)
LEMMA InOnePlace ==
  ASSUME Mail
  PROVE  MessageInOnePlace
<1>1. /\ InboxType /\ MailType /\ PendingAccepted /\ PendingOnce /\ AcceptedPends /\ TranscriptsOK
  BY DEF Mail
<1> SUFFICES ASSUME NEW m \in Messages
             PROVE  LET waiting == {r \in Runs : r[2] <= Latest(r[1]) /\ m \in PendingOf(r[1], r[2])}
                        written == {w \in Jobs \X (1 .. Cardinality(Messages)) :
                           w[2] <= Len(transcript[w[1]]) /\ transcript[w[1]][w[2]] = m}
                    IN /\ Cardinality(waiting) = IF receipt[m] = "Accepted" THEN 1 ELSE 0
                       /\ \A r \in waiting : inbox[r[1]][r[2]].open
                       /\ Cardinality(written) = IF receipt[m] = "IncludedInTurn" THEN 1 ELSE 0
  BY DEF MessageInOnePlace
<1> DEFINE waiting == {r \in Runs : r[2] <= Latest(r[1]) /\ m \in PendingOf(r[1], r[2])}
           written == {w \in Jobs \X (1 .. Cardinality(Messages)) :
                           w[2] <= Len(transcript[w[1]]) /\ transcript[w[1]][w[2]] = m}
<1>2. ASSUME NEW r \in waiting
      PROVE  \E i \in 1 .. Len(inbox[r[1]][r[2]].pending) : Waits(m, r[1], r[2], i)
  <2>1. r[1] \in Jobs /\ r[2] \in 1 .. MaxAttempts /\ r[2] <= Latest(r[1])
        /\ m \in PendingOf(r[1], r[2])
    BY RunParts
  <2>2. Latest(r[1]) \in Nat
    BY <1>1, <2>1 DEF InboxType, Latest
  <2>3. r[2] \in 1 .. Latest(r[1])
    BY <2>1, <2>2, AttemptsAssumption
  <2>4. inbox[r[1]][r[2]].pending \in Seq(Messages)
    BY <1>1, <2>1, <2>3, AttemptParts DEF Latest
  <2>5. \E i \in 1 .. Len(inbox[r[1]][r[2]].pending) : inbox[r[1]][r[2]].pending[i] = m
    BY <2>1, <2>4, Members DEF PendingOf
  <2> QED BY <2>1, <2>3, <2>5 DEF Waits
<1>3. ASSUME NEW j, NEW a, NEW i, Waits(m, j, a, i)
      PROVE  <<j, a>> \in waiting /\ inbox[j][a].open /\ receipt[m] = "Accepted"
  <2>1. j \in Jobs /\ a \in 1 .. Latest(j) /\ i \in 1 .. Len(inbox[j][a].pending)
        /\ inbox[j][a].pending[i] = m
    BY <1>3 DEF Waits
  <2>2. inbox[j][a].pending \in Seq(Messages)
    BY <2>1, <1>1, AttemptParts DEF Latest
  <2>3. m \in PendingOf(j, a)
    BY <2>1, <2>2, Members DEF PendingOf
  <2>4. Latest(j) \in Nat /\ Latest(j) <= MaxAttempts
    BY <2>1, <1>1 DEF InboxType, Latest
  <2>5. <<j, a>> \in Runs /\ a <= Latest(j)
    BY <2>1, <2>4, AttemptsAssumption DEF Runs
  <2>6. inbox[j][a].pending # << >>
    BY <2>1, <2>2
  <2>7. inbox[j][a].open /\ receipt[inbox[j][a].pending[i]] = "Accepted"
    BY <2>1, <2>6, <1>1 DEF PendingAccepted
  <2> QED BY <2>1, <2>3, <2>5, <2>7
<1>4. \A r \in waiting : inbox[r[1]][r[2]].open /\ receipt[m] = "Accepted"
  <2> HIDE DEF waiting
  <2> QED BY <1>2, <1>3
<1>5. \A r, q \in waiting : r = q
  <2> SUFFICES ASSUME NEW r \in waiting, NEW q \in waiting
               PROVE  r = q
    OBVIOUS
  <2>1. r \in Runs /\ q \in Runs
    OBVIOUS
  <2> HIDE DEF waiting
  <2>2. PICK i : Waits(m, r[1], r[2], i)
    BY <1>2
  <2>3. PICK l : Waits(m, q[1], q[2], l)
    BY <1>2
  <2>4. r[1] = q[1] /\ r[2] = q[2]
    BY <1>1, <2>2, <2>3, WaitsOnce
  <2> QED BY <2>1, <2>4, RunParts
<1>6. receipt[m] = "Accepted" => \E r : r \in waiting
  <2> SUFFICES ASSUME receipt[m] = "Accepted"
               PROVE  \E r : r \in waiting
    OBVIOUS
  <2>1. PICK j \in Jobs : \E a \in 1 .. Latest(j) : \E i \in 1 .. Len(inbox[j][a].pending) :
             inbox[j][a].pending[i] = m
    BY <1>1 DEF AcceptedPends
  <2>2. PICK a \in 1 .. Latest(j) : \E i \in 1 .. Len(inbox[j][a].pending) :
             inbox[j][a].pending[i] = m
    BY <2>1
  <2>3. PICK i \in 1 .. Len(inbox[j][a].pending) : inbox[j][a].pending[i] = m
    BY <2>2
  <2>4. Waits(m, j, a, i)
    BY <2>3 DEF Waits
  <2> HIDE DEF waiting
  <2> QED BY <2>4, <1>3
<1>7. Cardinality(waiting) = IF receipt[m] = "Accepted" THEN 1 ELSE 0
  <2> HIDE DEF waiting
  <2>1. CASE receipt[m] = "Accepted"
    <3>1. PICK r : r \in waiting
      BY <2>1, <1>6
    <3>2. waiting = {r}
      BY <3>1, <1>5
    <3> QED BY <2>1, <3>2, FS_Singleton
  <2>2. CASE receipt[m] # "Accepted"
    <3>1. waiting = {}
      BY <2>2, <1>4
    <3> QED BY <2>2, <3>1, FS_EmptySet
  <2> QED BY <2>1, <2>2
<1>8. ASSUME NEW w \in written
      PROVE  Stands(m, w[1], w[2]) /\ w = <<w[1], w[2]>> /\ receipt[m] = "IncludedInTurn"
  <2>1. /\ w[1] \in Jobs /\ w[2] \in 1 .. Cardinality(Messages) /\ w = <<w[1], w[2]>>
        /\ w[2] <= Len(transcript[w[1]]) /\ transcript[w[1]][w[2]] = m
    OBVIOUS
  <2>2. Len(transcript[w[1]]) \in Nat
    BY <2>1, <1>1 DEF MailType
  <2>3. w[2] \in 1 .. Len(transcript[w[1]])
    BY <2>1, <2>2, SubagentsAssumption, FS_CardinalityType
  <2>4. receipt[transcript[w[1]][w[2]]] = "IncludedInTurn"
    BY <2>1, <2>3, <1>1 DEF TranscriptsOK
  <2> QED BY <2>1, <2>3, <2>4 DEF Stands
<1>9. ASSUME NEW j, NEW i, Stands(m, j, i)
      PROVE  <<j, i>> \in written
  <2>1. j \in Jobs /\ i \in 1 .. Len(transcript[j]) /\ transcript[j][i] = m
    BY <1>9 DEF Stands
  <2>2. transcript[j] \in Seq(Messages) /\ Len(transcript[j]) \in Nat
    BY <2>1, <1>1 DEF MailType
  <2>3. Injective(transcript[j])
    <3> SUFFICES ASSUME NEW x \in 1 .. Len(transcript[j]), NEW y \in 1 .. Len(transcript[j]),
                        transcript[j][x] = transcript[j][y]
                 PROVE  x = y
      BY DEF Injective
    <3>1. Stands(transcript[j][x], j, x) /\ Stands(transcript[j][x], j, y)
      BY <2>1 DEF Stands
    <3> QED BY <3>1, <1>1, StandsOnce
  <2>4. /\ ToSet(transcript[j]) \in SUBSET Messages
        /\ Cardinality(ToSet(transcript[j])) = Len(transcript[j])
    BY <2>2, <2>3, InjectiveCount
  <2>5. Len(transcript[j]) <= Cardinality(Messages) /\ Cardinality(Messages) \in Nat
    BY <2>4, SubagentsAssumption, FS_Subset, FS_CardinalityType
  <2>6. i \in 1 .. Cardinality(Messages) /\ i <= Len(transcript[j])
    BY <2>1, <2>2, <2>5
  <2> QED BY <2>1, <2>6
<1>10. \A v, w \in written : v = w
  <2> HIDE DEF written
  <2> QED BY <1>1, <1>8, StandsOnce
<1>11. Cardinality(written) = IF receipt[m] = "IncludedInTurn" THEN 1 ELSE 0
  <2> HIDE DEF written
  <2>1. CASE receipt[m] = "IncludedInTurn"
    <3>1. PICK j \in Jobs : \E i \in 1 .. Len(transcript[j]) : transcript[j][i] = m
      BY <2>1, <1>1 DEF TranscriptsOK
    <3>2. PICK i \in 1 .. Len(transcript[j]) : transcript[j][i] = m
      BY <3>1
    <3>3. <<j, i>> \in written
      BY <3>2, <1>9 DEF Stands
    <3>4. written = {<<j, i>>}
      BY <3>3, <1>10
    <3> QED BY <2>1, <3>4, FS_Singleton
  <2>2. CASE receipt[m] # "IncludedInTurn"
    <3>1. written = {}
      BY <2>2, <1>8
    <3> QED BY <2>2, <3>1, FS_EmptySet
  <2> QED BY <2>1, <2>2
<1> QED BY <1>4, <1>7, <1>11

-----------------------------------------------------------------------------
(* What a run and a call are, by where they are. *)
LEMMA RunLive ==
  ASSUME RunType, NEW r \in Runs
  PROVE  /\ run[r] = Absent <=> run[r].pc = "absent"
         /\ run[r] # Absent => run[r] \in Run
<1>1. run[r] \in {Absent} \cup Run
  BY DEF RunType
<1>2. \A x \in Run : x.pc # "absent"
  BY DEF Run
<1>3. Absent.pc = "absent"
  BY DEF Absent
<1> QED BY <1>1, <1>2, <1>3

LEMMA CallLive ==
  ASSUME CallType, NEW t \in Threads
  PROVE  /\ call[t] = Idle <=> call[t].pc = "idle"
         /\ call[t] # Idle => call[t] \in Frame
<1>1. call[t] \in {Idle} \cup Frame
  BY DEF CallType
<1>2. \A x \in Frame : x.pc # "idle"
  BY DEF Frame
<1>3. Idle.pc = "idle"
  BY DEF Idle
<1> QED BY <1>1, <1>2, <1>3

(* The sets the drain keeps are finite. *)
LEMMA FiniteParts ==
  /\ IsFiniteSet(Runs)
  /\ \A S \in SUBSET Runs : IsFiniteSet(S) /\ Cardinality(S) \in Nat
  /\ \A S \in SUBSET Jobs : IsFiniteSet(S) /\ Cardinality(S) \in Nat
  /\ \A S \in SUBSET Callers : IsFiniteSet(S) /\ Cardinality(S) \in Nat
<1>1. IsFiniteSet(1 .. MaxAttempts)
  BY AttemptsAssumption, FS_Interval
<1>2. IsFiniteSet(Jobs \X (1 .. MaxAttempts))
  BY <1>1, SubagentsAssumption, FS_Product
<1>3. IsFiniteSet(Runs)
  BY <1>2 DEF Runs
<1>4. ASSUME NEW T, IsFiniteSet(T), NEW S \in SUBSET T
      PROVE  IsFiniteSet(S) /\ Cardinality(S) \in Nat
  BY <1>4, FS_Subset, FS_CardinalityType
<1> QED BY <1>3, <1>4, SubagentsAssumption

(* Attempts are added at most, and no binding changes. *)
Grows ==
    /\ \A k \in Jobs : Latest(k) <= Latest(k)'
    /\ \A k \in Jobs : \A b \in 1 .. Latest(k) : inbox'[k][b].run = inbox[k][b].run
    /\ \A k \in Jobs : \A b \in 1 .. Latest(k)' :
          b \notin 1 .. Latest(k) => inbox'[k][b].run = NoRun

AttemptsLast == \A k \in Jobs : Latest(k) <= Latest(k)'

JobsLast == \A j \in Jobs : job[j].status # "None" => job'[j].status # "None"

LEMMA LatestType ==
  ASSUME InboxType
  PROVE  \A k \in Jobs : Latest(k) \in Nat /\ Latest(k) <= MaxAttempts
BY DEF InboxType, Latest

LEMMA SameShapeGrows ==
  ASSUME InboxType, SameShape
  PROVE  Grows /\ \A k \in Jobs : Latest(k)' = Latest(k)
<1>1. \A k \in Jobs : Latest(k) \in Nat
  BY LatestType
<1>2. \A k \in Jobs : Latest(k)' = Latest(k)
  BY DEF SameShape, Latest
<1> QED BY <1>1, <1>2 DEF SameShape, Grows, Latest

LEMMA RegistersGrows ==
  ASSUME InboxType, NEW j \in Jobs, Registers(j)
  PROVE  Grows
<1>1. \A k \in Jobs : Latest(k) \in Nat
  BY LatestType
<1>2. \A k \in Jobs : Latest(k) <= Latest(k)'
  BY <1>1 DEF Registers
<1>3. ASSUME NEW k \in Jobs, NEW b \in 1 .. Latest(k)', b \notin 1 .. Latest(k)
      PROVE  inbox'[k][b].run = NoRun
  <2>1. k = j /\ b = Latest(j) + 1
    BY <1>1, <1>3 DEF Registers
  <2> QED BY <2>1 DEF Registers, Fresh
<1> QED BY <1>2, <1>3 DEF Registers, Grows

(* An attempt stays bound, or not bound, to a run. *)
LEMMA BoundKept ==
  ASSUME InboxType, InboxType', Grows, NEW r \in Runs
  PROVE  IsBound(r)' <=> IsBound(r)
<1> DEFINE j == r[1]
<1>1. j \in Jobs /\ r # NoRun
  BY RunParts, AttemptsAssumption
<1>2. Latest(j) \in Nat /\ Latest(j)' \in Nat /\ Latest(j) <= Latest(j)'
  BY <1>1 DEF InboxType, Latest, Grows
<1>3. \A b \in 1 .. Latest(j) : b \in 1 .. Latest(j)' /\ inbox'[j][b].run = inbox[j][b].run
  BY <1>1, <1>2 DEF Grows
<1>4. \A b \in 1 .. Latest(j)' : inbox'[j][b].run = r => b \in 1 .. Latest(j)
  BY <1>1 DEF Grows
<1>5. IsBound(r) <=> \E a \in 1 .. Latest(j) : inbox[j][a].run = r
  BY DEF IsBound
<1>6. IsBound(r)' <=> \E a \in 1 .. Latest(j)' : inbox'[j][a].run = r
  BY DEF IsBound
<1> QED BY <1>3, <1>4, <1>5, <1>6

LEMMA RunKept ==
  ASSUME RunType, InboxType, InboxType', Grows, NEW r \in Runs, RunOK(r), run'[r] = run[r]
  PROVE  RunOK(r)'
<1>1. SUFFICES ASSUME run[r] # Absent
               PROVE  RunOK(r)'
  BY DEF RunOK
<1>2. r[1] \in Jobs /\ r[2] \in 1 .. MaxAttempts
  BY RunParts
<1>3. Latest(r[1]) \in Nat /\ Latest(r[1])' \in Nat /\ Latest(r[1]) <= Latest(r[1])'
  BY <1>2 DEF InboxType, Latest, Grows
<1>4. r[2] <= Latest(r[1])'
  BY <1>1, <1>2, <1>3, AttemptsAssumption DEF RunOK
<1>5. run[r].pc \in Bound \cup {"binding"} =>
        run[r].at \in 1 .. Latest(r[1]) /\ run[r].at \in 1 .. Latest(r[1])'
  BY <1>1, <1>3 DEF RunOK
<1>6. run[r].pc \in Bound => inbox'[r[1]][run[r].at].run = r
  BY <1>1, <1>2, <1>5 DEF RunOK, Grows
<1>7. run[r].pc \in {"begin", "binding"} => ~ IsBound(r)'
  BY <1>1, BoundKept DEF RunOK
<1>8. run[r].pc = "binding" => run[r].seen.run = NoRun
  BY <1>1 DEF RunOK
<1> QED BY <1>4, <1>5, <1>6, <1>7, <1>8 DEF RunOK

LEMMA BindingsKept ==
  ASSUME InboxType, InboxType', Grows, BindingsOK
  PROVE  BindingsOK'
<1> SUFFICES ASSUME NEW j \in Jobs, NEW a \in 1 .. Latest(j)', inbox'[j][a].run # NoRun
             PROVE  inbox'[j][a].run \in Registered'
  BY Zenon DEF BindingsOK
<1>1. a \in 1 .. Latest(j) /\ inbox'[j][a].run = inbox[j][a].run
  BY DEF Grows
<1>2. PICK r : r = inbox[j][a].run
  OBVIOUS
<1>3. r \in Runs /\ r[2] <= Latest(r[1])
  BY <1>1, <1>2 DEF BindingsOK, Registered
<1>4. r[1] \in Jobs /\ r[2] \in 1 .. MaxAttempts
  BY <1>3, RunParts
<1>5. Latest(r[1]) \in Nat /\ Latest(r[1])' \in Nat /\ Latest(r[1]) <= Latest(r[1])'
  BY <1>4 DEF InboxType, Latest, Grows
<1>6. r[2] <= Latest(r[1])'
  BY <1>3, <1>4, <1>5, AttemptsAssumption
<1>7. r \in Registered'
  BY <1>3, <1>6 DEF Registered
<1> QED BY <1>1, <1>2, <1>7

LEMMA CallKept ==
  ASSUME CallType, InboxType, InboxType', AttemptsLast, JobsLast,
         NEW t \in Threads, CallOK(t), call'[t] = call[t]
  PROVE  CallOK(t)'
<1>1. SUFFICES ASSUME call[t] # Idle
               PROVE  CallOK(t)'
  BY DEF CallOK
<1>2. call[t].job \in Jobs
  BY <1>1, CallLive DEF Frame
<1>3. PICK j \in Jobs : j = call[t].job
  BY <1>2
<1>4. Latest(j) \in Nat /\ Latest(j)' \in Nat /\ Latest(j) <= Latest(j)'
  BY DEF InboxType, Latest, AttemptsLast
<1>5. \A n : n \in 1 .. Latest(j) => n \in 1 .. Latest(j)'
  BY <1>4
<1>6. job'[j].status # "None"
  BY <1>1, <1>3 DEF CallOK, JobsLast
<1> QED BY <1>1, <1>3, <1>5, <1>6 DEF CallOK

(* The attempts and the requeues to come stay within the bound. *)
LEMMA BoundedKept ==
  ASSUME InboxType, ProcessType, AttemptsBounded, Requeuing' \subseteq Requeuing,
         budget'.requeues = budget.requeues, \A j \in Jobs : Latest(j)' = Latest(j)
  PROVE  AttemptsBounded'
<1>1. Cardinality(Requeuing') <= Cardinality(Requeuing) /\ Cardinality(Requeuing') \in Nat
      /\ Cardinality(Requeuing) \in Nat
  <2>1. Requeuing \in SUBSET Callers
    BY DEF Requeuing
  <2>2. IsFiniteSet(Requeuing)
    BY <2>1, FiniteParts
  <2> QED BY <2>1, <2>2, FiniteParts, FS_Subset
<1>2. budget.requeues \in Nat
  BY DEF ProcessType
<1>3. \A j \in Jobs : Latest(j) \in Nat
  BY LatestType
<1>4. Cardinality(Requeuing)' = Cardinality(Requeuing')
  OBVIOUS
<1> QED BY <1>1, <1>2, <1>3, <1>4, AttemptsAssumption DEF AttemptsBounded

LEMMA SpawnedKept ==
  ASSUME InboxType, InboxType', Grows, RunType, CallType, RunsOK, BindingsOK, SpawnedOnce, CallsOK, JobsOK,
         \A j \in Jobs : job'[j].status = "Queued" =>
            \/ job[j].status = "Queued" /\ Latest(j)' = Latest(j)
            \/ Latest(j)' = Latest(j) + 1,
         \A r \in Runs : run[r] = Absent => run'[r] = Absent,
         call'[Drain].pc = "prepare" => call'[Drain] = call[Drain]
  PROVE  SpawnedOnce'
<1>1. \A j \in Jobs : Latest(j) \in Nat /\ Latest(j)' \in Nat /\ Latest(j)' <= MaxAttempts
  BY DEF InboxType, Latest
<1>2. ASSUME NEW r \in Runs, Unspawned(r)
      PROVE  Unspawned(r)'
  BY <1>2, BoundKept DEF Unspawned
<1>3. ASSUME NEW j \in Jobs, job'[j].status = "Queued"
      PROVE  Unspawned(<<j, Latest(j)>>)'
  <2>0. PICK r : r = <<j, Latest(j)'>>
    OBVIOUS
  <2>1. CASE job[j].status = "Queued" /\ Latest(j)' = Latest(j)
    <3>1. Unspawned(r)
      BY <2>0, <2>1 DEF SpawnedOnce
    <3>2. Latest(j) # 0
      BY <2>1 DEF JobsOK
    <3>3. r \in Runs
      BY <2>0, <2>1, <3>2, <1>1, AttemptsAssumption DEF Runs
    <3> QED BY <2>0, <3>1, <3>3, <1>2
  <2>2. CASE Latest(j)' = Latest(j) + 1
    <3>1. r \in Runs /\ ~ (r[2] <= Latest(r[1])) /\ r[1] = j
      BY <2>0, <2>2, <1>1, AttemptsAssumption DEF Runs
    <3>2. run[r] = Absent
      BY <3>1 DEF RunsOK, RunOK
    <3>3. ~ IsBound(r)
      <4> SUFFICES ASSUME NEW a \in 1 .. Latest(j), inbox[j][a].run = r
                   PROVE  FALSE
        BY <3>1 DEF IsBound
      <4>1. r # NoRun
        BY <3>1, AttemptsAssumption
      <4> QED BY <4>1, <3>1 DEF BindingsOK, Registered
    <3>4. Unspawned(r)
      BY <3>2, <3>3 DEF Unspawned
    <3> QED BY <2>0, <3>1, <3>4, <1>2
  <2> QED BY <1>3, <2>1, <2>2
<1>4. ASSUME call'[Drain].pc = "prepare"
      PROVE  /\ Unspawned(<<call[Drain].job, call[Drain].at>>)'
             /\ job'[call'[Drain].job].status = "Queued" => call'[Drain].at # Len(inbox'[call'[Drain].job])
  <2>1. call'[Drain] = call[Drain] /\ Drain \in Threads
    BY <1>4 DEF Threads
  <2>2. call[Drain] # Idle /\ call[Drain] \in Frame
    BY <2>1, <1>4, CallLive
  <2>3. PICK j \in Jobs : j = call[Drain].job
    BY <2>2 DEF Frame
  <2>4. PICK a \in 1 .. Latest(j) : a = call[Drain].at
    BY <2>1, <2>2, <2>3, <1>4 DEF CallsOK, CallOK
  <2>5. <<j, a>> \in Runs
    BY <1>1, AttemptsAssumption, LatestType DEF Runs
  <2>6. Unspawned(<<j, a>>)
    BY <2>1, <2>3, <2>4, <1>4 DEF SpawnedOnce
  <2>7. Unspawned(<<j, a>>)'
    BY <2>5, <2>6, <1>2
  <2>8. job[j].status = "Queued" => a # Latest(j)
    BY <2>1, <2>3, <2>4, <1>4 DEF SpawnedOnce
  <2>9. job'[j].status = "Queued" => a # Latest(j)'
    BY <2>8, <1>1
  <2> QED BY <2>1, <2>3, <2>4, <2>7, <2>9 DEF Latest
<1> QED BY <1>3, <1>4 DEF SpawnedOnce, Latest

-----------------------------------------------------------------------------
(* Steps of one child run. *)

(* Only the run r moves, and neither attempts nor bindings change. *)
OnlyRun(r) ==
    /\ RunType'
    /\ \A q \in Runs : q # r => run'[q] = run[q]
    /\ UNCHANGED <<job, drain, call, process, budget>>

LEMMA RunMoves ==
  ASSUME Inductive, NEW r \in Runs, run[r] # Absent, OnlyRun(r), InboxType', SameShape,
         ~ run[r].aborted => run'[r] # Absent /\ ~ run'[r].aborted,
         RunOK(r)'
  PROVE  Types' /\ Shape'
<1>1. Types /\ Shape /\ InboxType /\ Grows /\ \A k \in Jobs : Latest(k)' = Latest(k)
  BY SameShapeGrows DEF Inductive, Mail
<1>2. Types'
  BY <1>1 DEF Types, OnlyRun, DrainType, CallType, JobType, ProcessType
<1>3. JobsOK'
  BY <1>1 DEF Shape, JobsOK, OnlyRun
<1>4. CallsOK'
  <2>1. \A t \in Threads : CallOK(t)
    BY <1>1 DEF Shape, CallsOK
  <2>2. JobsLast /\ AttemptsLast
    BY <1>1 DEF OnlyRun, JobsLast, AttemptsLast, Grows
  <2>3. \A t \in Threads : CallOK(t)'
    BY <2>1, <2>2, <1>1, CallKept DEF Types, OnlyRun
  <2> QED BY <2>3 DEF CallsOK
<1>5. AttemptsBounded'
  <2>1. Requeuing' = Requeuing /\ budget'.requeues = budget.requeues
    BY DEF Requeuing, OnlyRun
  <2> QED BY <2>1, <1>1, BoundedKept DEF Types, Shape
<1>6. DrainOK'
  BY <1>1 DEF Shape, DrainOK, OnlyRun, Types, DrainType
<1>7. RunsOK'
  <2>1. ASSUME NEW q \in Runs, q # r
        PROVE  RunOK(q)'
    <3>1. RunOK(q) /\ run'[q] = run[q]
      BY <2>1, <1>1 DEF Shape, RunsOK, OnlyRun
    <3> QED BY <3>1, <1>1, RunKept DEF Types
  <2> QED BY <2>1 DEF RunsOK
<1>8. BindingsOK'
  BY <1>1, BindingsKept DEF Shape
<1>9. SpawnedOnce'
  <2>1. \A q \in Runs : run[q] = Absent => run'[q] = Absent
    BY DEF OnlyRun
  <2>2. job' = job /\ call' = call
    BY DEF OnlyRun
  <2> QED BY <2>1, <2>2, <1>1, SpawnedKept DEF Types, Shape
<1> QED BY <1>2, <1>3, <1>4, <1>5, <1>6, <1>7, <1>8, <1>9 DEF Shape

(* A run that goes on works on the attempt it is bound to. *)
LEMMA RunStays ==
  ASSUME Inductive, NEW r \in Runs, run[r].pc \in Bound, OnlyRun(r), InboxType', SameShape,
         run'[r].pc \in Bound, run'[r].at = run[r].at, run'[r].aborted = run[r].aborted
  PROVE  Types' /\ Shape'
<1>1. RunType /\ RunType' /\ RunOK(r) /\ InboxType
  BY DEF Inductive, Types, Shape, RunsOK, Mail, OnlyRun
<1>2. run[r] # Absent /\ run'[r] # Absent
  BY <1>1, RunLive DEF Bound, Absent
<1>3. Grows
  BY <1>1, SameShapeGrows
<1>4. Latest(r[1])' = Latest(r[1])
  BY <1>1, SameShapeGrows, RunParts
<1>5. RunOK(r)'
  <2>1. run[r].at \in 1 .. Latest(r[1]) /\ inbox[r[1]][run[r].at].run = r /\ r[2] <= Latest(r[1])
    BY <1>1, <1>2 DEF RunOK
  <2>2. inbox'[r[1]][run[r].at].run = r
    BY <2>1, <1>3, RunParts DEF Grows
  <2>3. run'[r].pc \notin {"begin", "binding"}
    BY DEF Bound
  <2> QED BY <2>1, <2>2, <2>3, <1>4 DEF RunOK
<1> QED BY <1>2, <1>5, RunMoves

LEMMA FreshParts ==
  /\ Fresh \in Attempt
  /\ \A pc \in {"begin", "ok", "err"} :
       Ended(pc) \in Run /\ Ended(pc).pc = pc /\ ~ Ended(pc).aborted /\ Ended(pc) # Absent
<1>1. Fresh \in Attempt
  BY DEF Fresh, Attempt
<1>2. 0 \in 0 .. MaxAttempts /\ 0 \in 0 .. MaxTurns
  BY AttemptsAssumption, SubagentsAssumption
<1>3. ASSUME NEW pc \in {"begin", "ok", "err"}
      PROVE  Ended(pc) \in Run /\ Ended(pc).pc = pc /\ ~ Ended(pc).aborted
  BY <1>1, <1>2 DEF Ended, Run
<1>4. \A x \in Run : x # Absent
  BY DEF Run, Absent
<1> QED BY <1>1, <1>3, <1>4

(* A run that has returned works on nothing. *)
LEMMA RunReturns ==
  ASSUME Inductive, NEW r \in Runs, run[r] # Absent, NEW pc \in {"ok", "err"}, Returns(r, pc),
         UNCHANGED <<job, drain, call, process, budget>>, InboxType', SameShape
  PROVE  Types' /\ Shape'
<1>1. RunType /\ RunOK(r) /\ InboxType
  BY DEF Inductive, Types, Shape, RunsOK, Mail
<1>2. PICK e : e = Ended(pc)
  OBVIOUS
<1>3. e \in Run /\ e.pc = pc /\ ~ e.aborted /\ e # Absent
  BY <1>2, FreshParts
<1>4. run' = [run EXCEPT ![r] = e]
  BY <1>2 DEF Returns
<1>5. OnlyRun(r) /\ run'[r] = e
  BY <1>1, <1>3, <1>4 DEF OnlyRun, RunType
<1>6. Latest(r[1])' = Latest(r[1])
  BY <1>1, SameShapeGrows, RunParts
<1>7. RunOK(r)'
  BY <1>1, <1>3, <1>5, <1>6 DEF RunOK, Bound
<1> QED BY <1>3, <1>5, <1>7, RunMoves

(* close_run closes the inbox the run is bound to. *)
LEMMA CloseRunMail ==
  ASSUME Inductive, NEW r \in Runs, run[r].pc \in Live, CloseRun(r), UNCHANGED transcript
  PROVE  Mail' /\ Final /\ SameShape
<1>1. RunType /\ RunOK(r) /\ Mail
  BY DEF Inductive, Types, Shape, RunsOK
<1>2. run[r] # Absent
  BY <1>1, RunLive DEF Live
<1>3. CASE IsBound(r)
  <2>1. run[r].at \in 1 .. Latest(r[1])
    BY <1>1, <1>2, <1>3 DEF RunOK, Bound, Live
  <2>2. Close(r[1], run[r].at)
    BY <1>3 DEF CloseRun, IsBound
  <2>3. r[1] \in Jobs
    BY RunParts
  <2> QED BY <1>1, <2>1, <2>2, <2>3, CloseMail
<1>4. CASE ~ IsBound(r)
  <2>1. UNCHANGED <<inbox, receipt, scope>>
    BY <1>4 DEF CloseRun, IsBound
  <2> QED BY <2>1, <1>1, KeepMail
<1> QED BY <1>3, <1>4

LEMMA BeginReadStep ==
  ASSUME Inductive, NEW r \in Runs, BeginRead(r)
  PROVE  Inductive' /\ Final
<1> DEFINE j == r[1]
           a == Latest(j)
<1>1. RunType /\ RunOK(r) /\ InboxType /\ Mail
  BY DEF Inductive, Types, Shape, RunsOK, Mail
<1>2. /\ run[r].pc = "begin"
      /\ UNCHANGED <<inbox, receipt, transcript, scope>>
      /\ UNCHANGED <<job, drain, call, process, budget>>
  BY DEF BeginRead
<1>3. run[r] # Absent /\ run[r] \in Run
  BY <1>1, <1>2, RunLive
<1>4. Mail' /\ Final /\ SameShape
  BY <1>1, <1>2, KeepMail
<1>5. InboxType' /\ j \in Jobs /\ Latest(j)' = Latest(j)
  BY <1>2, <1>4, RunParts DEF Mail, Latest
<1>6. a \in 1 .. Latest(j) /\ a \in 0 .. MaxAttempts
  <2>1. Latest(j) \in Nat /\ Latest(j) <= MaxAttempts /\ r[2] \in 1 .. MaxAttempts
    BY <1>1, <1>5, LatestType, RunParts
  <2>2. r[2] <= Latest(j)
    BY <1>1, <1>3 DEF RunOK
  <2> QED BY <2>1, <2>2, AttemptsAssumption
<1>7. CASE inbox[j][a].open /\ inbox[j][a].run = NoRun
  <2>1. PICK p : p = inbox[j][a]
    OBVIOUS
  <2>2. p \in Attempt
    BY <2>1, <1>1, <1>5, <1>6, AttemptParts DEF Latest
  <2>3. PICK n : n = a
    OBVIOUS
  <2>4. run' = [run EXCEPT ![r].pc = "binding", ![r].at = n, ![r].seen = p]
    BY <1>7, <2>1, <2>3 DEF BeginRead
  <2>5. n \in 0 .. MaxAttempts
    BY <2>3, <1>6
  <2>6. /\ RunType' /\ run'[r] \in Run
        /\ run'[r].pc = "binding" /\ run'[r].at = n /\ run'[r].seen = p
        /\ run'[r].aborted = run[r].aborted
        /\ \A q \in Runs : q # r => run'[q] = run[q]
    BY <2>2, <2>4, <2>5, <1>1, <1>3 DEF RunType, Run
  <2>7. run'[r] # Absent
    BY <2>6 DEF Absent
  <2>8. ~ IsBound(r)'
    <3>1. ~ IsBound(r)
      BY <1>1, <1>2, <1>3 DEF RunOK
    <3> QED BY <3>1, <1>1, <1>4, <1>5, BoundKept, SameShapeGrows
  <2>9. RunOK(r)'
    <3>1. r[2] <= Latest(j)' /\ n \in 1 .. Latest(j)' /\ p.run = NoRun
      BY <1>1, <1>3, <1>5, <1>6, <1>7, <2>1, <2>3 DEF RunOK
    <3> QED BY <3>1, <2>6, <2>8 DEF RunOK, Bound
  <2>10. OnlyRun(r)
    BY <2>6, <1>2 DEF OnlyRun
  <2> QED BY <2>6, <2>7, <2>9, <2>10, <1>3, <1>4, <1>5, RunMoves DEF Inductive
<1>8. CASE ~ (inbox[j][a].open /\ inbox[j][a].run = NoRun)
  <2>1. Returns(r, "err")
    BY <1>8 DEF BeginRead, Returns
  <2>2. Types' /\ Shape'
    BY <2>1, <1>2, <1>3, <1>4, <1>5, RunReturns
  <2> QED BY <2>2, <1>4 DEF Inductive
<1> QED BY <1>7, <1>8

LEMMA PrepareInputStep ==
  ASSUME Inductive, NEW r \in Runs, PrepareInput(r)
  PROVE  Inductive' /\ Final
<1>1. RunType /\ RunOK(r) /\ InboxType /\ Mail
  BY DEF Inductive, Types, Shape, RunsOK, Mail
<1>2. /\ run[r].pc = "turn"
      /\ UNCHANGED <<inbox, receipt, transcript, scope>>
      /\ UNCHANGED <<job, drain, call, process, budget>>
  BY DEF PrepareInput
<1>3. run[r] # Absent /\ run[r] \in Run
  BY <1>1, <1>2, RunLive
<1>4. Mail' /\ Final /\ SameShape /\ InboxType'
  BY <1>1, <1>2, KeepMail DEF Mail
<1>5. PICK p : p = inbox[r[1]][run[r].at]
  OBVIOUS
<1>6. p \in Attempt
  <2>1. run[r].at \in 1 .. Latest(r[1])
    BY <1>1, <1>2, <1>3 DEF RunOK, Bound
  <2> QED BY <2>1, <1>1, <1>5, AttemptParts, RunParts DEF Latest
<1>7. /\ RunType' /\ run'[r].pc \in {"including", "model"} /\ run'[r].at = run[r].at
      /\ run'[r].aborted = run[r].aborted
      /\ \A q \in Runs : q # r => run'[q] = run[q]
  <2>1. CASE p.open /\ p.pending # << >>
    <3>1. run' = [run EXCEPT ![r].pc = "including", ![r].seen = p]
      BY <2>1, <1>5 DEF PrepareInput
    <3> QED BY <3>1, <1>1, <1>3, <1>6 DEF RunType, Run
  <2>2. CASE ~ (p.open /\ p.pending # << >>)
    <3>1. run' = [run EXCEPT ![r].pc = "model"]
      BY <2>2, <1>5 DEF PrepareInput
    <3> QED BY <3>1, <1>1, <1>3 DEF RunType, Run
  <2> QED BY <2>1, <2>2
<1>8. OnlyRun(r) /\ run[r].pc \in Bound /\ run'[r].pc \in Bound
  BY <1>2, <1>7 DEF OnlyRun, Bound
<1>9. Types' /\ Shape'
  BY <1>4, <1>7, <1>8, RunStays
<1> QED BY <1>4, <1>9 DEF Inductive

(* The run stops at the next place of its turn. *)
LEMMA RunGoes ==
  ASSUME Inductive, NEW r \in Runs, run[r].pc \in Bound, NEW pc \in Bound, Goes(r, pc),
         UNCHANGED <<job, drain, call, process, budget>>, InboxType', SameShape
  PROVE  Types' /\ Shape'
<1>1. RunType
  BY DEF Inductive, Types
<1>2. run[r] \in Run
  BY <1>1, RunLive DEF Bound
<1>3. PICK p \in Attempt : p = Fresh
  BY FreshParts
<1>4. run' = [run EXCEPT ![r].pc = pc, ![r].seen = p]
  BY <1>3 DEF Goes
<1>5. pc \in {"begin", "binding", "turn", "including", "model", "ending", "ok", "err"}
  BY DEF Bound
<1>6. /\ RunType' /\ run'[r].pc = pc /\ run'[r].at = run[r].at
      /\ run'[r].aborted = run[r].aborted
      /\ \A q \in Runs : q # r => run'[q] = run[q]
  BY <1>1, <1>2, <1>4, <1>5 DEF RunType, Run
<1>7. OnlyRun(r)
  BY <1>6 DEF OnlyRun
<1> QED BY <1>6, <1>7, RunStays

LEMMA IncludeStep ==
  ASSUME Inductive, NEW r \in Runs, Include(r)
  PROVE  Inductive' /\ Final
<1> DEFINE j == r[1]
           a == run[r].at
           s == run[r].seen.pending
           n == IF Len(s) < BatchLimit THEN Len(s) ELSE BatchLimit
<1>1. RunType /\ RunOK(r) /\ InboxType /\ Mail
  BY DEF Inductive, Types, Shape, RunsOK, Mail
<1>2. run[r].pc = "including" /\ UNCHANGED <<job, drain, call, process, budget>>
  BY DEF Include
<1>3. run[r] # Absent /\ run[r] \in Run /\ run[r].pc \in Bound
  BY <1>1, <1>2, RunLive DEF Bound
<1>4. a \in 1 .. Latest(j) /\ j \in Jobs
  BY <1>1, <1>3, RunParts DEF RunOK
<1>5. CASE BatchCurrent(r)
  <2>1. PICK b : b = Batch(run[r].seen)
    OBVIOUS
  <2>2. inbox[j][a].pending = s
    BY <1>5 DEF BatchCurrent
  <2>3. s \in Seq(Messages) /\ Len(s) \in Nat
    BY <2>2, <1>1, <1>4, AttemptParts DEF Latest
  <2>4. n \in 0 .. Len(s)
    BY <2>3, SubagentsAssumption
  <2>5. b = SubSeq(inbox[j][a].pending, 1, n)
    BY <2>1, <2>2 DEF Batch
  <2>6. Included(j, a, b) /\ Goes(r, "model")
    BY <1>5, <2>1 DEF Include, Included
  <2>7. n \in 0 .. Len(inbox[j][a].pending)
    BY <2>2, <2>4
  <2> HIDE DEF n
  <2>8. Mail' /\ Final /\ SameShape
    BY <2>5, <2>6, <2>7, <1>1, <1>4, IncludeMail
  <2>9. Types' /\ Shape'
    BY <2>6, <2>8, <1>2, <1>3, RunGoes DEF Mail, Bound
  <2> QED BY <2>8, <2>9 DEF Inductive
<1>6. CASE ~ BatchCurrent(r)
  <2>1. Goes(r, "turn") /\ UNCHANGED <<inbox, receipt, transcript, scope>>
    BY <1>6 DEF Include
  <2>2. Mail' /\ Final /\ SameShape
    BY <2>1, <1>1, KeepMail
  <2>3. Types' /\ Shape'
    BY <2>1, <2>2, <1>2, <1>3, RunGoes DEF Mail, Bound
  <2> QED BY <2>2, <2>3 DEF Inductive
<1> QED BY <1>5, <1>6

(* Another turn. *)
LEMMA NextTurn ==
  ASSUME Inductive, NEW r \in Runs, run[r].pc = "model", run[r].turn < MaxTurns,
         run' = [run EXCEPT ![r].pc = "turn", ![r].turn = @ + 1],
         UNCHANGED <<inbox, receipt, transcript, scope>>,
         UNCHANGED <<job, drain, call, process, budget>>
  PROVE  Inductive' /\ Final
<1>1. RunType /\ Mail
  BY DEF Inductive, Types
<1>2. run[r] \in Run
  BY <1>1, RunLive
<1>3. Mail' /\ Final /\ SameShape /\ InboxType'
  BY <1>1, KeepMail DEF Mail
<1>4. run[r].turn + 1 \in 0 .. MaxTurns
  BY <1>2, SubagentsAssumption DEF Run
<1>5. PICK n \in 0 .. MaxTurns : n = run[r].turn + 1
  BY <1>4
<1>6. run' = [run EXCEPT ![r].pc = "turn", ![r].turn = n]
  BY <1>1, <1>5 DEF RunType
<1>7. /\ RunType' /\ run'[r].pc = "turn" /\ run'[r].at = run[r].at
      /\ run'[r].aborted = run[r].aborted
      /\ \A q \in Runs : q # r => run'[q] = run[q]
  BY <1>1, <1>2, <1>6 DEF RunType, Run
<1>8. OnlyRun(r)
  BY <1>7 DEF OnlyRun
<1>9. Types' /\ Shape'
  BY <1>3, <1>7, <1>8, RunStays DEF Bound
<1> QED BY <1>3, <1>9 DEF Inductive

LEMMA AnswerStep ==
  ASSUME Inductive, NEW r \in Runs, Answer(r)
  PROVE  Inductive' /\ Final
<1>1. RunType /\ RunOK(r) /\ Mail
  BY DEF Inductive, Types, Shape, RunsOK
<1>2. /\ run[r].pc = "model" /\ transcript' = transcript
      /\ UNCHANGED <<job, drain, call, process, budget>>
  BY DEF Answer
<1>3. run[r] # Absent /\ run[r].pc \in Bound
  BY <1>1, <1>2, RunLive DEF Bound
<1>4. run[r].at \in 1 .. Latest(r[1]) /\ r[1] \in Jobs
  BY <1>1, <1>3, RunParts DEF RunOK
<1>5. CASE /\ run[r].turn < MaxTurns
           /\ run' = [run EXCEPT ![r].pc = "turn", ![r].turn = @ + 1]
           /\ UNCHANGED <<inbox, receipt, scope>>
  BY <1>2, <1>5, NextTurn
<1>6. CASE Close(r[1], run[r].at) /\ Goes(r, "ending")
  <2>1. Mail' /\ Final /\ SameShape
    BY <1>1, <1>2, <1>4, <1>6, CloseMail
  <2>2. Types' /\ Shape'
    BY <2>1, <1>2, <1>3, <1>6, RunGoes DEF Mail, Bound
  <2> QED BY <2>1, <2>2 DEF Inductive
<1> QED BY <1>5, <1>6 DEF Answer

LEMMA EndsStep ==
  ASSUME Inductive, NEW r \in Runs, Ends(r)
  PROVE  Inductive' /\ Final
<1>1. RunType /\ Mail
  BY DEF Inductive, Types
<1>2. /\ run[r].pc = "ending" /\ Returns(r, "ok")
      /\ UNCHANGED <<inbox, receipt, transcript, scope>>
      /\ UNCHANGED <<job, drain, call, process, budget>>
  BY DEF Ends
<1>3. Mail' /\ Final /\ SameShape
  BY <1>1, <1>2, KeepMail
<1>4. run[r] # Absent
  BY <1>1, <1>2, RunLive
<1>5. Types' /\ Shape'
  BY <1>2, <1>3, <1>4, RunReturns DEF Mail
<1> QED BY <1>3, <1>5 DEF Inductive

LEMMA RunFailsStep ==
  ASSUME Inductive, NEW r \in Runs, RunFails(r)
  PROVE  Inductive' /\ Final
<1>1. RunType
  BY DEF Inductive, Types
<1>2. /\ run[r].pc \in Live /\ Returns(r, "err") /\ CloseRun(r) /\ transcript' = transcript
      /\ UNCHANGED <<job, drain, call, process, budget>>
  BY DEF RunFails
<1>3. Mail' /\ Final /\ SameShape
  BY <1>2, CloseRunMail
<1>4. run[r] # Absent
  BY <1>1, <1>2, RunLive DEF Live
<1>5. Types' /\ Shape'
  BY <1>2, <1>3, <1>4, RunReturns DEF Mail
<1> QED BY <1>3, <1>5 DEF Inductive

LEMMA AbortedStep ==
  ASSUME Inductive, NEW r \in Runs, Aborted(r)
  PROVE  Inductive' /\ Final
<1>1. RunType
  BY DEF Inductive, Types
<1>2. /\ run[r].pc \in Live /\ run[r].aborted /\ CloseRun(r) /\ transcript' = transcript
      /\ run' = [run EXCEPT ![r] = Absent]
      /\ UNCHANGED <<job, drain, call, process, budget>>
  BY DEF Aborted
<1>3. Mail' /\ Final /\ SameShape
  BY <1>2, CloseRunMail
<1>4. run[r] # Absent
  BY <1>1, <1>2, RunLive DEF Live
<1>5. OnlyRun(r) /\ run'[r] = Absent
  BY <1>1, <1>2 DEF OnlyRun, RunType
<1>6. RunOK(r)'
  BY <1>5 DEF RunOK
<1>7. Types' /\ Shape'
  BY <1>2, <1>3, <1>4, <1>5, <1>6, RunMoves DEF Mail
<1> QED BY <1>3, <1>7 DEF Inductive

(* A run is bound to an attempt that was bound to none. *)
LEMMA BindShape ==
  ASSUME Inductive, NEW r \in Runs, NEW a \in 1 .. Latest(r[1]), run[r].pc = "binding", run[r].at = a,
         inbox[r[1]][a].run = NoRun, Binds(r[1], a, r), InboxType',
         OnlyRun(r), run'[r].pc = "turn", run'[r].at = a, run'[r].aborted = run[r].aborted
  PROVE  Types' /\ Shape'
<1> DEFINE j == r[1]
<1>1. Types /\ Shape /\ InboxType /\ RunType /\ RunOK(r)
  BY DEF Inductive, Mail, Types, Shape, RunsOK
<1>2. run[r] # Absent /\ run'[r] # Absent
  BY <1>1, RunLive DEF OnlyRun, Absent
<1>3. j \in Jobs /\ r # NoRun /\ r[2] <= Latest(j)
  BY <1>1, <1>2, RunParts, AttemptsAssumption DEF RunOK
<1>4. \A k \in Jobs : Latest(k)' = Latest(k) /\ Latest(k) \in Nat
  BY <1>1, LatestType DEF Binds
<1>5. /\ inbox'[j][a].run = r
      /\ \A k \in Jobs : \A b \in 1 .. Latest(k) :
            (k # j \/ b # a) => inbox'[k][b].run = inbox[k][b].run
  BY DEF Binds
<1>6. Types'
  BY <1>1 DEF Types, OnlyRun, DrainType, CallType, JobType, ProcessType
<1>7. JobsOK'
  BY <1>1, <1>4 DEF Shape, JobsOK, OnlyRun
<1>8. CallsOK'
  <2>1. \A t \in Threads : CallOK(t)
    BY <1>1 DEF Shape, CallsOK
  <2>2. JobsLast /\ AttemptsLast
    BY <1>4 DEF OnlyRun, JobsLast, AttemptsLast
  <2>3. \A t \in Threads : CallOK(t)'
    BY <2>1, <2>2, <1>1, CallKept DEF Types, OnlyRun
  <2> QED BY <2>3 DEF CallsOK
<1>9. AttemptsBounded'
  <2>1. Requeuing' = Requeuing /\ budget'.requeues = budget.requeues
    BY DEF Requeuing, OnlyRun
  <2> QED BY <2>1, <1>1, <1>4, BoundedKept DEF Types, Shape
<1>10. DrainOK'
  BY <1>1, <1>2 DEF Shape, DrainOK, OnlyRun, Types, DrainType
<1>11. ASSUME NEW q \in Runs, q # r
       PROVE  IsBound(q)' <=> IsBound(q)
  <2>1. q[1] \in Jobs /\ q # NoRun
    BY RunParts, AttemptsAssumption
  <2>2. PICK k \in Jobs : k = q[1]
    BY <2>1
  <2>3. IsBound(q)' <=> \E b \in 1 .. Latest(k) : inbox'[k][b].run = q
    BY <2>2, <1>4 DEF IsBound
  <2>4. IsBound(q) <=> \E b \in 1 .. Latest(k) : inbox[k][b].run = q
    BY <2>2 DEF IsBound
  <2>5. \A b \in 1 .. Latest(k) : inbox'[k][b].run = q <=> inbox[k][b].run = q
    BY <2>1, <1>5, <1>11
  <2> QED BY <2>3, <2>4, <2>5
<1>12. RunsOK'
  <2>1. ASSUME NEW q \in Runs, q # r, run[q] # Absent
        PROVE  RunOK(q)'
    <3>1. RunOK(q) /\ run'[q] = run[q] /\ q[1] \in Jobs /\ q # NoRun
      BY <2>1, <1>1, RunParts, AttemptsAssumption DEF Shape, RunsOK, OnlyRun
    <3>2. /\ q[2] <= Latest(q[1])
          /\ run[q].pc \in Bound \cup {"binding"} => run[q].at \in 1 .. Latest(q[1])
          /\ run[q].pc \in Bound => inbox[q[1]][run[q].at].run = q
          /\ run[q].pc \in {"begin", "binding"} => ~ IsBound(q)
          /\ run[q].pc = "binding" => run[q].seen.run = NoRun
      BY <2>1, <3>1 DEF RunOK
    <3>3. run[q].pc \in Bound => inbox'[q[1]][run[q].at].run = q
      BY <3>1, <3>2, <1>5
    <3>4. run[q].pc \in {"begin", "binding"} => ~ IsBound(q)'
      BY <2>1, <3>2, <1>11
    <3>5. Latest(q[1])' = Latest(q[1])
      BY <3>1, <1>4
    <3> QED BY <3>1, <3>2, <3>3, <3>4, <3>5 DEF RunOK
  <2>2. ASSUME NEW q \in Runs, q # r, run[q] = Absent
        PROVE  RunOK(q)'
    BY <2>2 DEF RunOK, OnlyRun
  <2>3. RunOK(r)'
    <3>1. Latest(j)' = Latest(j)
      BY <1>3, <1>4
    <3> QED BY <3>1, <1>3, <1>5 DEF RunOK
  <2> QED BY <2>1, <2>2, <2>3 DEF RunsOK
<1>13. BindingsOK'
  <2>1. Registered' = Registered
    BY <1>4, RunParts DEF Registered
  <2> SUFFICES ASSUME NEW k \in Jobs, NEW b \in 1 .. Latest(k)', inbox'[k][b].run # NoRun
               PROVE  inbox'[k][b].run \in Registered
    BY <2>1, Zenon DEF BindingsOK
  <2>2. b \in 1 .. Latest(k)
    BY <1>4
  <2>3. r \in Registered
    BY <1>3 DEF Registered
  <2>4. CASE k = j /\ b = a
    BY <2>3, <2>4, <1>5
  <2>5. CASE k # j \/ b # a
    BY <2>2, <2>5, <1>1, <1>5 DEF Shape, BindingsOK
  <2> QED BY <2>4, <2>5
<1>14. SpawnedOnce'
  <2>1. ASSUME NEW q \in Runs, Unspawned(q)
        PROVE  Unspawned(q)'
    <3>1. q # r
      BY <2>1, <1>2 DEF Unspawned
    <3> QED BY <2>1, <3>1, <1>11 DEF Unspawned, OnlyRun
  <2>2. ASSUME NEW k \in Jobs, job'[k].status = "Queued"
        PROVE  Unspawned(<<k, Latest(k)>>)'
    <3>1. job[k].status = "Queued" /\ Latest(k) # 0
      BY <2>2, <1>1 DEF OnlyRun, Shape, JobsOK
    <3>2. PICK q : q = <<k, Latest(k)>>
      OBVIOUS
    <3>3. q \in Runs
      BY <3>1, <3>2, <1>1, <1>4, LatestType, AttemptsAssumption DEF Runs
    <3>4. Unspawned(q)'
      BY <3>1, <3>2, <3>3, <1>1, <2>1 DEF Shape, SpawnedOnce
    <3> QED BY <3>2, <3>4, <1>4
  <2>3. ASSUME call'[Drain].pc = "prepare"
        PROVE  /\ Unspawned(<<call[Drain].job, call[Drain].at>>)'
               /\ job'[call'[Drain].job].status = "Queued" => call'[Drain].at # Len(inbox'[call'[Drain].job])
    <3>1. call' = call /\ Drain \in Threads /\ CallType
      BY <1>1 DEF OnlyRun, Threads, Types
    <3>2. call[Drain] # Idle /\ call[Drain] \in Frame
      BY <3>1, <2>3, CallLive
    <3>3. PICK k \in Jobs : k = call[Drain].job
      BY <3>2 DEF Frame
    <3>4. PICK b \in 1 .. Latest(k) : b = call[Drain].at
      BY <3>1, <3>2, <3>3, <2>3, <1>1 DEF Shape, CallsOK, CallOK
    <3>5. <<k, b>> \in Runs
      BY <1>1, AttemptsAssumption, LatestType DEF Runs
    <3>6. Unspawned(<<k, b>>)'
      BY <3>1, <3>3, <3>4, <3>5, <2>1, <2>3, <1>1 DEF Shape, SpawnedOnce
    <3>7. job'[k].status = "Queued" => b # Latest(k)'
      BY <3>1, <3>3, <3>4, <2>3, <1>1, <1>4 DEF Shape, SpawnedOnce, OnlyRun
    <3> QED BY <3>1, <3>3, <3>4, <3>6, <3>7 DEF Latest
  <2> QED BY <2>2, <2>3 DEF SpawnedOnce, Latest
<1> QED BY <1>6, <1>7, <1>8, <1>9, <1>10, <1>12, <1>13, <1>14 DEF Shape

LEMMA BeginCommitStep ==
  ASSUME Inductive, NEW r \in Runs, BeginCommit(r)
  PROVE  Inductive' /\ Final
<1>1. RunType /\ RunOK(r) /\ InboxType /\ Mail
  BY DEF Inductive, Types, Shape, RunsOK, Mail
<1>2. /\ run[r].pc = "binding" /\ UNCHANGED <<receipt, transcript, scope>>
      /\ UNCHANGED <<job, drain, call, process, budget>>
  BY DEF BeginCommit
<1>3. run[r] # Absent /\ run[r] \in Run
  BY <1>1, <1>2, RunLive
<1>4. PICK a \in 1 .. Latest(r[1]) : a = run[r].at
  BY <1>1, <1>2, <1>3 DEF RunOK
<1>5. r[1] \in Jobs
  BY RunParts
<1>6. CASE /\ inbox[r[1]][a] = run[r].seen
           /\ inbox' = [inbox EXCEPT ![r[1]][a].run = r]
           /\ Goes(r, "turn")
  <2>1. PICK j \in Jobs : j = r[1]
    BY <1>5
  <2>2. a \in 1 .. Latest(j) /\ inbox' = [inbox EXCEPT ![j][a].run = r]
    BY <2>1, <1>6
  <2>3. Mail' /\ Final /\ Binds(j, a, r)
    BY <1>1, <1>2, <2>2, BindMail
  <2>4. inbox[r[1]][a].run = NoRun
    BY <1>1, <1>2, <1>3, <1>6 DEF RunOK
  <2>5. PICK p \in Attempt : p = Fresh
    BY FreshParts
  <2>6. run' = [run EXCEPT ![r].pc = "turn", ![r].seen = p]
    BY <1>6, <2>5 DEF Goes
  <2>7. /\ RunType' /\ run'[r].pc = "turn" /\ run'[r].at = run[r].at
        /\ run'[r].aborted = run[r].aborted
        /\ \A q \in Runs : q # r => run'[q] = run[q]
    BY <1>1, <1>3, <2>6 DEF RunType, Run
  <2>8. OnlyRun(r)
    BY <2>7, <1>2 DEF OnlyRun
  <2>9. Types' /\ Shape'
    BY <1>2, <1>4, <2>1, <2>3, <2>4, <2>7, <2>8, BindShape DEF Mail
  <2> QED BY <2>3, <2>9 DEF Inductive
<1>7. CASE Returns(r, "err") /\ UNCHANGED inbox
  <2>1. Mail' /\ Final /\ SameShape
    BY <1>1, <1>2, <1>7, KeepMail
  <2>2. Types' /\ Shape'
    BY <1>2, <1>3, <1>7, <2>1, RunReturns DEF Mail
  <2> QED BY <2>1, <2>2 DEF Inductive
<1> QED BY <1>4, <1>6, <1>7 DEF BeginCommit

-----------------------------------------------------------------------------
(* Steps of the drain, of callers and of recovery. *)

LEMMA ShapeStep ==
  ASSUME Inductive, InboxType', Grows, Types', JobsOK', JobsLast,
         \A t \in Threads : call'[t] = call[t] \/ CallOK(t)',
         \A r \in Runs : run'[r] = run[r] \/ RunOK(r)',
         AttemptsBounded', DrainOK', SpawnedOnce'
  PROVE  Shape'
<1>1. Types /\ Shape /\ InboxType /\ AttemptsLast
  BY DEF Inductive, Mail, Grows, AttemptsLast
<1>2. CallsOK'
  <2> SUFFICES ASSUME NEW t \in Threads
               PROVE  CallOK(t)'
    BY DEF CallsOK
  <2>1. CallOK(t)
    BY <1>1 DEF Shape, CallsOK
  <2> QED BY <2>1, <1>1, CallKept DEF Types
<1>3. RunsOK'
  <2> SUFFICES ASSUME NEW r \in Runs
               PROVE  RunOK(r)'
    BY DEF RunsOK
  <2>1. RunOK(r)
    BY <1>1 DEF Shape, RunsOK
  <2> QED BY <2>1, <1>1, RunKept DEF Types
<1>4. BindingsOK'
  BY <1>1, BindingsKept DEF Shape
<1> QED BY <1>2, <1>3, <1>4 DEF Shape

(* Jobs, calls, runs and the drain stay as they are. *)
LEMMA MailOnly ==
  ASSUME Inductive, Mail', SameShape, UNCHANGED <<job, run, drain, call, budget>>,
         process' \in {"up", "down", "jobs", "inboxes"}
  PROVE  Inductive'
<1>1. Types /\ Shape /\ InboxType /\ InboxType' /\ Grows /\ \A k \in Jobs : Latest(k)' = Latest(k)
  BY SameShapeGrows DEF Inductive, Mail
<1>2. Types'
  BY <1>1 DEF Types, RunType, DrainType, CallType, JobType, ProcessType
<1>3. JobsOK' /\ JobsLast
  BY <1>1 DEF Shape, JobsOK, JobsLast
<1>4. AttemptsBounded'
  <2>1. Requeuing' = Requeuing
    BY DEF Requeuing
  <2> QED BY <2>1, <1>1, BoundedKept DEF Types, Shape
<1>5. DrainOK'
  BY <1>1 DEF Shape, DrainOK
<1>6. SpawnedOnce'
  BY <1>1, SpawnedKept DEF Types, Shape
<1> QED BY <1>1, <1>2, <1>3, <1>4, <1>5, <1>6, ShapeStep DEF Inductive

(* Only the thread t and the drain move. *)
Moves(t) ==
    /\ UNCHANGED <<job, inbox, receipt, transcript, scope, run, process, budget>>
    /\ \A u \in Threads : u # t => call'[u] = call[u]
    /\ CallType' /\ DrainType'

LEMMA ThreadMoves ==
  ASSUME Inductive, NEW t \in Threads, Moves(t), CallOK(t)', DrainOK',
         t # Drain => (call'[t] # Idle /\ call'[t].op = "requeue" =>
                          call[t] # Idle /\ call[t].op = "requeue"),
         t = Drain => (call'[t].pc = "prepare" => call'[t] = call[t])
  PROVE  Inductive' /\ Final
<1>0. Mail' /\ Final /\ SameShape
  BY KeepMail DEF Inductive, Moves
<1>1. Types /\ Shape /\ InboxType /\ InboxType' /\ Grows /\ \A k \in Jobs : Latest(k)' = Latest(k)
  BY <1>0, SameShapeGrows DEF Inductive, Mail
<1>2. Types'
  BY <1>1 DEF Moves, Types, RunType, JobType, ProcessType
<1>3. JobsOK' /\ JobsLast
  BY <1>1 DEF Shape, JobsOK, JobsLast, Moves
<1>4. AttemptsBounded'
  <2>1. Requeuing' \subseteq Requeuing
    <3> SUFFICES ASSUME NEW c \in Callers, call'[c] # Idle, call'[c].op = "requeue"
                 PROVE  call[c] # Idle /\ call[c].op = "requeue"
      BY DEF Requeuing
    <3>1. c \in Threads /\ c # Drain
      BY SubagentsAssumption DEF Threads
    <3> QED BY <3>1 DEF Moves
  <2>2. budget'.requeues = budget.requeues
    BY DEF Moves
  <2> QED BY <2>1, <2>2, <1>1, BoundedKept DEF Types, Shape
<1>5. SpawnedOnce'
  <2>1. call'[Drain].pc = "prepare" => call'[Drain] = call[Drain]
    BY DEF Moves, Threads
  <2>2. job' = job /\ run' = run
    BY DEF Moves
  <2> QED BY <2>1, <2>2, <1>1, SpawnedKept DEF Types, Shape
<1>6. \A u \in Threads : call'[u] = call[u] \/ CallOK(u)'
  BY DEF Moves
<1>7. \A r \in Runs : run'[r] = run[r]
  BY DEF Moves
<1> QED BY <1>0, <1>1, <1>2, <1>3, <1>4, <1>5, <1>6, <1>7, ShapeStep DEF Inductive

(* The drain gives up. *)
LEMMA DrainFailsStep ==
  ASSUME Inductive, DrainFails,
         UNCHANGED <<job, inbox, receipt, transcript, scope, process, budget>>
  PROVE  Inductive' /\ Final
<1>0. Mail' /\ Final /\ SameShape
  BY KeepMail DEF Inductive
<1>1. Types /\ Shape /\ InboxType /\ InboxType' /\ Grows /\ \A k \in Jobs : Latest(k)' = Latest(k)
  BY <1>0, SameShapeGrows DEF Inductive, Mail
<1>2. drain' = NoDrain /\ call' = [call EXCEPT ![Drain] = Idle] /\ Drain \in Threads
  BY DEF DrainFails, Threads
<1>3. PICK yes \in BOOLEAN : yes = TRUE
  OBVIOUS
<1>4. run' = [r \in Runs |-> IF r \in drain.set THEN [run[r] EXCEPT !.aborted = yes] ELSE run[r]]
  BY <1>3 DEF DrainFails
<1>5. RunType
  BY <1>1 DEF Types
<1>6. ASSUME NEW r \in Runs, r \in drain.set
      PROVE  /\ run[r] # Absent /\ run[r] \in Run /\ run'[r] \in Run /\ run'[r].pc = run[r].pc
             /\ run'[r].at = run[r].at /\ run'[r].seen = run[r].seen
  <2>1. run[r] # Absent /\ run[r] \in Run
    BY <1>5, <1>6, <1>1, RunLive DEF Shape, DrainOK
  <2>2. run'[r] = [run[r] EXCEPT !.aborted = yes]
    BY <1>4, <1>6
  <2>3. PICK x \in Run : x = run[r]
    BY <2>1
  <2>4. [x EXCEPT !.aborted = yes] \in Run
    BY DEF Run
  <2>5. /\ [x EXCEPT !.aborted = yes].pc = x.pc /\ [x EXCEPT !.aborted = yes].at = x.at
        /\ [x EXCEPT !.aborted = yes].seen = x.seen
    BY DEF Run
  <2> QED BY <2>1, <2>2, <2>3, <2>4, <2>5
<1>7. \A r \in Runs : r \notin drain.set => run'[r] = run[r]
  BY <1>4
<1>8. RunType'
  <2>1. \A r \in Runs : run'[r] \in {Absent} \cup Run
    BY <1>5, <1>6, <1>7 DEF RunType
  <2>2. PICK f : f = [r \in Runs |-> IF r \in drain.set THEN [run[r] EXCEPT !.aborted = yes] ELSE run[r]]
    OBVIOUS
  <2>3. run' = f /\ f = [r \in Runs |-> f[r]]
    BY <1>4, <2>2
  <2> QED BY <2>1, <2>3 DEF RunType
<1>9. DrainType'
  <2>1. NoDrain.set = {} /\ NoDrain.queue = {}
    BY DEF NoDrain
  <2>2. Cardinality(NoDrain.set) + Cardinality(NoDrain.queue) <= MaxConcurrent
    BY <2>1, FS_EmptySet, SubagentsAssumption
  <2>3. NoDrain \in [pc: {"idle", "list", "start", "join"}, queue: SUBSET Jobs, set: SUBSET Runs,
                  notified: BOOLEAN]
    BY DEF NoDrain
  <2> QED BY <2>2, <2>3, <1>2 DEF DrainType
<1>10. CallType'
  BY <1>1, <1>2 DEF Types, CallType
<1>11. Types'
  BY <1>1, <1>8, <1>9, <1>10 DEF Types, JobType, ProcessType
<1>12. call'[Drain] = Idle /\ \A t \in Threads : t # Drain => call'[t] = call[t]
  BY <1>1, <1>2 DEF Types, CallType
<1>13. \A t \in Threads : call'[t] = call[t] \/ CallOK(t)'
  BY <1>12 DEF CallOK
<1>14. JobsOK' /\ JobsLast
  BY <1>1 DEF Shape, JobsOK, JobsLast
<1>15. AttemptsBounded'
  <2>1. Requeuing' \subseteq Requeuing
    BY <1>12, SubagentsAssumption DEF Requeuing, Threads
  <2> QED BY <2>1, <1>1, BoundedKept DEF Types, Shape
<1>16. DrainOK'
  BY <1>2, <1>12 DEF DrainOK, NoDrain
<1>17. ASSUME NEW r \in Runs
       PROVE  run'[r] = run[r] \/ RunOK(r)'
  <2>1. CASE r \in drain.set
    <3>1. RunOK(r)
      BY <1>1 DEF Shape, RunsOK
    <3>2. r[1] \in Jobs
      BY RunParts
    <3>3. Latest(r[1])' = Latest(r[1]) /\ inbox' = inbox /\ (IsBound(r)' <=> IsBound(r))
      BY <3>2, <1>1, BoundKept
    <3> QED BY <2>1, <3>1, <3>3, <1>6 DEF RunOK
  <2> QED BY <2>1, <1>7
<1>18. SpawnedOnce'
  <2>1. \A r \in Runs : run[r] = Absent => run'[r] = Absent
    BY <1>6, <1>7
  <2>2. call'[Drain].pc # "prepare"
    BY <1>12 DEF Idle
  <2> QED BY <2>1, <2>2, <1>1, SpawnedKept DEF Types, Shape
<1> QED BY <1>0, <1>1, <1>11, <1>13, <1>14, <1>15, <1>16, <1>17, <1>18, ShapeStep DEF Inductive

(* The drain keeps its jobs and its children. *)
LEMMA DrainKept ==
  ASSUME DrainOK, UNCHANGED <<job, run, drain>>,
         (call'[Drain] # Idle /\ call'[Drain].op = "start") =>
            call[Drain] # Idle /\ call[Drain].op = "start"
  PROVE  DrainOK'
BY DEF DrainOK

(* A call goes on at another place. *)
LEMMA CallGoes ==
  ASSUME CallType, NEW t \in Threads, call[t] # Idle,
         NEW pc \in {"check", "stage", "commit", "prepare", "latest"},
         call' = [call EXCEPT ![t] = [call[t] EXCEPT !.pc = pc]]
  PROVE  /\ CallType' /\ call'[t] # Idle /\ call'[t].pc = pc
         /\ call'[t].op = call[t].op /\ call'[t].job = call[t].job /\ call'[t].at = call[t].at
         /\ call'[t].on = call[t].on /\ call'[t].seen = call[t].seen
         /\ \A u \in Threads : u # t => call'[u] = call[u]
<1>1. PICK f \in Frame : f = call[t]
  BY CallLive
<1>2. PICK g : g = [f EXCEPT !.pc = pc]
  OBVIOUS
<1>3. /\ g \in Frame /\ g.pc = pc
      /\ g.op = f.op /\ g.job = f.job /\ g.at = f.at /\ g.on = f.on /\ g.seen = f.seen
  BY <1>2 DEF Frame
<1>4. call' = [call EXCEPT ![t] = g]
  BY <1>1, <1>2
<1>5. call'[t] = g /\ CallType' /\ \A u \in Threads : u # t => call'[u] = call[u]
  BY <1>3, <1>4 DEF CallType
<1>6. g # Idle
  BY <1>3 DEF Idle
<1> QED BY <1>1, <1>3, <1>5, <1>6

(* A call goes on before it commits. *)
LEMMA CallGoesStep ==
  ASSUME Inductive, NEW t \in Threads, call[t] # Idle, NEW pc \in {"stage", "latest"},
         t # Drain => pc = "stage",
         call' = [call EXCEPT ![t] = [call[t] EXCEPT !.pc = pc]],
         UNCHANGED <<job, inbox, receipt, transcript, scope, run, drain, process, budget>>
  PROVE  Inductive' /\ Final
<1>1. Types /\ Shape /\ CallType /\ CallOK(t)
  BY DEF Inductive, Types, Shape, CallsOK
<1>2. /\ CallType' /\ call'[t] # Idle /\ call'[t].pc = pc
      /\ call'[t].op = call[t].op /\ call'[t].job = call[t].job
      /\ \A u \in Threads : u # t => call'[u] = call[u]
  BY <1>1, CallGoes
<1>3. CallOK(t)'
  BY <1>1, <1>2 DEF CallOK
<1>4. DrainOK'
  BY <1>1, <1>2, DrainKept DEF Shape, Threads
<1>5. Moves(t)
  BY <1>1, <1>2 DEF Moves, Types, DrainType
<1> QED BY <1>2, <1>3, <1>4, <1>5, ThreadMoves

(* A call ends. *)
LEMMA CallEndsStep ==
  ASSUME Inductive, NEW t \in Threads, call' = [call EXCEPT ![t] = Idle],
         UNCHANGED <<job, inbox, receipt, transcript, scope, run, drain, process, budget>>
  PROVE  Inductive' /\ Final
<1>1. Types /\ Shape /\ CallType
  BY DEF Inductive, Types
<1>2. CallType' /\ call'[t] = Idle /\ \A u \in Threads : u # t => call'[u] = call[u]
  BY <1>1 DEF CallType
<1>3. CallOK(t)' /\ Idle.pc # "prepare"
  BY <1>2 DEF CallOK, Idle
<1>4. DrainOK'
  BY <1>1, <1>2, DrainKept DEF Shape, Threads
<1>5. Moves(t)
  BY <1>1, <1>2 DEF Moves, Types, DrainType
<1> QED BY <1>2, <1>3, <1>4, <1>5, ThreadMoves

LEMMA RefusedStep ==
  ASSUME Inductive, NEW t \in Threads, call[t] # Idle, Refused(t),
         UNCHANGED <<job, inbox, receipt, transcript, scope, process, budget>>
  PROVE  Inductive' /\ Final
<1>1. CASE t = Drain /\ call[t].op \in {"start", "unprepared"}
  BY <1>1, DrainFailsStep DEF Refused
<1>2. CASE t = Drain /\ call[t].op \notin {"start", "unprepared"}
  <2>1. call' = [call EXCEPT ![t] = [call[t] EXCEPT !.pc = "latest"]] /\ UNCHANGED <<drain, run>>
    BY <1>2 DEF Refused, Inductive, Types, CallType
  <2> QED BY <1>2, <2>1, CallGoesStep
<1>3. CASE t # Drain
  <2>1. call' = [call EXCEPT ![t] = Idle] /\ UNCHANGED <<drain, run>>
    BY <1>3 DEF Refused
  <2> QED BY <2>1, CallEndsStep
<1> QED BY <1>1, <1>2, <1>3

LEMMA CheckStep ==
  ASSUME Inductive, call[Drain] # Idle, Check
  PROVE  Inductive' /\ Final
<1>0. Drain \in Threads /\ CallType
  BY DEF Threads, Inductive, Types
<1>1. UNCHANGED <<job, inbox, receipt, transcript, scope, process, budget>>
  BY DEF Check
<1>2. CASE call' = [call EXCEPT ![Drain].pc = "stage"] /\ UNCHANGED <<drain, run>>
  <2>1. call' = [call EXCEPT ![Drain] = [call[Drain] EXCEPT !.pc = "stage"]]
    BY <1>2, <1>0 DEF CallType
  <2> QED BY <2>1, <1>0, <1>1, <1>2, CallGoesStep
<1>3. CASE Refused(Drain)
  BY <1>0, <1>1, <1>3, RefusedStep
<1> QED BY <1>2, <1>3 DEF Check

LEMMA StageStep ==
  ASSUME Inductive, NEW t \in Threads, call[t] # Idle, Stage(t)
  PROVE  Inductive' /\ Final
<1>1. Types /\ Shape /\ CallType /\ CallOK(t) /\ InboxType
  BY DEF Inductive, Types, Shape, CallsOK, Mail
<1>2. /\ call[t].pc = "stage"
      /\ UNCHANGED <<job, inbox, receipt, transcript, scope, run, drain, process, budget>>
  BY DEF Stage
<1>3. PICK f \in Frame : f = call[t]
  BY <1>1, CallLive
<1>4. f.job \in Jobs
  BY DEF Frame
<1>5. PICK a : a = Latest(f.job)
  OBVIOUS
<1>6. CASE call' = [call EXCEPT ![t] = Idle]
  BY <1>2, <1>6, CallEndsStep
<1>7. CASE call' = [call EXCEPT ![t] = [f EXCEPT !.pc = "commit", !.on = a, !.seen = inbox[f.job][a]]]
  <2>1. a \in 1 .. Latest(f.job) /\ a \in 0 .. MaxAttempts
    <3>1. a \in Nat /\ a <= MaxAttempts
      BY <1>1, <1>4, <1>5, LatestType
    <3>2. a # 0
      BY <1>1, <1>3, <1>4, <1>5 DEF CallOK, Shape, JobsOK
    <3> QED BY <3>1, <3>2, <1>5, AttemptsAssumption
  <2>2. PICK p \in Attempt : p = inbox[f.job][a]
    BY <2>1, <1>1, <1>4, AttemptParts DEF Latest
  <2>3. PICK g : g = [f EXCEPT !.pc = "commit", !.on = a, !.seen = p]
    OBVIOUS
  <2>4. g \in Frame /\ g.pc = "commit" /\ g.on = a /\ g.op = f.op /\ g.job = f.job
    BY <2>1, <2>2, <2>3 DEF Frame
  <2>5. call' = [call EXCEPT ![t] = g]
    BY <1>7, <2>2, <2>3
  <2>6. call'[t] = g /\ CallType' /\ \A u \in Threads : u # t => call'[u] = call[u]
    BY <2>4, <2>5, <1>1 DEF CallType
  <2>7. g # Idle
    BY <2>4 DEF Idle
  <2>8. CallOK(t)'
    <3>1. Latest(f.job)' = Latest(f.job)
      BY <1>2 DEF Latest
    <3>2. job[f.job].status # "None" /\ (t = Drain <=> f.op \notin {"cancel", "requeue"})
      BY <1>1, <1>3 DEF CallOK
    <3> QED BY <3>1, <3>2, <2>1, <2>4, <2>6, <2>7, <1>2 DEF CallOK
  <2>9. DrainOK'
    BY <1>1, <1>2, <1>3, <2>4, <2>6, DrainKept DEF Shape, Threads
  <2>10. Moves(t)
    BY <1>1, <1>2, <2>6 DEF Moves, Types, DrainType
  <2> QED BY <1>3, <2>4, <2>6, <2>8, <2>9, <2>10, ThreadMoves
<1> QED BY <1>3, <1>5, <1>6, <1>7 DEF Stage

LEMMA RequestStep ==
  ASSUME Inductive, NEW c \in Callers, NEW op \in {"cancel", "requeue"}, NEW j \in Jobs, Request(c, op, j)
  PROVE  Inductive' /\ Final
<1>0. c \in Threads /\ c # Drain
  BY SubagentsAssumption DEF Threads
<1>1. Types /\ Shape /\ CallType /\ InboxType /\ Mail /\ ProcessType
  BY DEF Inductive, Types, Mail
<1>2. /\ call[c] = Idle /\ Allowed(op, job[j].status)
      /\ UNCHANGED <<job, inbox, receipt, transcript, scope, run, drain, process>>
  BY DEF Request
<1>3. Mail' /\ Final /\ SameShape
  BY <1>1, <1>2, KeepMail
<1>4. InboxType' /\ Grows /\ \A k \in Jobs : Latest(k)' = Latest(k)
  BY <1>1, <1>3, SameShapeGrows DEF Mail
<1>5. PICK g : g = [Begun(op, j, 0) EXCEPT !.pc = "stage"]
  OBVIOUS
<1>6. g \in Frame /\ g.pc = "stage" /\ g.op = op /\ g.job = j
  <2>1. PICK p \in Attempt : p = Fresh
    BY FreshParts
  <2>2. 0 \in 0 .. MaxAttempts /\ op \in Operation
    BY AttemptsAssumption DEF Operation
  <2>3. g = [pc |-> "stage", op |-> op, job |-> j, at |-> 0, on |-> 0, seen |-> p]
    BY <1>5, <2>1 DEF Begun
  <2> QED BY <2>2, <2>3 DEF Frame
<1>7. g # Idle
  BY <1>6 DEF Idle
<1>8. call' = [call EXCEPT ![c] = g]
  BY <1>5 DEF Request
<1>9. call'[c] = g /\ CallType' /\ \A u \in Threads : u # c => call'[u] = call[u]
  BY <1>0, <1>1, <1>6, <1>8 DEF CallType
<1>10. job[j].status # "None"
  BY <1>2 DEF Allowed
<1>11. CallOK(c)'
  BY <1>0, <1>2, <1>6, <1>7, <1>9, <1>10 DEF CallOK
<1>12. DrainOK'
  <2>1. call'[Drain] = call[Drain]
    BY <1>0, <1>9 DEF Threads
  <2> QED BY <2>1, <1>1, <1>2, DrainKept DEF Shape
<1>13. /\ budget' \in [jobs: Nat, messages: Nat, requeues: Nat, crashes: Nat]
       /\ AttemptsBounded'
  <2>1. CASE op = "cancel"
    <3>1. budget' = budget
      BY <2>1 DEF Request
    <3>2. Requeuing' \subseteq Requeuing
      BY <2>1, <1>0, <1>6, <1>9 DEF Requeuing, Threads
    <3> QED BY <3>1, <3>2, <1>1, <1>4, BoundedKept DEF Shape, ProcessType
  <2>2. CASE op = "requeue"
    <3>1. budget.requeues > 0 /\ budget' = [budget EXCEPT !.requeues = @ - 1]
      BY <2>2 DEF Request
    <3>2. /\ budget' \in [jobs: Nat, messages: Nat, requeues: Nat, crashes: Nat]
          /\ budget'.requeues = budget.requeues - 1 /\ budget.requeues \in Nat
      BY <3>1, <1>1 DEF ProcessType
    <3>3. Requeuing' = Requeuing \cup {c} /\ c \notin Requeuing
      BY <2>2, <1>0, <1>2, <1>6, <1>7, <1>9 DEF Requeuing, Threads
    <3>4. IsFiniteSet(Requeuing) /\ Cardinality(Requeuing) \in Nat
      BY FiniteParts DEF Requeuing
    <3>5. Cardinality(Requeuing)' = Cardinality(Requeuing) + 1
      BY <3>3, <3>4, FS_AddElement
    <3>6. \A k \in Jobs : Latest(k) \in Nat
      BY <1>1, LatestType
    <3>7. AttemptsBounded
      BY <1>1 DEF Shape
    <3> QED BY <3>2, <3>4, <3>5, <3>6, <3>7, <1>4, AttemptsAssumption DEF AttemptsBounded
  <2> QED BY <2>1, <2>2
<1>14. Types'
  BY <1>1, <1>2, <1>9, <1>13 DEF Types, RunType, DrainType, JobType, ProcessType
<1>15. JobsOK' /\ JobsLast
  BY <1>1, <1>2, <1>4 DEF Shape, JobsOK, JobsLast
<1>16. SpawnedOnce'
  <2>1. call'[Drain] = call[Drain]
    BY <1>0, <1>9 DEF Threads
  <2> QED BY <2>1, <1>1, <1>2, <1>4, SpawnedKept DEF Types, Shape
<1>17. \A t \in Threads : call'[t] = call[t] \/ CallOK(t)'
  BY <1>9, <1>11
<1> QED BY <1>2, <1>3, <1>4, <1>12, <1>13, <1>14, <1>15, <1>16, <1>17, ShapeStep DEF Inductive

(* Only the drain moves. *)
LEMMA DrainOnly ==
  ASSUME Inductive, DrainType', DrainOK',
         UNCHANGED <<job, inbox, receipt, transcript, scope, run, call, process, budget>>
  PROVE  Inductive' /\ Final
<1>1. Drain \in Threads /\ CallType /\ CallOK(Drain)
  BY DEF Threads, Inductive, Types, Shape, CallsOK
<1>2. CallOK(Drain)'
  BY <1>1 DEF CallOK, Latest
<1>3. Moves(Drain)
  BY <1>1 DEF Moves, CallType
<1> QED BY <1>1, <1>2, <1>3, ThreadMoves

(* What the drain keeps. *)
LEMMA DrainParts ==
  ASSUME Inductive
  PROVE  /\ drain.queue \in SUBSET Jobs /\ drain.set \in SUBSET Runs /\ drain.notified \in BOOLEAN
         /\ IsFiniteSet(drain.queue) /\ IsFiniteSet(drain.set)
         /\ Cardinality(drain.queue) \in Nat /\ Cardinality(drain.set) \in Nat
         /\ Cardinality(drain.set) + Cardinality(drain.queue) <= MaxConcurrent
         /\ drain \in [pc: {"idle", "list", "start", "join"}, queue: SUBSET Jobs, set: SUBSET Runs,
                       notified: BOOLEAN]
         /\ DrainOK
         /\ MaxConcurrent \in Nat
<1>1. DrainType /\ DrainOK
  BY DEF Inductive, Types, Shape
<1>2. drain.queue \in SUBSET Jobs /\ drain.set \in SUBSET Runs /\ drain.notified \in BOOLEAN
  BY <1>1 DEF DrainType
<1>3. MaxConcurrent \in Nat
  BY SubagentsAssumption
<1> QED BY <1>1, <1>2, <1>3, FiniteParts DEF DrainType

LEMMA DrainBeginStep ==
  ASSUME Inductive, DrainBegin
  PROVE  Inductive' /\ Final
<1>1. /\ drain' = [drain EXCEPT !.pc = "list"]
      /\ UNCHANGED <<job, inbox, receipt, transcript, scope, run, call, process, budget>>
  BY DEF DrainBegin
<1>2. /\ drain' \in [pc: {"idle", "list", "start", "join"}, queue: SUBSET Jobs, set: SUBSET Runs,
                     notified: BOOLEAN]
      /\ drain'.queue = drain.queue /\ drain'.set = drain.set
  BY <1>1, DrainParts
<1>3. DrainType'
  BY <1>2, DrainParts DEF DrainType
<1>4. DrainOK'
  BY <1>1, <1>2, DrainParts DEF DrainOK
<1> QED BY <1>1, <1>3, <1>4, DrainOnly

LEMMA ListStep ==
  ASSUME Inductive, List
  PROVE  Inductive' /\ Final
<1>1. /\ call[Drain] = Idle
      /\ UNCHANGED <<job, inbox, receipt, transcript, scope, run, call, process, budget>>
  BY DEF List
<1>2. PICK Q \in SUBSET Queued :
        /\ Cardinality(Q) <= MaxConcurrent - Cardinality(drain.set)
        /\ drain' = [drain EXCEPT !.pc = "start", !.queue = Q]
  BY DEF List
<1>3. Q \in SUBSET Jobs /\ \A j \in Q : job[j].status # "None"
  BY DEF Queued
<1>4. /\ drain' \in [pc: {"idle", "list", "start", "join"}, queue: SUBSET Jobs, set: SUBSET Runs,
                     notified: BOOLEAN]
      /\ drain'.queue = Q /\ drain'.set = drain.set
  BY <1>2, <1>3, DrainParts
<1>5. Cardinality(Q) \in Nat
  BY <1>3, FiniteParts
<1>6. Cardinality(drain.set) + Cardinality(Q) <= MaxConcurrent
  BY <1>2, <1>5, DrainParts
<1>7. DrainType'
  BY <1>4, <1>6 DEF DrainType
<1>8. DrainOK'
  BY <1>1, <1>3, <1>4, DrainParts DEF DrainOK
<1> QED BY <1>1, <1>7, <1>8, DrainOnly

LEMMA NoDrainParts ==
  /\ NoDrain \in [pc: {"idle", "list", "start", "join"}, queue: SUBSET Jobs, set: SUBSET Runs,
                  notified: BOOLEAN]
  /\ NoDrain.set = {} /\ NoDrain.queue = {}
  /\ Cardinality(NoDrain.set) + Cardinality(NoDrain.queue) <= MaxConcurrent
<1>1. NoDrain.set = {} /\ NoDrain.queue = {}
  BY DEF NoDrain
<1>2. Cardinality(NoDrain.set) + Cardinality(NoDrain.queue) <= MaxConcurrent
  BY <1>1, FS_EmptySet, SubagentsAssumption
<1> QED BY <1>1, <1>2 DEF NoDrain

LEMMA StartedStep ==
  ASSUME Inductive, Started
  PROVE  Inductive' /\ Final
<1>1. /\ call[Drain] = Idle
      /\ UNCHANGED <<job, inbox, receipt, transcript, scope, run, call, process, budget>>
  BY DEF Started
<1>2. CASE drain' = NoDrain
  <2>1. DrainType'
    BY <1>2, NoDrainParts DEF DrainType
  <2>2. DrainOK'
    BY <1>1, <1>2, NoDrainParts DEF DrainOK
  <2> QED BY <1>1, <2>1, <2>2, DrainOnly
<1>3. CASE drain' = [drain EXCEPT !.pc = "join"]
  <2>1. /\ drain' \in [pc: {"idle", "list", "start", "join"}, queue: SUBSET Jobs, set: SUBSET Runs,
                       notified: BOOLEAN]
        /\ drain'.queue = drain.queue /\ drain'.set = drain.set
    BY <1>3, DrainParts
  <2>2. DrainType'
    BY <2>1, DrainParts DEF DrainType
  <2>3. DrainOK'
    BY <1>1, <2>1, DrainParts DEF DrainOK
  <2> QED BY <1>1, <2>2, <2>3, DrainOnly
<1> QED BY <1>2, <1>3 DEF Started

LEMMA NotifiedStep ==
  ASSUME Inductive, Notified
  PROVE  Inductive' /\ Final
<1>1. /\ drain' = [drain EXCEPT !.pc = "list", !.notified = FALSE]
      /\ UNCHANGED <<job, inbox, receipt, transcript, scope, run, call, process, budget>>
  BY DEF Notified
<1>2. PICK no \in BOOLEAN : no = FALSE
  OBVIOUS
<1>3. drain' = [drain EXCEPT !.pc = "list", !.notified = no]
  BY <1>1, <1>2
<1>4. /\ drain' \in [pc: {"idle", "list", "start", "join"}, queue: SUBSET Jobs, set: SUBSET Runs,
                     notified: BOOLEAN]
      /\ drain'.queue = drain.queue /\ drain'.set = drain.set
  BY <1>3, DrainParts
<1>5. DrainType'
  BY <1>4, DrainParts DEF DrainType
<1>6. DrainOK'
  BY <1>1, <1>4, DrainParts DEF DrainOK
<1> QED BY <1>1, <1>5, <1>6, DrainOnly

(* An operation of the drain begins. *)
LEMMA BegunParts ==
  ASSUME NEW op \in Operation, NEW j \in Jobs, NEW a \in 0 .. MaxAttempts
  PROVE  /\ Begun(op, j, a) \in Frame /\ Begun(op, j, a) # Idle /\ Begun(op, j, a).pc = "check"
         /\ Begun(op, j, a).op = op /\ Begun(op, j, a).job = j
<1>1. PICK p \in Attempt : p = Fresh
  BY FreshParts
<1>2. 0 \in 0 .. MaxAttempts
  BY AttemptsAssumption
<1>3. Begun(op, j, a) = [pc |-> "check", op |-> op, job |-> j, at |-> a, on |-> 0, seen |-> p]
  BY <1>1 DEF Begun
<1>4. Begun(op, j, a) \in Frame /\ Begun(op, j, a).pc = "check"
      /\ Begun(op, j, a).op = op /\ Begun(op, j, a).job = j
  BY <1>2, <1>3 DEF Frame
<1>5. Idle.pc # "check"
  BY DEF Idle
<1> QED BY <1>4, <1>5

LEMMA StartNextStep ==
  ASSUME Inductive, NEW j \in Jobs, StartNext(j)
  PROVE  Inductive' /\ Final
<1>0. Drain \in Threads /\ CallType
  BY DEF Threads, Inductive, Types
<1>1. /\ call[Drain] = Idle /\ j \in drain.queue
      /\ UNCHANGED <<job, inbox, receipt, transcript, scope, run, process, budget>>
  BY DEF StartNext
<1>2. PICK g : g = Begun("start", j, 0)
  OBVIOUS
<1>3. g \in Frame /\ g # Idle /\ g.pc = "check" /\ g.op = "start" /\ g.job = j
  BY <1>2, BegunParts, AttemptsAssumption DEF Operation
<1>4. PICK Q : Q = drain.queue \ {j}
  OBVIOUS
<1>5. drain' = [drain EXCEPT !.queue = Q] /\ call' = [call EXCEPT ![Drain] = g]
  BY <1>2, <1>4 DEF StartNext
<1>6. Q \in SUBSET Jobs /\ Q \subseteq drain.queue
  BY <1>4, DrainParts
<1>7. /\ drain' \in [pc: {"idle", "list", "start", "join"}, queue: SUBSET Jobs, set: SUBSET Runs,
                     notified: BOOLEAN]
      /\ drain'.queue = Q /\ drain'.set = drain.set
  BY <1>5, <1>6, DrainParts
<1>8. Cardinality(Q) = Cardinality(drain.queue) - 1
  BY <1>1, <1>4, DrainParts, FS_RemoveElement
<1>9. Cardinality(drain.set) + Cardinality(Q) < MaxConcurrent
  BY <1>8, DrainParts
<1>10. DrainType'
  BY <1>7, <1>9, <1>8, DrainParts DEF DrainType
<1>11. call'[Drain] = g /\ CallType' /\ \A u \in Threads : u # Drain => call'[u] = call[u]
  BY <1>0, <1>3, <1>5 DEF CallType
<1>12. job[j].status # "None"
  BY <1>1, DrainParts DEF DrainOK
<1>13. CallOK(Drain)'
  BY <1>1, <1>3, <1>11, <1>12 DEF CallOK
<1>14. DrainOK'
  <2>1. \A i \in Q : job[i].status # "None"
    BY <1>6, DrainParts DEF DrainOK
  <2>2. \A r \in drain.set : run[r] # Absent /\ ~ run[r].aborted
    BY DrainParts DEF DrainOK
  <2> QED BY <2>1, <2>2, <1>1, <1>7, <1>9 DEF DrainOK
<1>15. Moves(Drain)
  BY <1>1, <1>10, <1>11 DEF Moves
<1> QED BY <1>0, <1>3, <1>11, <1>13, <1>14, <1>15, ThreadMoves

LEMMA LatestStatusStep ==
  ASSUME Inductive, LatestStatus
  PROVE  Inductive' /\ Final
<1>1. /\ Drain \in Threads
      /\ UNCHANGED <<job, inbox, receipt, transcript, scope, process, budget>>
  BY DEF LatestStatus, Threads
<1>2. CASE call' = [call EXCEPT ![Drain] = Idle] /\ UNCHANGED <<drain, run>>
  BY <1>1, <1>2, CallEndsStep
<1>3. CASE DrainFails
  BY <1>1, <1>3, DrainFailsStep
<1> QED BY <1>2, <1>3 DEF LatestStatus

(* The child of a started job is spawned. *)
LEMMA SpawnStep ==
  ASSUME Inductive, NEW j \in Jobs, NEW a \in 1 .. Latest(j),
         call[Drain] # Idle, call[Drain].pc = "prepare", call[Drain].job = j, call[Drain].at = a,
         call' = [call EXCEPT ![Drain] = Idle],
         drain' = [drain EXCEPT !.set = @ \cup {<<j, a>>}],
         run' = [run EXCEPT ![<<j, a>>] = [Ended("begin") EXCEPT !.turn = 1]],
         UNCHANGED <<job, inbox, receipt, transcript, scope, process, budget>>
  PROVE  Inductive' /\ Final
<1>0. Mail' /\ Final /\ SameShape
  BY KeepMail DEF Inductive
<1>1. Types /\ Shape /\ InboxType /\ InboxType' /\ Grows /\ \A k \in Jobs : Latest(k)' = Latest(k)
  BY <1>0, SameShapeGrows DEF Inductive, Mail
<1>2. Drain \in Threads /\ CallType /\ RunType /\ CallOK(Drain)
  BY <1>1 DEF Threads, Types, Shape, CallsOK
<1>3. PICK r : r = <<j, a>>
  OBVIOUS
<1>4. r \in Runs /\ r[1] = j /\ r[2] = a /\ a <= Latest(j)
  BY <1>1, <1>3, LatestType, AttemptsAssumption DEF Runs
<1>5. Unspawned(r) /\ (job[j].status = "Queued" => a # Latest(j))
  BY <1>1, <1>3 DEF Shape, SpawnedOnce
<1>6. PICK e : e = [Ended("begin") EXCEPT !.turn = 1]
  OBVIOUS
<1>7. e \in Run /\ e.pc = "begin" /\ ~ e.aborted /\ e # Absent
  <2>1. PICK x \in Run : x = Ended("begin") /\ x.pc = "begin" /\ ~ x.aborted
    BY FreshParts
  <2>2. 1 \in 0 .. MaxTurns
    BY SubagentsAssumption
  <2>3. [x EXCEPT !.turn = 1] \in Run
    BY <2>2 DEF Run
  <2>4. [x EXCEPT !.turn = 1].pc = "begin" /\ [x EXCEPT !.turn = 1].aborted = x.aborted
    BY <2>1 DEF Run
  <2>5. Absent.pc # "begin"
    BY DEF Absent
  <2> QED BY <1>6, <2>1, <2>3, <2>4, <2>5
<1>8. run' = [run EXCEPT ![r] = e]
  BY <1>3, <1>6
<1>9. RunType' /\ run'[r] = e /\ \A q \in Runs : q # r => run'[q] = run[q]
  BY <1>2, <1>4, <1>7, <1>8 DEF RunType
<1>10. CallType' /\ call'[Drain] = Idle /\ \A t \in Threads : t # Drain => call'[t] = call[t]
  BY <1>2 DEF CallType
<1>11. PICK S : S = drain.set \cup {r}
  OBVIOUS
<1>12. drain' = [drain EXCEPT !.set = S]
  BY <1>3, <1>11
<1>13. /\ drain' \in [pc: {"idle", "list", "start", "join"}, queue: SUBSET Jobs, set: SUBSET Runs,
                      notified: BOOLEAN]
       /\ drain'.queue = drain.queue /\ drain'.set = S
  <2>1. S \in SUBSET Runs
    BY <1>4, <1>11, DrainParts
  <2> QED BY <2>1, <1>12, DrainParts
<1>14. Cardinality(S) <= Cardinality(drain.set) + 1 /\ Cardinality(S) \in Nat
  <2>1. IsFiniteSet(drain.set) /\ Cardinality(drain.set) \in Nat
    BY DrainParts
  <2>2. Cardinality(drain.set \cup {r}) =
          IF r \in drain.set THEN Cardinality(drain.set) ELSE Cardinality(drain.set) + 1
    BY <2>1, FS_AddElement
  <2> QED BY <2>1, <2>2, <1>11
<1>15. Cardinality(drain.set) + Cardinality(drain.queue) < MaxConcurrent
  BY <1>2, DrainParts DEF CallOK, DrainOK
<1>16. DrainType'
  <2>1. Cardinality(drain.set) \in Nat /\ Cardinality(drain.queue) \in Nat /\ MaxConcurrent \in Nat
    BY DrainParts
  <2>2. Cardinality(S) + Cardinality(drain.queue) <= MaxConcurrent
    BY <2>1, <1>14, <1>15
  <2> QED BY <2>2, <1>13 DEF DrainType
<1>17. Types'
  BY <1>1, <1>9, <1>10, <1>16 DEF Types, JobType, ProcessType
<1>18. DrainOK'
  <2>1. \A i \in drain.queue : job[i].status # "None"
    BY DrainParts DEF DrainOK
  <2>2. \A q \in S : run'[q] # Absent /\ ~ run'[q].aborted
    BY <1>7, <1>9, <1>11, DrainParts DEF DrainOK
  <2> QED BY <2>1, <2>2, <1>10, <1>13 DEF DrainOK
<1>19. RunOK(r)'
  <2>1. ~ IsBound(r)'
    BY <1>1, <1>4, <1>5, BoundKept DEF Unspawned
  <2>2. r[2] <= Latest(r[1])'
    BY <1>1, <1>4
  <2> QED BY <2>1, <2>2, <1>7, <1>9 DEF RunOK, Bound
<1>20. \A q \in Runs : run'[q] = run[q] \/ RunOK(q)'
  BY <1>9, <1>19
<1>21. \A t \in Threads : call'[t] = call[t] \/ CallOK(t)'
  BY <1>10 DEF CallOK
<1>22. JobsOK' /\ JobsLast
  BY <1>1 DEF Shape, JobsOK, JobsLast
<1>23. AttemptsBounded'
  <2>1. Requeuing' \subseteq Requeuing
    BY <1>10, SubagentsAssumption DEF Requeuing, Threads
  <2> QED BY <2>1, <1>1, BoundedKept DEF Types, Shape
<1>24. SpawnedOnce'
  <2>1. call'[Drain].pc # "prepare"
    BY <1>10 DEF Idle
  <2>2. ASSUME NEW k \in Jobs, job'[k].status = "Queued"
        PROVE  Unspawned(<<k, Latest(k)>>)'
    <3>1. job[k].status = "Queued" /\ Latest(k) # 0
      BY <2>2, <1>1 DEF Shape, JobsOK
    <3>2. PICK q : q = <<k, Latest(k)>>
      OBVIOUS
    <3>3. q \in Runs /\ q # r
      BY <3>1, <3>2, <1>1, <1>3, <1>5, LatestType, AttemptsAssumption DEF Runs
    <3>4. Unspawned(q)
      BY <3>1, <3>2, <1>1 DEF Shape, SpawnedOnce
    <3>5. Unspawned(q)'
      BY <3>3, <3>4, <1>1, <1>9, BoundKept DEF Unspawned
    <3> QED BY <3>2, <3>5, <1>1
  <2> QED BY <2>1, <2>2 DEF SpawnedOnce
<1> QED BY <1>0, <1>1, <1>17, <1>18, <1>20, <1>21, <1>22, <1>23, <1>24, ShapeStep DEF Inductive

LEMMA PrepareStep ==
  ASSUME Inductive, call[Drain] # Idle, Prepare
  PROVE  Inductive' /\ Final
<1>0. Drain \in Threads /\ CallType /\ CallOK(Drain) /\ Types /\ Shape
  BY DEF Threads, Inductive, Types, Shape, CallsOK
<1>1. /\ call[Drain].pc = "prepare"
      /\ UNCHANGED <<job, inbox, receipt, transcript, scope, process, budget>>
  BY DEF Prepare
<1>2. PICK j \in Jobs : j = call[Drain].job
  BY <1>0, CallLive DEF Frame
<1>3. PICK a \in 1 .. Latest(j) : a = call[Drain].at
  BY <1>0, <1>1, <1>2 DEF CallOK
<1>4. CASE /\ call' = [call EXCEPT ![Drain] = Idle]
           /\ drain' = [drain EXCEPT !.set = @ \cup {<<j, a>>}]
           /\ run' = [run EXCEPT ![<<j, a>>] = [Ended("begin") EXCEPT !.turn = 1]]
  BY <1>1, <1>2, <1>3, <1>4, SpawnStep
<1>5. CASE call' = [call EXCEPT ![Drain] = Begun("unprepared", j, 0)] /\ UNCHANGED <<drain, run>>
  <2>1. PICK g : g = Begun("unprepared", j, 0)
    OBVIOUS
  <2>2. g \in Frame /\ g # Idle /\ g.pc = "check" /\ g.op = "unprepared" /\ g.job = j
    BY <2>1, BegunParts, AttemptsAssumption DEF Operation
  <2>3. call'[Drain] = g /\ CallType' /\ \A u \in Threads : u # Drain => call'[u] = call[u]
    BY <2>1, <2>2, <1>0, <1>5 DEF CallType
  <2>4. CallOK(Drain)'
    <3>1. job[j].status # "None"
      BY <1>0, <1>2 DEF CallOK
    <3> QED BY <3>1, <2>2, <2>3, <1>1 DEF CallOK
  <2>5. DrainOK'
    BY <2>2, <2>3, <1>0, <1>1, <1>5, DrainKept DEF Shape
  <2>6. Moves(Drain)
    BY <2>3, <1>0, <1>1, <1>5 DEF Moves, Types, DrainType
  <2> QED BY <2>2, <2>3, <2>4, <2>5, <2>6, <1>0, ThreadMoves
<1> QED BY <1>2, <1>3, <1>4, <1>5 DEF Prepare

LEMMA JoinStep ==
  ASSUME Inductive, NEW r \in Runs, Join(r)
  PROVE  Inductive' /\ Final
<1>a. /\ r \in drain.set /\ run' = [run EXCEPT ![r] = Absent]
      /\ UNCHANGED <<job, inbox, receipt, transcript, scope, process, budget>>
  BY DEF Join
<1>0. Mail' /\ Final /\ SameShape
  BY <1>a, KeepMail DEF Inductive
<1>1. Types /\ Shape /\ InboxType /\ InboxType' /\ Grows /\ \A k \in Jobs : Latest(k)' = Latest(k)
  BY <1>0, SameShapeGrows DEF Inductive, Mail
<1>2. Drain \in Threads /\ CallType /\ RunType /\ RunOK(r) /\ CallOK(Drain)
  BY <1>1 DEF Threads, Types, Shape, RunsOK, CallsOK
<1>3. RunType' /\ run'[r] = Absent /\ \A q \in Runs : q # r => run'[q] = run[q]
  BY <1>2, <1>a DEF RunType
<1>4. run[r] # Absent
  BY <1>a, DrainParts DEF DrainOK
<1>5. r[1] \in Jobs /\ r[2] \in 0 .. MaxAttempts /\ job[r[1]].status # "None"
  <2>1. r[1] \in Jobs /\ r[2] \in 1 .. MaxAttempts /\ r[2] <= Latest(r[1])
    BY <1>2, <1>4, RunParts DEF RunOK
  <2>2. Latest(r[1]) # 0
    BY <2>1, <1>1, LatestType, AttemptsAssumption
  <2> QED BY <2>1, <2>2, <1>1, AttemptsAssumption DEF Shape, JobsOK
<1>6. PICK S : S = drain.set \ {r}
  OBVIOUS
<1>7. drain' = [drain EXCEPT !.pc = "list", !.set = S]
  BY <1>6 DEF Join
<1>8. /\ drain' \in [pc: {"idle", "list", "start", "join"}, queue: SUBSET Jobs, set: SUBSET Runs,
                     notified: BOOLEAN]
      /\ drain'.queue = drain.queue /\ drain'.set = S
  <2>1. S \in SUBSET Runs
    BY <1>6, DrainParts
  <2> QED BY <2>1, <1>7, DrainParts
<1>9. Cardinality(S) = Cardinality(drain.set) - 1
  BY <1>a, <1>6, DrainParts, FS_RemoveElement
<1>10. DrainType'
  BY <1>8, <1>9, DrainParts DEF DrainType
<1>11. /\ CallType' /\ \A t \in Threads : t # Drain => call'[t] = call[t]
       /\ \/ call'[Drain] = call[Drain]
          \/ /\ call'[Drain] \in Frame /\ call'[Drain] # Idle /\ call'[Drain].pc = "check"
             /\ call'[Drain].op \in {"complete", "fail"} /\ call'[Drain].job = r[1]
  <2>1. CASE Skips(r[1])
    BY <2>1, <1>2 DEF Join, CallType
  <2>2. CASE ~ Skips(r[1])
    <3>1. PICK op \in {"complete", "fail"} : op = IF run[r].pc = "ok" THEN "complete" ELSE "fail"
      OBVIOUS
    <3>2. PICK g : g = Begun(op, r[1], r[2])
      OBVIOUS
    <3>3. call' = [call EXCEPT ![Drain] = g]
      BY <2>2, <3>1, <3>2 DEF Join
    <3>4. op \in Operation
      BY DEF Operation
    <3>5. g \in Frame /\ g # Idle /\ g.pc = "check" /\ g.op = op /\ g.job = r[1]
      BY <3>2, <3>4, <1>5, BegunParts
    <3> QED BY <3>3, <3>5, <1>2 DEF CallType
  <2> QED BY <2>1, <2>2
<1>12. Types'
  BY <1>1, <1>3, <1>10, <1>11, <1>a DEF Types, JobType, ProcessType
<1>13. DrainOK'
  <2>1. \A i \in drain.queue : job[i].status # "None"
    BY DrainParts DEF DrainOK
  <2>2. \A q \in S : run'[q] # Absent /\ ~ run'[q].aborted
    BY <1>3, <1>6, DrainParts DEF DrainOK
  <2>3. (call'[Drain] # Idle /\ call'[Drain].op = "start") =>
          Cardinality(drain.set) + Cardinality(drain.queue) < MaxConcurrent
    BY <1>11, DrainParts DEF DrainOK
  <2>4. (call'[Drain] # Idle /\ call'[Drain].op = "start") =>
          Cardinality(S) + Cardinality(drain.queue) < MaxConcurrent
    BY <2>3, <1>9, DrainParts
  <2> QED BY <2>1, <2>2, <2>4, <1>8, <1>a DEF DrainOK
<1>14. \A q \in Runs : run'[q] = run[q] \/ RunOK(q)'
  BY <1>3 DEF RunOK
<1>15. \A t \in Threads : call'[t] = call[t] \/ CallOK(t)'
  <2>1. CASE call'[Drain] = call[Drain]
    BY <2>1, <1>11
  <2>2. CASE call'[Drain].pc = "check" /\ call'[Drain].op \in {"complete", "fail"} /\ call'[Drain].job = r[1]
    <3>1. CallOK(Drain)'
      BY <2>2, <1>5, <1>a DEF CallOK
    <3> QED BY <3>1, <1>11
  <2> QED BY <2>1, <2>2, <1>11
<1>16. JobsOK' /\ JobsLast
  BY <1>1, <1>a DEF Shape, JobsOK, JobsLast
<1>17. AttemptsBounded'
  <2>1. Requeuing' \subseteq Requeuing
    BY <1>11, SubagentsAssumption DEF Requeuing, Threads
  <2> QED BY <2>1, <1>1, <1>a, BoundedKept DEF Types, Shape
<1>18. SpawnedOnce'
  <2>1. \A q \in Runs : run[q] = Absent => run'[q] = Absent
    BY <1>3
  <2>2. call'[Drain].pc = "prepare" => call'[Drain] = call[Drain]
    BY <1>11
  <2> QED BY <2>1, <2>2, <1>1, <1>a, SpawnedKept DEF Types, Shape
<1> QED BY <1>0, <1>1, <1>12, <1>13, <1>14, <1>15, <1>16, <1>17, <1>18, ShapeStep DEF Inductive

-----------------------------------------------------------------------------
(* Steps that change a job. *)

LEMMA JobMoves ==
  ASSUME Inductive, Mail', Grows, NEW j \in Jobs, NEW x \in SubagentJob, x.status # "None",
         job' = [job EXCEPT ![j] = x], UNCHANGED <<run, process, budget>>,
         Latest(j)' # 0, \A k \in Jobs : k # j => Latest(k)' = Latest(k),
         CallType', \A t \in Threads : call'[t] = call[t] \/ CallOK(t)',
         DrainType', DrainOK', AttemptsBounded', SpawnedOnce'
  PROVE  Inductive'
<1>1. Types /\ Shape /\ InboxType' /\ JobType
  BY DEF Inductive, Types, Mail
<1>2. job'[j] = x /\ JobType' /\ \A k \in Jobs : k # j => job'[k] = job[k]
  BY <1>1 DEF JobType
<1>3. JobsOK' /\ JobsLast
  BY <1>1, <1>2 DEF Shape, JobsOK, JobsLast
<1>4. Types'
  BY <1>1, <1>2 DEF Types, RunType, ProcessType
<1> QED BY <1>1, <1>3, <1>4, ShapeStep DEF Inductive

(* The transition table. *)
LEMMA Transitions ==
  ASSUME NEW op \in Operation, NEW status \in Status, TransitionValid(status, Goal(op))
  PROVE  /\ status # "None" /\ Goal(op) \in Status /\ Goal(op) # "None"
         /\ Goal(op) = "Queued" <=> op = "requeue"
         /\ op = "start" => status = "Queued"
BY DEF Operation, Status, TransitionValid, Goal

(* start_subagent is committed. *)
LEMMA StartCommitted ==
  ASSUME Inductive, NEW j \in Jobs, NEW f \in Frame, call[Drain] = f, f.job = j, f.op = "start",
         job[j].status = "Queued", NEW x \in SubagentJob, x.status = "Running",
         job' = [job EXCEPT ![j] = x],
         call' = [call EXCEPT ![Drain] = [f EXCEPT !.pc = "prepare", !.at = Latest(j)]],
         UNCHANGED <<inbox, receipt, scope, transcript, run, drain, process, budget>>
  PROVE  Inductive' /\ Final
<1>0. Mail' /\ Final /\ SameShape
  BY KeepMail DEF Inductive
<1>1. Types /\ Shape /\ InboxType /\ InboxType' /\ Grows /\ \A k \in Jobs : Latest(k)' = Latest(k)
  BY <1>0, SameShapeGrows DEF Inductive, Mail
<1>2. Drain \in Threads /\ CallType /\ JobType /\ CallOK(Drain) /\ f # Idle
  BY <1>1 DEF Threads, Types, Shape, CallsOK, Frame, Idle
<1>3. PICK a : a = Latest(j)
  OBVIOUS
<1>4. a \in 1 .. Latest(j) /\ a \in 0 .. MaxAttempts /\ a # 0
  BY <1>1, <1>3, LatestType, AttemptsAssumption DEF Shape, JobsOK
<1>5. PICK g : g = [f EXCEPT !.pc = "prepare", !.at = a]
  OBVIOUS
<1>6. g \in Frame /\ g.pc = "prepare" /\ g.at = a /\ g.op = "start" /\ g.job = j
  BY <1>4, <1>5 DEF Frame
<1>7. g # Idle
  BY <1>6 DEF Idle
<1>8. call' = [call EXCEPT ![Drain] = g]
  BY <1>3, <1>5
<1>9. CallType' /\ call'[Drain] = g /\ \A t \in Threads : t # Drain => call'[t] = call[t]
  BY <1>2, <1>6, <1>8 DEF CallType
<1>10. job'[j] = x /\ \A k \in Jobs : k # j => job'[k] = job[k]
  BY <1>2 DEF JobType
<1>11. CallOK(Drain)'
  <2>1. Latest(j)' = Latest(j)
    BY <1>1
  <2> QED BY <2>1, <1>4, <1>6, <1>9, <1>10 DEF CallOK
<1>12. \A t \in Threads : call'[t] = call[t] \/ CallOK(t)'
  BY <1>9, <1>11
<1>13. DrainType' /\ DrainOK'
  <2>1. Cardinality(drain.set) + Cardinality(drain.queue) < MaxConcurrent
    BY <1>2, DrainParts DEF DrainOK
  <2>2. \A i \in drain.queue : job'[i].status # "None"
    BY <1>10, DrainParts DEF DrainOK
  <2>3. \A r \in drain.set : run[r] # Absent /\ ~ run[r].aborted
    BY DrainParts DEF DrainOK
  <2> QED BY <2>1, <2>2, <2>3, <1>1 DEF DrainOK, Types, DrainType
<1>14. AttemptsBounded'
  <2>1. Requeuing' \subseteq Requeuing
    BY <1>9, SubagentsAssumption DEF Requeuing, Threads
  <2> QED BY <2>1, <1>1, BoundedKept DEF Types, Shape
<1>15. SpawnedOnce'
  <2>1. ASSUME NEW r \in Runs, Unspawned(r)
        PROVE  Unspawned(r)'
    BY <2>1, <1>1, BoundKept DEF Unspawned
  <2>2. ASSUME NEW k \in Jobs, job[k].status = "Queued"
        PROVE  Unspawned(<<k, Latest(k)>>)'
    <3>1. Latest(k) # 0
      BY <2>2, <1>1 DEF Shape, JobsOK
    <3>2. PICK q : q = <<k, Latest(k)>>
      OBVIOUS
    <3>3. q \in Runs
      BY <3>1, <3>2, <1>1, LatestType, AttemptsAssumption DEF Runs
    <3>4. Unspawned(q)'
      BY <2>2, <3>2, <3>3, <1>1, <2>1 DEF Shape, SpawnedOnce
    <3> QED BY <3>2, <3>4, <1>1
  <2>3. Unspawned(<<j, a>>)'
    BY <2>2, <1>1, <1>3
  <2>4. \A k \in Jobs : job'[k].status = "Queued" => job[k].status = "Queued"
    BY <1>10
  <2> QED BY <2>2, <2>3, <2>4, <1>6, <1>9, <1>10 DEF SpawnedOnce
<1>16. Latest(j)' # 0
  BY <1>1, <1>3, <1>4
<1>17. x.status # "None"
  OBVIOUS
<1>18. Inductive'
  BY <1>0, <1>1, <1>9, <1>12, <1>13, <1>14, <1>15, <1>16, <1>17, JobMoves
<1> QED BY <1>0, <1>18

(* requeue_subagent is committed. *)
LEMMA RequeueCommitted ==
  ASSUME Inductive, NEW c \in Callers, NEW j \in Jobs, call[c] # Idle, call[c].op = "requeue",
         job[j].status # "None", NEW x \in SubagentJob, x.status = "Queued",
         job' = [job EXCEPT ![j] = x], call' = [call EXCEPT ![c] = Idle], Register(j),
         UNCHANGED <<transcript, run, drain, process, budget>>
  PROVE  Inductive' /\ Final
<1>1. Types /\ Shape /\ InboxType /\ Mail /\ CallType /\ JobType /\ AttemptsBounded
  BY DEF Inductive, Types, Shape, Mail
<1>2. c \in Threads /\ c # Drain /\ Drain \in Threads
  BY SubagentsAssumption DEF Threads
<1>3. CallType' /\ call'[c] = Idle /\ \A t \in Threads : t # c => call'[t] = call[t]
  BY <1>1, <1>2 DEF CallType
<1>4. /\ c \in Requeuing /\ Requeuing' = Requeuing \ {c}
      /\ IsFiniteSet(Requeuing) /\ Cardinality(Requeuing) \in Nat
  <2>1. c \in Requeuing
    BY DEF Requeuing
  <2>2. Requeuing' = Requeuing \ {c}
    BY <1>2, <1>3 DEF Requeuing, Threads
  <2>3. Requeuing \in SUBSET Callers
    BY DEF Requeuing
  <2> QED BY <2>1, <2>2, <2>3, FiniteParts
<1>5. Cardinality(Requeuing)' = Cardinality(Requeuing) - 1 /\ Cardinality(Requeuing) # 0
  BY <1>4, FS_RemoveElement, FS_EmptySet
<1>6. budget.requeues \in Nat /\ \A k \in Jobs : Latest(k) \in Nat
  BY <1>1, LatestType DEF Types, ProcessType
<1>7. Latest(j) < MaxAttempts
  BY <1>1, <1>4, <1>5, <1>6, AttemptsAssumption DEF AttemptsBounded
<1>8. Mail' /\ Final /\ Registers(j)
  BY <1>1, <1>7, RegisterMail
<1>9. Grows
  BY <1>1, <1>8, RegistersGrows
<1>10. /\ Latest(j)' = Latest(j) + 1
       /\ \A k \in Jobs : k # j => Latest(k)' = Latest(k)
  BY <1>8 DEF Registers
<1>11. AttemptsBounded'
  <2>1. budget'.requeues + Cardinality(Requeuing)' < MaxAttempts
    BY <1>1, <1>4, <1>5, <1>6, AttemptsAssumption DEF AttemptsBounded
  <2>2. ASSUME NEW k \in Jobs
        PROVE  Latest(k)' + budget'.requeues + Cardinality(Requeuing)' <= MaxAttempts
    <3>1. Latest(k) + budget.requeues + Cardinality(Requeuing) <= MaxAttempts
      BY <1>1 DEF AttemptsBounded
    <3>2. Latest(k)' = Latest(k) \/ Latest(k)' = Latest(k) + 1
      BY <1>10
    <3> QED BY <3>1, <3>2, <1>4, <1>5, <1>6, AttemptsAssumption
  <2> QED BY <2>1, <2>2 DEF AttemptsBounded
<1>12. job'[j] = x /\ \A k \in Jobs : k # j => job'[k] = job[k]
  BY <1>1 DEF JobType
<1>13. call'[Drain] = call[Drain]
  BY <1>2, <1>3
<1>14. DrainType' /\ DrainOK'
  <2>1. \A i \in drain.queue : job'[i].status # "None"
    BY <1>12, DrainParts DEF DrainOK
  <2> QED BY <2>1, <1>1, <1>13 DEF DrainOK, Shape, Types, DrainType
<1>15. SpawnedOnce'
  <2>1. \A k \in Jobs : job'[k].status = "Queued" =>
            \/ job[k].status = "Queued" /\ Latest(k)' = Latest(k)
            \/ Latest(k)' = Latest(k) + 1
    BY <1>10, <1>12
  <2> QED BY <2>1, <1>1, <1>8, <1>9, <1>13, SpawnedKept DEF Types, Shape, Mail
<1>16. \A t \in Threads : call'[t] = call[t] \/ CallOK(t)'
  BY <1>3 DEF CallOK
<1>17. Latest(j)' # 0 /\ x.status # "None"
  BY <1>6, <1>10
<1>18. Inductive'
  BY <1>3, <1>8, <1>9, <1>10, <1>11, <1>14, <1>15, <1>16, <1>17, JobMoves
<1> QED BY <1>8, <1>18

(* A job is ended, with the inbox events that were staged. *)
LEMMA EndCommitted ==
  ASSUME Inductive, NEW t \in Threads, NEW j \in Jobs,
         job[j].status # "None", NEW x \in SubagentJob, x.status \notin {"None", "Queued"},
         job' = [job EXCEPT ![j] = x], call' = [call EXCEPT ![t] = Idle],
         Mail', Final, SameShape,
         UNCHANGED <<run, drain, process, budget>>
  PROVE  Inductive' /\ Final
<1>1. Types /\ Shape /\ InboxType /\ InboxType' /\ CallType /\ JobType /\ Grows
      /\ \A k \in Jobs : Latest(k)' = Latest(k)
  BY SameShapeGrows DEF Inductive, Types, Mail
<1>2. CallType' /\ call'[t] = Idle /\ \A u \in Threads : u # t => call'[u] = call[u]
  BY <1>1 DEF CallType
<1>3. job'[j] = x /\ \A k \in Jobs : k # j => job'[k] = job[k]
  BY <1>1 DEF JobType
<1>4. call'[Drain] = call[Drain] \/ call'[Drain] = Idle
  BY <1>2 DEF Threads
<1>5. DrainType' /\ DrainOK'
  <2>1. \A i \in drain.queue : job'[i].status # "None"
    BY <1>3, DrainParts DEF DrainOK
  <2> QED BY <2>1, <1>1, <1>4 DEF DrainOK, Shape, Types, DrainType
<1>6. AttemptsBounded'
  <2>1. Requeuing' \subseteq Requeuing
    BY <1>2 DEF Requeuing, Threads
  <2> QED BY <2>1, <1>1, BoundedKept DEF Types, Shape
<1>7. SpawnedOnce'
  <2>1. \A k \in Jobs : job'[k].status = "Queued" => job[k].status = "Queued" /\ Latest(k)' = Latest(k)
    BY <1>1, <1>3
  <2>2. call'[Drain].pc = "prepare" => call'[Drain] = call[Drain]
    BY <1>4 DEF Idle
  <2> QED BY <2>1, <2>2, <1>1, SpawnedKept DEF Types, Shape
<1>8. \A u \in Threads : call'[u] = call[u] \/ CallOK(u)'
  BY <1>2 DEF CallOK
<1>9. Latest(j)' # 0 /\ x.status # "None"
  BY <1>1 DEF Shape, JobsOK
<1>10. Inductive'
  BY <1>1, <1>2, <1>5, <1>6, <1>7, <1>8, <1>9, JobMoves
<1> QED BY <1>10

(* commit_subagent, whatever becomes of it. *)
LEMMA CommitStep ==
  ASSUME Inductive, NEW t \in Threads, call[t] # Idle, Commit(t)
  PROVE  Inductive' /\ Final
<1>1. CallType /\ JobType /\ CallOK(t) /\ Mail
  BY DEF Inductive, Types, Shape, CallsOK
<1>2. PICK f \in Frame : f = call[t]
  BY <1>1, CallLive
<1>3. PICK j \in Jobs : j = f.job
  BY DEF Frame
<1>4. f.op \in Operation /\ f.at \in 0 .. MaxAttempts
  BY DEF Frame
<1>5. job[j].status \in Status
  BY <1>1 DEF JobType, SubagentJob
<1>6. /\ f.pc = "commit" /\ job[j].status # "None" /\ f.on \in 1 .. Latest(j)
      /\ t = Drain <=> f.op \notin {"cancel", "requeue"}
  <2>1. f.pc = "commit"
    BY <1>2 DEF Commit
  <2> QED BY <2>1, <1>1, <1>2, <1>3 DEF CallOK
<1>7. transcript' = transcript /\ process' = process /\ budget' = budget
  BY DEF Commit
<1> DEFINE valid == TransitionValid(job[j].status, Goal(f.op))
<1>8. CASE ~ valid
  <2>1. Refused(t) /\ UNCHANGED <<job, inbox, receipt, scope>>
    BY <1>2, <1>3, <1>8 DEF Commit
  <2> QED BY <2>1, <1>7, RefusedStep
<1>9. CASE valid /\ ~ StagedFits(f)
  <2>1. /\ call' = [call EXCEPT ![t].pc = "stage"]
        /\ UNCHANGED <<job, inbox, receipt, scope, run, drain>>
    BY <1>2, <1>3, <1>9 DEF Commit
  <2>2. call' = [call EXCEPT ![t] = [call[t] EXCEPT !.pc = "stage"]]
    BY <2>1, <1>1 DEF CallType
  <2> QED BY <2>1, <2>2, <1>7, CallGoesStep
<1>10. CASE valid /\ StagedFits(f)
  <2>1. PICK x : x = [status |-> Goal(f.op), result |-> IF f.op = "complete" THEN f.at ELSE 0]
    OBVIOUS
  <2>2. /\ Goal(f.op) \in Status /\ Goal(f.op) # "None"
        /\ Goal(f.op) = "Queued" <=> f.op = "requeue"
        /\ f.op = "start" => job[j].status = "Queued"
    BY <1>4, <1>5, <1>10, Transitions
  <2>3. x \in SubagentJob /\ x.status = Goal(f.op)
    BY <2>1, <2>2, <1>4, AttemptsAssumption DEF SubagentJob
  <2>4. /\ StagedEvents(f)
        /\ job' = [job EXCEPT ![j] = x]
        /\ call' = [call EXCEPT ![t] = IF f.op = "start"
                                       THEN [f EXCEPT !.pc = "prepare", !.at = Latest(j)]
                                       ELSE Idle]
        /\ UNCHANGED <<run, drain>>
    BY <2>1, <1>2, <1>3, <1>10 DEF Commit
  <2>5. CASE f.op = "start"
    <3>1. UNCHANGED <<inbox, receipt, scope>>
      BY <2>4, <2>5 DEF StagedEvents
    <3>2. t = Drain /\ x.status = "Running"
      BY <1>6, <2>3, <2>5 DEF Goal
    <3>3. call' = [call EXCEPT ![Drain] = [f EXCEPT !.pc = "prepare", !.at = Latest(j)]]
      BY <2>4, <2>5, <3>2
    <3>4. call[Drain] = f /\ f.job = j /\ job[j].status = "Queued" /\ x \in SubagentJob
      BY <1>2, <1>3, <2>2, <2>3, <2>5, <3>2
    <3>5. UNCHANGED <<inbox, receipt, scope, transcript, run, drain, process, budget>>
      BY <3>1, <2>4, <1>7
    <3>6. job' = [job EXCEPT ![j] = x] /\ x.status = "Running"
      BY <2>4, <3>2
    <3> QED BY <2>5, <3>3, <3>4, <3>5, <3>6, StartCommitted
  <2>6. CASE f.op = "requeue"
    <3>1. Register(j)
      BY <2>4, <2>6, <1>3 DEF StagedEvents
    <3>2. t \in Callers /\ x.status = "Queued"
      BY <1>6, <2>3, <2>6 DEF Goal, Threads
    <3>3. call' = [call EXCEPT ![t] = Idle]
      BY <2>4, <2>6
    <3> QED BY <2>3, <2>4, <2>6, <3>1, <3>2, <3>3, <1>2, <1>6, <1>7, RequeueCommitted
  <2>7. CASE f.op \notin {"start", "requeue"}
    <3>1. Mail' /\ Final /\ SameShape
      <4>1. CASE f.seen.open
        <5>1. Close(j, f.on)
          BY <2>4, <2>7, <4>1, <1>3 DEF StagedEvents
        <5> QED BY <5>1, <1>1, <1>6, <1>7, CloseMail
      <4>2. CASE ~ f.seen.open
        <5>1. UNCHANGED <<inbox, receipt, scope>>
          BY <2>4, <2>7, <4>2 DEF StagedEvents
        <5> QED BY <5>1, <1>1, <1>7, KeepMail
      <4> QED BY <4>1, <4>2
    <3>2. call' = [call EXCEPT ![t] = Idle]
      BY <2>4, <2>7
    <3>3. x.status \notin {"None", "Queued"}
      BY <2>2, <2>3, <2>7
    <3> QED BY <2>3, <2>4, <3>1, <3>2, <3>3, <1>6, <1>7, EndCommitted
  <2> QED BY <2>5, <2>6, <2>7
<1> QED BY <1>8, <1>9, <1>10

(* create_subagent. *)
LEMMA CreateStep ==
  ASSUME Inductive, NEW j \in Jobs, Create(j)
  PROVE  Inductive' /\ Final
<1>1. Types /\ Shape /\ InboxType /\ Mail /\ CallType /\ JobType /\ AttemptsBounded
  BY DEF Inductive, Types, Shape, Mail
<1>2. /\ job[j].status = "None" /\ Register(j)
      /\ job' = [job EXCEPT ![j].status = "Queued"]
      /\ drain' = [drain EXCEPT !.notified = drain.pc # "idle"]
      /\ UNCHANGED <<transcript, run, call, process, budget>>
  BY DEF Create
<1>3. PICK x : x = [job[j] EXCEPT !.status = "Queued"]
  OBVIOUS
<1>4. x \in SubagentJob /\ x.status = "Queued"
  BY <1>1, <1>3 DEF JobType, SubagentJob, Status
<1>5. job' = [job EXCEPT ![j] = x]
  BY <1>1, <1>2, <1>3 DEF JobType
<1>6. Requeuing' = Requeuing /\ Cardinality(Requeuing) \in Nat
  <2>1. Requeuing \in SUBSET Callers
    BY DEF Requeuing
  <2> QED BY <2>1, <1>2, FiniteParts DEF Requeuing
<1>7. budget.requeues \in Nat /\ \A k \in Jobs : Latest(k) \in Nat
  BY <1>1, LatestType DEF Types, ProcessType
<1>8. Latest(j) = 0 /\ Latest(j) < MaxAttempts
  <2>1. Latest(j) = 0
    BY <1>1, <1>2 DEF Shape, JobsOK
  <2>2. budget.requeues + Cardinality(Requeuing) < MaxAttempts
    BY <1>1 DEF AttemptsBounded
  <2> QED BY <2>1, <2>2, <1>6, <1>7, AttemptsAssumption
<1>9. Mail' /\ Final /\ Registers(j)
  BY <1>1, <1>2, <1>8, RegisterMail
<1>10. Grows
  BY <1>1, <1>9, RegistersGrows
<1>11. Latest(j)' = 1 /\ \A k \in Jobs : k # j => Latest(k)' = Latest(k)
  BY <1>8, <1>9 DEF Registers
<1>12. AttemptsBounded'
  <2>0. Cardinality(Requeuing)' = Cardinality(Requeuing) /\ budget' = budget
    BY <1>2, <1>6
  <2>1. budget'.requeues + Cardinality(Requeuing)' < MaxAttempts
    BY <2>0, <1>1 DEF AttemptsBounded
  <2>2. ASSUME NEW k \in Jobs
        PROVE  Latest(k)' + budget'.requeues + Cardinality(Requeuing)' <= MaxAttempts
    <3>1. CASE k = j
      BY <3>1, <2>0, <2>1, <1>6, <1>7, <1>11, AttemptsAssumption
    <3>2. CASE k # j
      BY <3>2, <2>0, <1>1, <1>11 DEF AttemptsBounded
    <3> QED BY <3>1, <3>2
  <2> QED BY <2>1, <2>2 DEF AttemptsBounded
<1>13. job'[j] = x /\ \A k \in Jobs : k # j => job'[k] = job[k]
  BY <1>1, <1>5 DEF JobType
<1>14. DrainType' /\ DrainOK'
  <2>0. PICK b \in BOOLEAN : b = (drain.pc # "idle")
    OBVIOUS
  <2>1. drain' = [drain EXCEPT !.notified = b]
    BY <2>0, <1>2
  <2>2. DrainType' /\ drain'.set = drain.set /\ drain'.queue = drain.queue
    BY <2>1, <1>1 DEF Types, DrainType
  <2>3. \A i \in drain.queue : job'[i].status # "None"
    BY <1>4, <1>13, DrainParts DEF DrainOK
  <2> QED BY <2>2, <2>3, <1>1, <1>2 DEF DrainOK, Shape
<1>15. SpawnedOnce'
  <2>1. \A k \in Jobs : job'[k].status = "Queued" =>
            \/ job[k].status = "Queued" /\ Latest(k)' = Latest(k)
            \/ Latest(k)' = Latest(k) + 1
    BY <1>8, <1>11, <1>13
  <2> QED BY <2>1, <1>1, <1>2, <1>9, <1>10, SpawnedKept DEF Types, Shape, Mail
<1>16. \A t \in Threads : call'[t] = call[t] \/ CallOK(t)'
  BY <1>2
<1>17. Latest(j)' # 0 /\ x.status # "None" /\ CallType'
  BY <1>1, <1>2, <1>4, <1>11 DEF CallType
<1>18. Inductive'
  BY <1>2, <1>4, <1>5, <1>9, <1>10, <1>11, <1>12, <1>14, <1>15, <1>16, <1>17, JobMoves
<1> QED BY <1>9, <1>18

-----------------------------------------------------------------------------
(* Senders and recovery. *)

LEMMA SendStep ==
  ASSUME Inductive, NEW j \in Jobs, NEW a \in 1 .. Latest(j), NEW m \in Messages, Send(m, j, a)
  PROVE  Inductive' /\ Final
<1>1. Mail' /\ Final /\ SameShape
  BY SendMail DEF Inductive
<1>2. UNCHANGED <<job, run, drain, call, budget>> /\ process' \in {"up", "down", "jobs", "inboxes"}
  BY DEF Send
<1> QED BY <1>1, <1>2, MailOnly

LEMMA RecoverInboxStep ==
  ASSUME Inductive, NEW r \in Runs, RecoverInbox(r[1], r[2])
  PROVE  Inductive' /\ Final
<1>1. /\ <<r[1], r[2]>> \in Stale /\ Close(r[1], r[2])
      /\ UNCHANGED <<transcript, job, run, drain, call, budget>>
      /\ process' \in {"up", "down", "jobs", "inboxes"}
  BY DEF RecoverInbox
<1>2. r[1] \in Jobs /\ r[2] \in 1 .. MaxAttempts
  BY RunParts
<1>3. r[2] <= Latest(r[1])
  BY <1>1 DEF Stale
<1>4. r[2] \in 1 .. Latest(r[1])
  BY <1>2, <1>3, LatestType, AttemptsAssumption DEF Inductive, Mail
<1>5. Mail' /\ Final /\ SameShape
  BY <1>1, <1>2, <1>4, CloseMail DEF Inductive
<1> QED BY <1>1, <1>5, MailOnly

LEMMA RestartStep ==
  ASSUME Inductive, Restart \/ Recovered
  PROVE  Inductive' /\ Final
<1>1. /\ UNCHANGED <<inbox, receipt, scope, transcript>>
      /\ UNCHANGED <<job, run, drain, call, budget>>
      /\ process' \in {"up", "down", "jobs", "inboxes"}
  BY DEF Restart, Recovered
<1>2. Mail' /\ Final /\ SameShape
  BY <1>1, KeepMail DEF Inductive
<1> QED BY <1>1, <1>2, MailOnly

LEMMA StutterStep ==
  ASSUME Inductive, UNCHANGED vars
  PROVE  Inductive' /\ Final
<1>1. /\ UNCHANGED <<inbox, receipt, scope, transcript>>
      /\ UNCHANGED <<job, run, drain, call, budget>> /\ process' = process
  BY DEF vars
<1>2. Mail' /\ Final /\ SameShape
  BY <1>1, KeepMail DEF Inductive
<1>3. process' \in {"up", "down", "jobs", "inboxes"}
  BY <1>1 DEF Inductive, Types, ProcessType
<1> QED BY <1>1, <1>2, <1>3, MailOnly

LEMMA RecoverJobStep ==
  ASSUME Inductive, NEW j \in Jobs, RecoverJob(j)
  PROVE  Inductive' /\ Final
<1>1. Types /\ Shape /\ InboxType /\ Mail /\ CallType /\ JobType
  BY DEF Inductive, Types, Mail
<1>2. /\ job[j].status = "Running" /\ Close(j, Latest(j))
      /\ job' = [job EXCEPT ![j].status = "Interrupted"]
      /\ UNCHANGED <<transcript, run, drain, call, process, budget>>
  BY DEF RecoverJob, Running
<1>3. PICK x : x = [job[j] EXCEPT !.status = "Interrupted"]
  OBVIOUS
<1>4. x \in SubagentJob /\ x.status = "Interrupted"
  BY <1>1, <1>3 DEF JobType, SubagentJob, Status
<1>5. job' = [job EXCEPT ![j] = x]
  BY <1>1, <1>2, <1>3 DEF JobType
<1>6. Latest(j) # 0 /\ Latest(j) \in 1 .. Latest(j)
  BY <1>1, <1>2, LatestType DEF Shape, JobsOK
<1>7. Mail' /\ Final /\ SameShape
  BY <1>1, <1>2, <1>6, CloseMail
<1>8. Grows /\ InboxType' /\ \A k \in Jobs : Latest(k)' = Latest(k)
  BY <1>1, <1>7, SameShapeGrows DEF Mail
<1>9. job'[j] = x /\ \A k \in Jobs : k # j => job'[k] = job[k]
  BY <1>1, <1>5 DEF JobType
<1>10. DrainType' /\ DrainOK'
  <2>1. \A i \in drain.queue : job'[i].status # "None"
    BY <1>4, <1>9, DrainParts DEF DrainOK
  <2> QED BY <2>1, <1>1, <1>2 DEF DrainOK, Shape, Types, DrainType
<1>11. AttemptsBounded'
  <2>1. Requeuing' = Requeuing
    BY <1>2 DEF Requeuing
  <2> QED BY <2>1, <1>1, <1>2, <1>8, BoundedKept DEF Types, Shape
<1>12. SpawnedOnce'
  <2>1. \A k \in Jobs : job'[k].status = "Queued" => job[k].status = "Queued" /\ Latest(k)' = Latest(k)
    BY <1>4, <1>8, <1>9
  <2> QED BY <2>1, <1>1, <1>2, <1>8, SpawnedKept DEF Types, Shape
<1>13. CallType' /\ Latest(j)' # 0 /\ x.status # "None"
  BY <1>1, <1>2, <1>4, <1>6, <1>8 DEF CallType
<1>14. Inductive'
  BY <1>2, <1>4, <1>5, <1>7, <1>8, <1>10, <1>11, <1>12, <1>13, JobMoves
<1> QED BY <1>7, <1>14

(* The process stops: no run, call or drain is left. *)
LEMMA CrashStep ==
  ASSUME Inductive, Crash
  PROVE  Inductive' /\ Final
<1>1. /\ process' = "down" /\ budget' = [budget EXCEPT !.crashes = @ - 1] /\ budget.crashes > 0
      /\ drain' = NoDrain /\ call' = [t \in Threads |-> Idle] /\ run' = [r \in Runs |-> Absent]
      /\ UNCHANGED <<job, inbox, receipt, transcript, scope>>
  BY DEF Crash
<1>2. Mail' /\ Final /\ SameShape
  BY <1>1, KeepMail DEF Inductive
<1>3. Types /\ Shape /\ InboxType /\ InboxType' /\ Grows /\ \A k \in Jobs : Latest(k)' = Latest(k)
  BY <1>2, SameShapeGrows DEF Inductive, Mail
<1>4. /\ \A t \in Threads : call'[t] = Idle
      /\ \A r \in Runs : run'[r] = Absent
  BY <1>1
<1>5. budget' \in [jobs: Nat, messages: Nat, requeues: Nat, crashes: Nat]
      /\ budget'.requeues = budget.requeues
  <2>1. budget.crashes - 1 \in Nat
    BY <1>1, <1>3 DEF Types, ProcessType
  <2> QED BY <2>1, <1>1, <1>3 DEF Types, ProcessType
<1>6. Types'
  <2>1. RunType' /\ CallType'
    BY <1>1 DEF RunType, CallType
  <2>2. DrainType'
    BY <1>1, NoDrainParts DEF DrainType
  <2>3. JobType' /\ ProcessType'
    BY <1>1, <1>3, <1>5 DEF Types, JobType, ProcessType
  <2> QED BY <2>1, <2>2, <2>3 DEF Types
<1>7. JobsOK' /\ JobsLast
  BY <1>1, <1>3 DEF Shape, JobsOK, JobsLast
<1>8. \A t \in Threads : CallOK(t)'
  BY <1>4 DEF CallOK
<1>9. \A r \in Runs : RunOK(r)'
  BY <1>4 DEF RunOK
<1>10. AttemptsBounded'
  <2>1. Requeuing' \subseteq Requeuing
    BY <1>4 DEF Requeuing, Threads
  <2> QED BY <2>1, <1>3, <1>5, BoundedKept DEF Types, Shape
<1>11. Drain \in Threads /\ Idle.pc # "prepare"
  BY DEF Threads, Idle
<1>12. DrainOK'
  BY <1>1, <1>4, <1>11, NoDrainParts DEF DrainOK
<1>13. SpawnedOnce'
  BY <1>1, <1>3, <1>4, <1>11, SpawnedKept DEF Types, Shape
<1>14. Shape'
  BY <1>3, <1>6, <1>7, <1>8, <1>9, <1>10, <1>12, <1>13, ShapeStep
<1> QED BY <1>2, <1>6, <1>14 DEF Inductive

-----------------------------------------------------------------------------
(* The invariant. *)

LEMMA InitInductive == Init => Inductive
<1> SUFFICES ASSUME Init
             PROVE  Inductive
  OBVIOUS
<1>1. /\ \A j \in Jobs : job[j].status = "None" /\ inbox[j] = << >> /\ transcript[j] = << >>
      /\ \A m \in Messages : receipt[m] = "unsent"
      /\ \A r \in Runs : run[r] = Absent
      /\ \A t \in Threads : call[t] = Idle
      /\ scope = 0 /\ drain = NoDrain /\ process = "up" /\ budget \in Budgets
  BY DEF Init
<1>2. \A j \in Jobs : Latest(j) = 0 /\ inbox[j] \in Seq(Attempt) /\ transcript[j] \in Seq(Messages)
                      /\ Len(transcript[j]) = 0
  <2>1. Len(<< >>) = 0 /\ << >> \in Seq(Attempt) /\ << >> \in Seq(Messages)
    OBVIOUS
  <2> QED BY <2>1, <1>1, Zenon DEF Latest
<1>3. Drain \in Threads /\ Idle.pc # "prepare"
  BY DEF Threads, Idle
<1>4. Types
  <2>1. RunType /\ CallType
    BY DEF Init, RunType, CallType
  <2>2. DrainType
    BY <1>1, NoDrainParts DEF DrainType
  <2>3. JobType
    BY AttemptsAssumption DEF Init, JobType, SubagentJob, Status
  <2>4. ProcessType
    BY <1>1, SubagentsAssumption DEF ProcessType
  <2> QED BY <2>1, <2>2, <2>3, <2>4 DEF Types
<1>5. Mail
  <2>1. InboxType
    BY <1>2, AttemptsAssumption DEF Init, InboxType, Latest
  <2>2. MailType
    BY <1>2, SubagentsAssumption DEF Init, MailType
  <2>3. PendingAccepted /\ PendingOnce
    BY <1>2 DEF PendingAccepted, PendingOnce
  <2>4. AcceptedPends /\ TranscriptsOK
    BY <1>1, <1>2 DEF AcceptedPends, TranscriptsOK
  <2>5. ScopeAccounted
    <3>1. {m \in Messages : receipt[m] = "Accepted"} = {}
      BY <1>1
    <3> QED BY <3>1, <1>1, FS_EmptySet DEF ScopeAccounted
  <2> QED BY <2>1, <2>2, <2>3, <2>4, <2>5 DEF Mail
<1>6. Shape
  <2>1. JobsOK
    BY <1>1, <1>2 DEF JobsOK
  <2>2. CallsOK /\ RunsOK
    BY <1>1 DEF CallsOK, CallOK, RunsOK, RunOK
  <2>3. AttemptsBounded
    <3>1. Requeuing = {}
      BY <1>1 DEF Requeuing, Threads
    <3>2. Cardinality(Requeuing) = 0
      BY <3>1, FS_EmptySet
    <3>3. budget.requeues \in Nat /\ budget.requeues < MaxAttempts
      BY <1>1, SubagentsAssumption, AttemptsAssumption
    <3> QED BY <3>2, <3>3, <1>2, AttemptsAssumption DEF AttemptsBounded
  <2>4. DrainOK
    BY <1>1, <1>3, NoDrainParts DEF DrainOK
  <2>5. BindingsOK
    BY <1>2 DEF BindingsOK
  <2>6. SpawnedOnce
    BY <1>1, <1>3 DEF SpawnedOnce
  <2> QED BY <2>1, <2>2, <2>3, <2>4, <2>5, <2>6 DEF Shape
<1> QED BY <1>4, <1>5, <1>6 DEF Inductive

LEMMA SchedulingStep ==
  ASSUME Inductive, Scheduling
  PROVE  Inductive' /\ Final
<1>1. Drain \in Threads
  BY DEF Threads
<1> QED BY <1>1, DrainBeginStep, ListStep, StartedStep, NotifiedStep, StartNextStep, CheckStep,
           StageStep, CommitStep, PrepareStep, LatestStatusStep, JoinStep, Zenon DEF Scheduling

LEMMA RunStepStep ==
  ASSUME Inductive, NEW r \in Runs, RunStep(r)
  PROVE  Inductive' /\ Final
<1>1. ToolTurn(r) => Inductive' /\ Final
  BY NextTurn DEF ToolTurn
<1> QED BY <1>1, BeginReadStep, BeginCommitStep, PrepareInputStep, IncludeStep, AnswerStep,
           EndsStep, RunFailsStep, AbortedStep, Zenon DEF RunStep

LEMMA NextStep ==
  ASSUME Inductive, [Next]_vars
  PROVE  Inductive' /\ Final
<1>1. Scheduling => Inductive' /\ Final
  BY SchedulingStep
<1>2. \A r \in Runs : RunStep(r) => Inductive' /\ Final
  BY RunStepStep
<1>3. \A c \in Callers : Serving(c) => Inductive' /\ Final
  <2>1. \A c \in Callers : c \in Threads
    BY DEF Threads
  <2> QED BY <2>1, StageStep, CommitStep, Zenon DEF Serving
<1>4. \A c \in Callers, op \in {"cancel", "requeue"}, j \in Jobs :
        Request(c, op, j) => Inductive' /\ Final
  BY RequestStep
<1>5. \A j \in Jobs : Create(j) => Inductive' /\ Final
  BY CreateStep
<1>6. \A j \in Jobs, m \in Messages : \A a \in 1 .. Latest(j) : Send(m, j, a) => Inductive' /\ Final
  BY SendStep
<1>7. Crash => Inductive' /\ Final
  BY CrashStep
<1>8. Recovery => Inductive' /\ Final
  BY RestartStep, RecoverJobStep, RecoverInboxStep, Zenon DEF Recovery
<1>9. UNCHANGED vars => Inductive' /\ Final
  BY StutterStep
<1> QED BY <1>1, <1>2, <1>3, <1>4, <1>5, <1>6, <1>7, <1>8, <1>9, Zenon DEF Next

LEMMA Invariance == Spec => []Inductive
<1>1. Inductive /\ [Next]_vars => Inductive'
  BY NextStep
<1> QED BY <1>1, InitInductive, PTL DEF Spec

(* Whatever callers, the drain, child runs, crashes and recovery do to the  *)
(* inboxes of child agents (commit_subagent, include, try_complete,         *)
(* close_run, recover), every accepted message waits in exactly one open    *)
(* inbox, every included one stands exactly once in a transcript, one that  *)
(* was not delivered is in neither, and the scope counts those that wait.   *)
THEOREM MessagesStayAccounted == Spec => []MessagesAccounted
<1>1. Inductive => MessagesAccounted
  <2> SUFFICES ASSUME Inductive
               PROVE  MessagesAccounted
    OBVIOUS
  <2>1. TypeOK
    BY DEF Inductive, Types, Mail, RunType, DrainType, CallType, JobType, ProcessType, InboxType,
           MailType, TypeOK
  <2>2. MessageInOnePlace
    BY InOnePlace DEF Inductive
  <2>3. ScopeAccounted
    BY DEF Inductive, Mail
  <2> QED BY <2>1, <2>2, <2>3 DEF MessagesAccounted
<1> QED BY <1>1, Invariance, PTL

(* No step takes back a receipt that says IncludedInTurn or NotDelivered:   *)
(* include checks that the participant is the one prepare read, and closing *)
(* settles only what still waits.                                           *)
THEOREM ReceiptsStayFinal == Spec => ReceiptsAreFinal
<1>1. Inductive /\ [Next]_vars => [Final]_receipt
  BY NextStep
<1>2. [Final]_receipt => [\A m \in Messages : receipt[m] \in {"IncludedInTurn", "NotDelivered"} =>
                             receipt'[m] = receipt[m]]_receipt
  BY DEF Final
<1> QED BY <1>1, <1>2, Invariance, PTL DEF Spec, ReceiptsAreFinal

-----------------------------------------------------------------------------
(* Inboxes of jobs that have ended. *)

(* What a call staged to end a job was staged from its latest attempt, if   *)
(* it can still be committed, and what it found closed is closed.           *)
EndingOK(t) ==
    (call[t] # Idle /\ call[t].pc = "commit") =>
        /\ call[t].op = "cancel" => call[t].on = Latest(call[t].job)
        /\ (call[t].op \notin {"start", "cancel", "requeue"} /\ job[call[t].job].status = "Running") =>
             call[t].on = Latest(call[t].job)
        /\ ~ call[t].seen.open => ~ inbox[call[t].job][call[t].on].open

EndingsOK == \A t \in Threads : EndingOK(t)

OneCallerInductive == Inductive /\ EndingsOK /\ EndedInboxIsClosed

OneCaller == \A c, d \in Callers : c = d

(* No attempt is opened again. *)
StaysShut == \A k \in Jobs : \A b \in 1 .. Latest(k) : inbox'[k][b].open => inbox[k][b].open

SameLatest == \A k \in Jobs : Latest(k)' = Latest(k)

LEMMA KeepShut ==
  ASSUME UNCHANGED inbox
  PROVE  StaysShut /\ SameLatest
BY DEF StaysShut, SameLatest, Latest

(* One attempt changes and is not opened. *)
NotOpened(j, a, p) == p.open => inbox[j][a].open

LEMMA UpdateShut ==
  ASSUME InboxType, NEW j \in Jobs, NEW a \in 1 .. Latest(j), NEW p, NotOpened(j, a, p),
         inbox' = [inbox EXCEPT ![j] = [inbox[j] EXCEPT ![a] = p]]
  PROVE  StaysShut /\ SameLatest /\ inbox'[j][a] = p
<1>1. inbox[j] \in Seq(Attempt \cup {p}) /\ a \in 1 .. Len(inbox[j])
  BY DEF InboxType, Latest
<1>2. PICK s : s = [inbox[j] EXCEPT ![a] = p]
  OBVIOUS
<1>3. /\ Len(s) = Len(inbox[j]) /\ s[a] = p
      /\ \A b \in 1 .. Len(inbox[j]) : b # a => s[b] = inbox[j][b]
  BY <1>1, <1>2
<1>4. \A k \in Jobs : inbox'[k] = IF k = j THEN s ELSE inbox[k]
  BY <1>2 DEF InboxType
<1>5. SameLatest /\ inbox'[j][a] = p
  BY <1>3, <1>4 DEF SameLatest, Latest
<1>6. StaysShut
  BY <1>3, <1>4 DEF StaysShut, Latest, NotOpened
<1> QED BY <1>5, <1>6

LEMMA CloseShut ==
  ASSUME InboxType, NEW j \in Jobs, NEW a \in 1 .. Latest(j), Close(j, a)
  PROVE  StaysShut /\ SameLatest /\ ~ inbox'[j][a].open
<1>1. PICK x \in Attempt : x = inbox[j][a]
  BY AttemptParts DEF Latest
<1>2. PICK p : p = [open |-> FALSE, run |-> x.run, pending |-> << >>]
  OBVIOUS
<1>3. [x EXCEPT !.open = FALSE, !.pending = << >>] = p
  BY <1>2, AttemptUpdate, Zenon
<1>4. inbox' = [inbox EXCEPT ![j] = [inbox[j] EXCEPT ![a] = p]]
  <2>1. inbox' = [inbox EXCEPT ![j] =
                    [inbox[j] EXCEPT ![a] = [inbox[j][a] EXCEPT !.open = FALSE, !.pending = << >>]]]
    BY DEF Close, InboxType
  <2> QED BY <2>1, <1>1, <1>3, Zenon
<1>5. ~ p.open
  BY <1>2
<1>6. NotOpened(j, a, p)
  BY <1>5 DEF NotOpened
<1> QED BY <1>4, <1>5, <1>6, UpdateShut

(* The input of an attempt changes. *)
LEMMA InputShut ==
  ASSUME InboxType, NEW j \in Jobs, NEW a \in 1 .. Latest(j), NEW e,
         inbox' = [inbox EXCEPT ![j] = [inbox[j] EXCEPT ![a] = [inbox[j][a] EXCEPT !.pending = e]]]
  PROVE  StaysShut /\ SameLatest
<1>1. PICK x \in Attempt : x = inbox[j][a]
  BY AttemptParts DEF Latest
<1>2. PICK p : p = [open |-> x.open, run |-> x.run, pending |-> e]
  OBVIOUS
<1>3. [x EXCEPT !.pending = e] = p
  BY <1>2, InputUpdate, Zenon
<1>4. inbox' = [inbox EXCEPT ![j] = [inbox[j] EXCEPT ![a] = p]]
  BY <1>1, <1>3, Zenon
<1>5. NotOpened(j, a, p)
  BY <1>1, <1>2 DEF NotOpened
<1> QED BY <1>4, <1>5, UpdateShut

LEMMA BindShut ==
  ASSUME InboxType, NEW j \in Jobs, NEW a \in 1 .. Latest(j), NEW r,
         inbox' = [inbox EXCEPT ![j][a].run = r]
  PROVE  StaysShut /\ SameLatest
<1>1. PICK x \in Attempt : x = inbox[j][a]
  BY AttemptParts DEF Latest
<1>2. PICK p : p = [x EXCEPT !.run = r]
  OBVIOUS
<1>3. inbox' = [inbox EXCEPT ![j] = [inbox[j] EXCEPT ![a] = p]]
  BY <1>1, <1>2 DEF InboxType
<1>4. NotOpened(j, a, p)
  BY <1>1, <1>2 DEF Attempt, NotOpened
<1> QED BY <1>3, <1>4, UpdateShut

(* A call that is staged stays right. *)
LEMMA EndingKept ==
  ASSUME Inductive, StaysShut, NEW t \in Threads, EndingOK(t), call'[t] = call[t],
         \A k \in Jobs : call[t] # Idle /\ call[t].job = k =>
            /\ \/ Latest(k)' = Latest(k)
               \/ call[t].op # "cancel" /\ job'[k].status # "Running"
            /\ \/ job'[k].status = "Running" => job[k].status = "Running"
               \/ call[t].op \in {"start", "cancel", "requeue"}
  PROVE  EndingOK(t)'
<1> SUFFICES ASSUME call[t] # Idle, call[t].pc = "commit"
             PROVE  EndingOK(t)'
  BY DEF EndingOK
<1>1. CallType /\ CallOK(t)
  BY DEF Inductive, Types, Shape, CallsOK
<1>2. PICK f \in Frame : f = call[t]
  BY <1>1, CallLive
<1>3. PICK k \in Jobs : k = f.job
  BY DEF Frame
<1>4. f.on \in 1 .. Latest(k)
  BY <1>1, <1>2, <1>3 DEF CallOK
<1>5. /\ f.op = "cancel" => f.on = Latest(k)
      /\ (f.op \notin {"start", "cancel", "requeue"} /\ job[k].status = "Running") => f.on = Latest(k)
      /\ ~ f.seen.open => ~ inbox[k][f.on].open
  BY <1>2, <1>3 DEF EndingOK
<1>6. /\ \/ Latest(k)' = Latest(k)
         \/ f.op # "cancel" /\ job'[k].status # "Running"
      /\ \/ job'[k].status = "Running" => job[k].status = "Running"
         \/ f.op \in {"start", "cancel", "requeue"}
  BY <1>2, <1>3
<1>7. ~ f.seen.open => ~ inbox'[k][f.on].open
  BY <1>4, <1>5 DEF StaysShut
<1>8. f.op = "cancel" => f.on = Latest(k)'
  BY <1>5, <1>6
<1>9. (f.op \notin {"start", "cancel", "requeue"} /\ job'[k].status = "Running") => f.on = Latest(k)'
  BY <1>5, <1>6
<1> QED BY <1>2, <1>3, <1>7, <1>8, <1>9 DEF EndingOK

(* A step that changes no job, opens no inbox and stages nothing. *)
LEMMA QuietStep ==
  ASSUME OneCallerInductive, StaysShut, SameLatest, UNCHANGED job,
         \A t \in Threads : \/ call'[t] = call[t]
                            \/ call'[t].pc # "commit"
                            \/ EndingOK(t)'
  PROVE  EndingsOK' /\ EndedInboxIsClosed'
<1>1. ASSUME NEW t \in Threads
      PROVE  EndingOK(t)'
  <2>1. CASE call'[t] = call[t]
    <3>1. Inductive /\ EndingOK(t)
      BY DEF OneCallerInductive, EndingsOK
    <3> QED BY <2>1, <3>1, EndingKept DEF SameLatest
  <2>2. CASE call'[t].pc # "commit"
    BY <2>2 DEF EndingOK
  <2> QED BY <2>1, <2>2
<1>2. EndedInboxIsClosed'
  <2> SUFFICES ASSUME NEW j \in Jobs, NEW a \in 1 .. Latest(j)', inbox'[j][a].open
               PROVE  a = Latest(j)' /\ job'[j].status \in {"Queued", "Running"}
    BY Zenon DEF EndedInboxIsClosed
  <2>1. Latest(j)' = Latest(j) /\ inbox[j][a].open
    BY DEF SameLatest, StaysShut
  <2> QED BY <2>1 DEF OneCallerInductive, EndedInboxIsClosed
<1> QED BY <1>1, <1>2 DEF EndingsOK

(* A job ends, with its latest attempt closed. *)
LEMMA EndsShut ==
  ASSUME OneCallerInductive, StaysShut, SameLatest, NEW j \in Jobs, NEW x,
         x.status \notin {"Queued", "Running"},
         job' = [job EXCEPT ![j] = x], ~ inbox'[j][Latest(j)].open,
         \A t \in Threads : call'[t] = call[t] \/ call'[t].pc # "commit"
  PROVE  EndingsOK' /\ EndedInboxIsClosed'
<1>0. JobType /\ Inductive /\ EndedInboxIsClosed
  BY DEF OneCallerInductive, Inductive, Types
<1>1. job'[j] = x /\ \A k \in Jobs : k # j => job'[k] = job[k]
  BY <1>0 DEF JobType
<1>2. ASSUME NEW t \in Threads
      PROVE  EndingOK(t)'
  <2>1. CASE call'[t] = call[t]
    <3>1. Inductive /\ EndingOK(t)
      BY DEF OneCallerInductive, EndingsOK
    <3>2. \A k \in Jobs : job'[k].status = "Running" => job[k].status = "Running"
      BY <1>1
    <3> QED BY <2>1, <3>1, <3>2, EndingKept DEF SameLatest
  <2>2. CASE call'[t].pc # "commit"
    BY <2>2 DEF EndingOK
  <2> QED BY <2>1, <2>2
<1>3. EndedInboxIsClosed'
  <2> SUFFICES ASSUME NEW k \in Jobs, NEW a \in 1 .. Latest(k)', inbox'[k][a].open
               PROVE  a = Latest(k)' /\ job'[k].status \in {"Queued", "Running"}
    BY Zenon DEF EndedInboxIsClosed
  <2>1. Latest(k)' = Latest(k) /\ inbox[k][a].open
    BY DEF SameLatest, StaysShut
  <2>2. a = Latest(k) /\ job[k].status \in {"Queued", "Running"}
    BY <2>1, <1>0 DEF EndedInboxIsClosed
  <2> QED BY <2>1, <2>2, <1>1
<1> QED BY <1>2, <1>3 DEF EndingsOK

(* A job gets another attempt, its earlier ones being closed. *)
LEMMA RegistersShut ==
  ASSUME OneCallerInductive, NEW j \in Jobs, Registers(j), NEW x, x.status = "Queued",
         job' = [job EXCEPT ![j] = x],
         job[j].status \notin {"Queued", "Running"},
         \A t \in Threads : \/ call'[t] = call[t] /\ (call[t] # Idle /\ call[t].job = j => call[t].op # "cancel")
                            \/ call'[t].pc # "commit"
  PROVE  EndingsOK' /\ EndedInboxIsClosed'
<1>0. JobType /\ Inductive /\ EndedInboxIsClosed /\ InboxType
  BY DEF OneCallerInductive, Inductive, Types, Mail
<1>1. job'[j] = x /\ \A k \in Jobs : k # j => job'[k] = job[k]
  BY <1>0 DEF JobType
<1>2. StaysShut
  BY DEF StaysShut, Registers
<1>3. \A k \in Jobs : k # j => Latest(k)' = Latest(k)
  BY DEF Registers
<1>4. ASSUME NEW t \in Threads
      PROVE  EndingOK(t)'
  <2>1. CASE call'[t] = call[t] /\ (call[t] # Idle /\ call[t].job = j => call[t].op # "cancel")
    <3>1. Inductive /\ EndingOK(t)
      BY DEF OneCallerInductive, EndingsOK
    <3>2. ASSUME NEW k \in Jobs, call[t] # Idle, call[t].job = k
          PROVE  /\ Latest(k)' = Latest(k) \/ (call[t].op # "cancel" /\ job'[k].status # "Running")
                 /\ job'[k].status = "Running" => job[k].status = "Running"
      BY <2>1, <3>2, <1>1, <1>3
    <3> QED BY <2>1, <3>1, <3>2, <1>2, EndingKept
  <2>2. CASE call'[t].pc # "commit"
    BY <2>2 DEF EndingOK
  <2> QED BY <2>1, <2>2
<1>5. EndedInboxIsClosed'
  <2> SUFFICES ASSUME NEW k \in Jobs, NEW a \in 1 .. Latest(k)', inbox'[k][a].open
               PROVE  a = Latest(k)' /\ job'[k].status \in {"Queued", "Running"}
    BY Zenon DEF EndedInboxIsClosed
  <2>1. CASE k # j
    <3>1. Latest(k)' = Latest(k) /\ job'[k] = job[k] /\ inbox[k][a].open
      BY <2>1, <1>1, <1>3, <1>2 DEF StaysShut
    <3> QED BY <3>1, <1>0 DEF EndedInboxIsClosed
  <2>2. CASE k = j
    <3>1. Latest(j) \in Nat /\ Latest(j)' = Latest(j) + 1
      BY <1>0, LatestType DEF Registers
    <3>2. \A b \in 1 .. Latest(j) : ~ inbox[j][b].open
      BY <1>0 DEF EndedInboxIsClosed
    <3>3. a \notin 1 .. Latest(j)
      BY <2>2, <3>2, <1>2 DEF StaysShut
    <3>4. a = Latest(j)'
      BY <2>2, <3>1, <3>3
    <3> QED BY <2>2, <3>4, <1>1
  <2> QED BY <2>1, <2>2
<1> QED BY <1>4, <1>5 DEF EndingsOK

(* Steps of child runs. *)
LEMMA RunShut ==
  ASSUME OneCallerInductive, NEW r \in Runs, RunStep(r)
  PROVE  EndingsOK' /\ EndedInboxIsClosed'
<1>1. RunType /\ RunOK(r) /\ InboxType /\ r[1] \in Jobs
  BY RunParts DEF OneCallerInductive, Inductive, Types, Shape, RunsOK, Mail
<1>2. UNCHANGED <<job, call>>
  BY DEF RunStep, BeginRead, BeginCommit, PrepareInput, Include, ToolTurn, Answer, Ends, RunFails,
         Aborted
<1>3. (run[r].pc \in Bound \cup {"binding"}) => run[r].at \in 1 .. Latest(r[1])
  <2>1. run[r].pc \in Bound \cup {"binding"} => run[r] # Absent
    BY <1>1, RunLive DEF Bound
  <2> QED BY <2>1, <1>1 DEF RunOK
<1>4. CloseRun(r) /\ run[r].pc \in Live => StaysShut /\ SameLatest
  <2> SUFFICES ASSUME CloseRun(r), run[r].pc \in Live
               PROVE  StaysShut /\ SameLatest
    OBVIOUS
  <2>1. CASE IsBound(r)
    <3>1. Close(r[1], run[r].at)
      BY <2>1 DEF CloseRun, IsBound
    <3>2. run[r].pc \in Bound
      <4>1. run[r] # Absent
        BY <1>1, RunLive DEF Live
      <4> QED BY <2>1, <4>1, <1>1 DEF RunOK, Live, Bound
    <3> QED BY <3>1, <3>2, <1>1, <1>3, CloseShut
  <2>2. CASE ~ IsBound(r)
    <3>1. UNCHANGED inbox
      BY <2>2 DEF CloseRun, IsBound
    <3> QED BY <3>1, KeepShut
  <2> QED BY <2>1, <2>2
<1>5. StaysShut /\ SameLatest
  <2>1. CASE UNCHANGED inbox
    BY <2>1, KeepShut
  <2>2. CASE BeginCommit(r) /\ inbox' # inbox
    <3>1. run[r].pc = "binding" /\ inbox' = [inbox EXCEPT ![r[1]][run[r].at].run = r]
      BY <2>2 DEF BeginCommit
    <3> QED BY <3>1, <1>1, <1>3, BindShut
  <2>3. CASE Include(r) /\ inbox' # inbox
    <3>1. PICK b : b = Batch(run[r].seen)
      OBVIOUS
    <3>2. /\ run[r].pc \in Bound
          /\ inbox' = [inbox EXCEPT ![r[1]][run[r].at].pending = SubSeq(@, Len(b) + 1, Len(@))]
      BY <2>3, <3>1 DEF Include, Bound
    <3>3. PICK e : e = SubSeq(inbox[r[1]][run[r].at].pending, Len(b) + 1,
                              Len(inbox[r[1]][run[r].at].pending))
      OBVIOUS
    <3>4. PICK a \in 1 .. Latest(r[1]) : a = run[r].at
      BY <3>2, <1>3
    <3>5. inbox' = [inbox EXCEPT ![r[1]] =
                      [inbox[r[1]] EXCEPT ![a] = [inbox[r[1]][a] EXCEPT !.pending = e]]]
      BY <3>2, <3>3, <3>4, <1>1 DEF InboxType
    <3> QED BY <3>5, <1>1, InputShut
  <2>4. CASE Answer(r) /\ inbox' # inbox
    <3>1. Close(r[1], run[r].at) /\ run[r].pc \in Bound
      BY <2>4 DEF Answer, Bound
    <3> QED BY <3>1, <1>1, <1>3, CloseShut
  <2>5. CASE RunFails(r) \/ Aborted(r)
    BY <2>5, <1>4 DEF RunFails, Aborted
  <2>6. BeginRead(r) \/ PrepareInput(r) \/ ToolTurn(r) \/ Ends(r) => UNCHANGED inbox
    BY DEF BeginRead, PrepareInput, ToolTurn, Ends
  <2> QED BY <2>1, <2>2, <2>3, <2>4, <2>5, <2>6, Zenon DEF RunStep
<1> QED BY <1>2, <1>5, QuietStep

(* The drain, but for what it stages and commits. *)
LEMMA DrainShut ==
  ASSUME OneCallerInductive,
         \/ DrainBegin \/ List \/ Started \/ Notified \/ Check \/ Prepare \/ LatestStatus
         \/ \E j \in Jobs : StartNext(j)
         \/ \E r \in Runs : Join(r)
  PROVE  EndingsOK' /\ EndedInboxIsClosed'
<1>1. UNCHANGED <<job, inbox>>
  BY DEF DrainBegin, List, Started, Notified, Check, Prepare, LatestStatus, StartNext, Join
<1>2. CallType /\ Drain \in Threads /\ Idle.pc = "idle"
  BY DEF OneCallerInductive, Inductive, Types, Threads, Idle
<1>3. ASSUME NEW f, f.pc # "commit", call' = [call EXCEPT ![Drain] = f]
      PROVE  \A t \in Threads : call'[t] = call[t] \/ call'[t].pc # "commit"
  BY <1>2, <1>3 DEF CallType
<1>4. \A op, j, a : Begun(op, j, a).pc # "commit"
  BY DEF Begun
<1>5. DrainFails => \E f : f.pc # "commit" /\ call' = [call EXCEPT ![Drain] = f]
  BY <1>2 DEF DrainFails
<1>6. ASSUME NEW pc, pc # "commit", call[Drain].pc \in {"check", "latest"}
      PROVE  [call[Drain] EXCEPT !.pc = pc].pc # "commit"
  <2>1. call[Drain] \in Frame
    BY <1>2, <1>6, CallLive
  <2> QED BY <2>1, <1>6 DEF Frame
<1>7. call' = call \/ \E f : f.pc # "commit" /\ call' = [call EXCEPT ![Drain] = f]
  <2>1. DrainBegin \/ List \/ Started \/ Notified => call' = call
    BY DEF DrainBegin, List, Started, Notified
  <2>2. ASSUME Check
        PROVE  \E f : f.pc # "commit" /\ call' = [call EXCEPT ![Drain] = f]
    <3>1. call[Drain].pc = "check"
      BY <2>2 DEF Check
    <3>2. CASE call' = [call EXCEPT ![Drain].pc = "stage"]
      <4>1. call' = [call EXCEPT ![Drain] = [call[Drain] EXCEPT !.pc = "stage"]]
        BY <3>2, <1>2 DEF CallType
      <4>2. [call[Drain] EXCEPT !.pc = "stage"].pc # "commit"
        BY <3>1, <1>6
      <4> QED BY <4>1, <4>2, Zenon
    <3>3. CASE Refused(Drain)
      <4>1. CASE DrainFails
        BY <4>1, <1>5
      <4>2. CASE ~ DrainFails
        <5>1. call' = [call EXCEPT ![Drain] = [call[Drain] EXCEPT !.pc = "latest"]]
          BY <3>3, <4>2, <1>2 DEF Refused, CallType
        <5>2. [call[Drain] EXCEPT !.pc = "latest"].pc # "commit"
          BY <3>1, <1>6
        <5> QED BY <5>1, <5>2, Zenon
      <4> QED BY <4>1, <4>2
    <3> QED BY <2>2, <3>2, <3>3 DEF Check
  <2>3. ASSUME Prepare
        PROVE  \E f : f.pc # "commit" /\ call' = [call EXCEPT ![Drain] = f]
    <3>1. CASE call' = [call EXCEPT ![Drain] = Idle]
      <4>1. Idle.pc # "commit"
        BY <1>2
      <4> QED BY <3>1, <4>1, Zenon
    <3>2. CASE call' = [call EXCEPT ![Drain] = Begun("unprepared", call[Drain].job, 0)]
      BY <3>2, <1>4, Zenon
    <3> QED BY <2>3, <3>1, <3>2 DEF Prepare
  <2>4. ASSUME LatestStatus
        PROVE  \E f : f.pc # "commit" /\ call' = [call EXCEPT ![Drain] = f]
    <3>1. CASE call' = [call EXCEPT ![Drain] = Idle]
      <4>1. Idle.pc # "commit"
        BY <1>2
      <4> QED BY <3>1, <4>1, Zenon
    <3> QED BY <2>4, <3>1, <1>5 DEF LatestStatus
  <2>5. ASSUME NEW j \in Jobs, StartNext(j)
        PROVE  \E f : f.pc # "commit" /\ call' = [call EXCEPT ![Drain] = f]
    <3>1. call' = [call EXCEPT ![Drain] = Begun("start", j, 0)]
      BY <2>5 DEF StartNext
    <3> QED BY <3>1, <1>4, Zenon
  <2>6. ASSUME NEW r \in Runs, Join(r)
        PROVE  call' = call \/ \E f : f.pc # "commit" /\ call' = [call EXCEPT ![Drain] = f]
    <3>1. CASE Skips(r[1])
      BY <2>6, <3>1 DEF Join
    <3>2. CASE ~ Skips(r[1])
      <4>1. PICK op : op = IF run[r].pc = "ok" THEN "complete" ELSE "fail"
        OBVIOUS
      <4>2. call' = [call EXCEPT ![Drain] = Begun(op, r[1], r[2])]
        BY <2>6, <3>2, <4>1 DEF Join
      <4> QED BY <4>2, <1>4, Zenon
    <3> QED BY <3>1, <3>2
  <2> QED BY <2>1, <2>2, <2>3, <2>4, <2>5, <2>6
<1>8. \A t \in Threads : call'[t] = call[t] \/ call'[t].pc # "commit"
  BY <1>3, <1>7
<1> QED BY <1>1, <1>8, KeepShut, QuietStep

(* What is staged is staged from the latest attempt. *)
LEMMA StageShut ==
  ASSUME OneCallerInductive, NEW t \in Threads, call[t] # Idle, Stage(t)
  PROVE  EndingsOK' /\ EndedInboxIsClosed'
<1>1. UNCHANGED <<job, inbox>>
  BY DEF Stage
<1>2. CallType /\ Idle.pc = "idle"
  BY DEF OneCallerInductive, Inductive, Types, Idle
<1>3. PICK f \in Frame : f = call[t]
  BY <1>2, CallLive
<1>4. PICK a : a = Latest(f.job)
  OBVIOUS
<1>5. PICK g : g = [f EXCEPT !.pc = "commit", !.on = a, !.seen = inbox[f.job][a]]
  OBVIOUS
<1>6. g.on = a /\ g.seen = inbox[f.job][a] /\ g.job = f.job
  BY <1>5 DEF Frame
<1>7. call' = [call EXCEPT ![t] = Idle] \/ call' = [call EXCEPT ![t] = g]
  BY <1>3, <1>4, <1>5 DEF Stage
<1>8. CASE call' = [call EXCEPT ![t] = Idle]
  <2>1. \A u \in Threads : call'[u] = call[u] \/ call'[u].pc # "commit"
    BY <1>2, <1>8 DEF CallType
  <2> QED BY <2>1, <1>1, KeepShut, QuietStep
<1>9. CASE call' = [call EXCEPT ![t] = g]
  <2>1. call'[t] = g /\ \A u \in Threads : u # t => call'[u] = call[u]
    BY <1>2, <1>9 DEF CallType
  <2>2. Latest(f.job)' = a /\ inbox'[f.job][a] = inbox[f.job][a]
    BY <1>1, <1>4 DEF Latest
  <2>3. EndingOK(t)'
    BY <2>1, <2>2, <1>6 DEF EndingOK
  <2> QED BY <2>1, <2>3, <1>1, KeepShut, QuietStep
<1> QED BY <1>7, <1>8, <1>9

(* commit_subagent leaves no inbox of an ended job open. *)
LEMMA CommitShut ==
  ASSUME OneCaller, OneCallerInductive, Inductive', NEW t \in Threads, call[t] # Idle, Commit(t)
  PROVE  EndingsOK' /\ EndedInboxIsClosed'
<1>1. /\ CallType /\ JobType /\ CallOK(t) /\ Mail /\ InboxType /\ AttemptsBounded /\ ProcessType
      /\ EndingOK(t) /\ Inductive /\ Idle.pc = "idle"
  BY DEF OneCallerInductive, Inductive, Types, Shape, CallsOK, EndingsOK, Mail, Idle
<1>2. PICK f \in Frame : f = call[t]
  BY <1>1, CallLive
<1>3. PICK j \in Jobs : j = f.job
  BY DEF Frame
<1>4. f.op \in Operation
  BY DEF Frame
<1>5. job[j].status \in Status
  BY <1>1 DEF JobType, SubagentJob
<1>6. /\ f.pc = "commit" /\ job[j].status # "None" /\ f.on \in 1 .. Latest(j)
      /\ t = Drain <=> f.op \notin {"cancel", "requeue"}
      /\ f.op = "cancel" => f.on = Latest(j)
      /\ (f.op \notin {"start", "cancel", "requeue"} /\ job[j].status = "Running") => f.on = Latest(j)
      /\ ~ f.seen.open => ~ inbox[j][f.on].open
  <2>1. f.pc = "commit"
    BY <1>2 DEF Commit
  <2> QED BY <2>1, <1>1, <1>2, <1>3 DEF CallOK, EndingOK
<1>7. transcript' = transcript
  BY DEF Commit
<1> DEFINE valid == TransitionValid(job[j].status, Goal(f.op))
<1>8. CASE ~ valid
  <2>1. Refused(t) /\ UNCHANGED <<job, inbox>>
    BY <1>2, <1>3, <1>8 DEF Commit
  <2>2. PICK g : g = [call[t] EXCEPT !.pc = "latest"]
    OBVIOUS
  <2>3. g.pc = "latest"
    BY <2>2, <1>2 DEF Frame
  <2>4. call' = [call EXCEPT ![t] = Idle] \/ call' = [call EXCEPT ![t] = g]
    BY <2>1, <2>2, <1>1 DEF Refused, DrainFails, CallType
  <2>5. \A u \in Threads : call'[u] = call[u] \/ call'[u].pc # "commit"
    BY <2>3, <2>4, <1>1 DEF CallType
  <2> QED BY <2>1, <2>5, KeepShut, QuietStep
<1>9. CASE valid /\ ~ StagedFits(f)
  <2>1. call' = [call EXCEPT ![t].pc = "stage"] /\ UNCHANGED <<job, inbox>>
    BY <1>2, <1>3, <1>9 DEF Commit
  <2>2. PICK g : g = [call[t] EXCEPT !.pc = "stage"]
    OBVIOUS
  <2>3. g.pc = "stage" /\ call' = [call EXCEPT ![t] = g]
    BY <2>1, <2>2, <1>1, <1>2 DEF Frame, CallType
  <2>4. \A u \in Threads : call'[u] = call[u] \/ call'[u].pc # "commit"
    BY <2>3, <1>1 DEF CallType
  <2> QED BY <2>1, <2>4, KeepShut, QuietStep
<1>10. CASE valid /\ StagedFits(f)
  <2>1. PICK x : x = [status |-> Goal(f.op), result |-> IF f.op = "complete" THEN f.at ELSE 0]
    OBVIOUS
  <2>2. x.status = Goal(f.op)
    BY <2>1
  <2>3. PICK g : g = [f EXCEPT !.pc = "prepare", !.at = Latest(j)]
    OBVIOUS
  <2>4. /\ StagedEvents(f)
        /\ job' = [job EXCEPT ![j] = x]
        /\ call' = [call EXCEPT ![t] = IF f.op = "start" THEN g ELSE Idle]
    BY <2>1, <2>3, <1>2, <1>3, <1>10 DEF Commit
  <2>5. g.pc = "prepare"
    BY <2>3 DEF Frame
  <2>6. call'[t].pc # "commit" /\ \A u \in Threads : u # t => call'[u] = call[u]
    BY <2>4, <2>5, <1>1 DEF CallType
  <2>7. job'[j] = x /\ \A k \in Jobs : k # j => job'[k] = job[k]
    BY <2>4, <1>1 DEF JobType
  <2>8. CASE f.op = "start"
    <3>1. UNCHANGED inbox /\ t = Drain
      BY <2>4, <2>8, <1>6 DEF StagedEvents
    <3>2. StaysShut /\ SameLatest
      BY <3>1, KeepShut
    <3>3. job[j].status = "Queued" /\ x.status = "Running"
      BY <2>2, <2>8, <1>4, <1>5, <1>10, Transitions DEF Goal
    <3>4. ASSUME NEW u \in Threads
          PROVE  EndingOK(u)'
      <4>1. CASE u = t
        BY <4>1, <2>6 DEF EndingOK
      <4>2. CASE u # t
        <5>1. EndingOK(u) /\ CallOK(u)
          BY DEF OneCallerInductive, Inductive, Shape, CallsOK, EndingsOK
        <5>2. call[u] # Idle => call[u].op \in {"start", "cancel", "requeue"}
          BY <5>1, <4>2, <3>1 DEF CallOK
        <5> QED BY <5>1, <5>2, <4>2, <2>6, <3>2, <1>1, EndingKept DEF SameLatest
      <4> QED BY <4>1, <4>2
    <3>5. EndedInboxIsClosed'
      <4> SUFFICES ASSUME NEW k \in Jobs, NEW a \in 1 .. Latest(k)', inbox'[k][a].open
                   PROVE  a = Latest(k)' /\ job'[k].status \in {"Queued", "Running"}
        BY Zenon DEF EndedInboxIsClosed
      <4>1. Latest(k)' = Latest(k) /\ inbox[k][a].open
        BY <3>2 DEF SameLatest, StaysShut
      <4>2. a = Latest(k) /\ job[k].status \in {"Queued", "Running"}
        BY <4>1 DEF OneCallerInductive, EndedInboxIsClosed
      <4> QED BY <4>1, <4>2, <2>7, <3>3
    <3> QED BY <3>4, <3>5 DEF EndingsOK
  <2>9. CASE f.op = "requeue"
    <3>1. Register(j) /\ t \in Callers /\ t # Drain
      BY <2>4, <2>9, <1>3, <1>6 DEF StagedEvents, Threads
    <3>2. Latest(j) \in Nat /\ Latest(j)' \in Nat /\ Latest(j)' <= MaxAttempts
      BY <1>1, LatestType DEF Inductive, Mail, InboxType, Latest
    <3>3. Latest(j)' = Latest(j) + 1
      BY <3>1, <1>1 DEF Register, Latest, InboxType
    <3>4. Latest(j) < MaxAttempts
      BY <3>2, <3>3, AttemptsAssumption
    <3>5. Registers(j)
      BY <3>1, <3>4, <1>1, <1>7, RegisterMail
    <3>6. x.status = "Queued" /\ job[j].status \notin {"Queued", "Running"}
      BY <2>2, <2>9, <1>10 DEF Goal, TransitionValid
    <3>7. \A u \in Threads : \/ call'[u] = call[u] /\ (call[u] # Idle /\ call[u].job = j => call[u].op # "cancel")
                             \/ call'[u].pc # "commit"
      <4> SUFFICES ASSUME NEW u \in Threads, u # t
                   PROVE  call'[u] = call[u] /\ (call[u] # Idle => call[u].op # "cancel")
        BY <2>6
      <4>1. u = Drain
        BY <3>1 DEF OneCaller, Threads
      <4>2. CallOK(Drain)
        BY DEF OneCallerInductive, Inductive, Shape, CallsOK, Threads
      <4> QED BY <4>1, <4>2, <2>6 DEF CallOK
    <3> QED BY <2>4, <3>5, <3>6, <3>7, RegistersShut
  <2>10. CASE f.op \notin {"start", "requeue"}
    <3>1. x.status \notin {"Queued", "Running"}
      BY <2>2, <2>10, <1>4 DEF Goal, Operation
    <3>2. f.on = Latest(j)
      <4>1. f.op # "cancel" => job[j].status = "Running"
        BY <2>10, <1>4, <1>10 DEF Goal, TransitionValid, Operation
      <4> QED BY <4>1, <2>10, <1>6
    <3>3. StaysShut /\ SameLatest /\ ~ inbox'[j][f.on].open
      <4>1. CASE f.seen.open
        <5>1. Close(j, f.on)
          BY <2>4, <2>10, <4>1, <1>3 DEF StagedEvents
        <5> QED BY <5>1, <1>1, <1>6, CloseShut
      <4>2. CASE ~ f.seen.open
        <5>1. UNCHANGED inbox
          BY <2>4, <2>10, <4>2 DEF StagedEvents
        <5> QED BY <5>1, <4>2, <1>6, KeepShut
      <4> QED BY <4>1, <4>2
    <3>4. ~ inbox'[j][Latest(j)].open
      BY <3>2, <3>3
    <3>5. \A u \in Threads : call'[u] = call[u] \/ call'[u].pc # "commit"
      BY <2>6
    <3> QED BY <2>4, <3>1, <3>3, <3>4, <3>5, EndsShut
  <2> QED BY <2>8, <2>9, <2>10
<1> QED BY <1>8, <1>9, <1>10

(* create_subagent opens the first attempt of a new job. *)
LEMMA CreateShut ==
  ASSUME OneCallerInductive, Inductive', NEW j \in Jobs, Create(j)
  PROVE  EndingsOK' /\ EndedInboxIsClosed'
<1>1. JobType /\ Mail /\ InboxType /\ JobsOK /\ CallsOK
  BY DEF OneCallerInductive, Inductive, Types, Shape, Mail
<1>2. /\ job[j].status = "None" /\ Register(j)
      /\ job' = [job EXCEPT ![j].status = "Queued"]
      /\ UNCHANGED <<transcript, call>>
  BY DEF Create
<1>3. PICK x : x = [job[j] EXCEPT !.status = "Queued"]
  OBVIOUS
<1>4. x.status = "Queued" /\ job' = [job EXCEPT ![j] = x]
  BY <1>1, <1>2, <1>3 DEF JobType, SubagentJob
<1>5. Latest(j) < MaxAttempts
  <2>1. Latest(j) \in Nat /\ Latest(j)' \in Nat /\ Latest(j)' <= MaxAttempts
    BY <1>1, LatestType DEF Inductive, Mail, InboxType, Latest
  <2>2. Latest(j)' = Latest(j) + 1
    BY <1>1, <1>2 DEF Register, Latest, InboxType
  <2> QED BY <2>1, <2>2, AttemptsAssumption
<1>6. Registers(j)
  BY <1>1, <1>2, <1>5, RegisterMail
<1>7. \A t \in Threads : call'[t] = call[t] /\ (call[t] # Idle => call[t].job # j)
  BY <1>1, <1>2 DEF CallsOK, CallOK
<1>8. \A t \in Threads : \/ call'[t] = call[t] /\ (call[t] # Idle /\ call[t].job = j => call[t].op # "cancel")
                         \/ call'[t].pc # "commit"
  BY <1>7
<1>9. job[j].status \notin {"Queued", "Running"}
  BY <1>2
<1> QED BY <1>4, <1>6, <1>8, <1>9, RegistersShut

(* recover_interrupted_subagents closes the attempt it interrupts. *)
LEMMA RecoverJobShut ==
  ASSUME OneCallerInductive, NEW j \in Jobs, RecoverJob(j)
  PROVE  EndingsOK' /\ EndedInboxIsClosed'
<1>1. JobType /\ InboxType /\ JobsOK
  BY DEF OneCallerInductive, Inductive, Types, Shape, Mail
<1>2. /\ job[j].status = "Running" /\ Close(j, Latest(j)) /\ UNCHANGED call
      /\ job' = [job EXCEPT ![j].status = "Interrupted"]
  BY DEF RecoverJob, Running
<1>3. PICK x : x = [job[j] EXCEPT !.status = "Interrupted"]
  OBVIOUS
<1>4. x.status = "Interrupted" /\ job' = [job EXCEPT ![j] = x]
  BY <1>1, <1>2, <1>3 DEF JobType, SubagentJob
<1>5. Latest(j) \in 1 .. Latest(j)
  BY <1>1, <1>2, LatestType DEF JobsOK
<1>6. StaysShut /\ SameLatest /\ ~ inbox'[j][Latest(j)].open
  BY <1>1, <1>2, <1>5, CloseShut
<1>7. \A t \in Threads : call'[t] = call[t]
  BY <1>2
<1> QED BY <1>4, <1>6, <1>7, EndsShut

LEMMA RequestShut ==
  ASSUME OneCallerInductive, NEW c \in Callers, NEW op, NEW j \in Jobs, Request(c, op, j)
  PROVE  EndingsOK' /\ EndedInboxIsClosed'
<1>1. CallType /\ c \in Threads
  BY DEF OneCallerInductive, Inductive, Types, Threads
<1>2. PICK f : f = [Begun(op, j, 0) EXCEPT !.pc = "stage"]
  OBVIOUS
<1>3. f.pc = "stage"
  BY <1>2 DEF Begun
<1>4. call' = [call EXCEPT ![c] = f] /\ UNCHANGED <<job, inbox>>
  BY <1>2 DEF Request
<1>5. \A t \in Threads : call'[t] = call[t] \/ call'[t].pc # "commit"
  BY <1>1, <1>3, <1>4 DEF CallType
<1> QED BY <1>4, <1>5, KeepShut, QuietStep

LEMMA SendShut ==
  ASSUME OneCallerInductive, NEW m \in Messages, NEW j \in Jobs, NEW a \in 1 .. Latest(j), Send(m, j, a)
  PROVE  EndingsOK' /\ EndedInboxIsClosed'
<1>1. InboxType
  BY DEF OneCallerInductive, Inductive, Mail
<1>2. PICK e : e = Append(inbox[j][a].pending, m)
  OBVIOUS
<1>3. inbox' = [inbox EXCEPT ![j] = [inbox[j] EXCEPT ![a] = [inbox[j][a] EXCEPT !.pending = e]]]
  BY <1>1, <1>2 DEF InboxType, Send
<1>4. StaysShut /\ SameLatest
  BY <1>1, <1>3, InputShut
<1>5. UNCHANGED <<job, call>>
  BY DEF Send
<1> QED BY <1>4, <1>5, QuietStep

LEMMA RecoverInboxShut ==
  ASSUME OneCallerInductive, NEW r \in Runs, RecoverInbox(r[1], r[2])
  PROVE  EndingsOK' /\ EndedInboxIsClosed'
<1>1. InboxType
  BY DEF OneCallerInductive, Inductive, Mail
<1>2. <<r[1], r[2]>> \in Stale /\ Close(r[1], r[2]) /\ UNCHANGED <<job, call>>
  BY DEF RecoverInbox
<1>3. r[1] \in Jobs /\ r[2] \in 1 .. MaxAttempts /\ r[2] <= Latest(r[1])
  BY <1>2, RunParts DEF Stale
<1>4. r[2] \in 1 .. Latest(r[1])
  BY <1>1, <1>3, LatestType, AttemptsAssumption
<1>5. StaysShut /\ SameLatest
  BY <1>1, <1>2, <1>3, <1>4, CloseShut
<1> QED BY <1>2, <1>5, QuietStep

(* A crash, the phases of recovery, and stuttering. *)
LEMMA RestShut ==
  ASSUME OneCallerInductive, Crash \/ Restart \/ Recovered \/ UNCHANGED vars
  PROVE  EndingsOK' /\ EndedInboxIsClosed'
<1>1. UNCHANGED <<job, inbox>> /\ (UNCHANGED call \/ call' = [t \in Threads |-> Idle])
  BY DEF Crash, Restart, Recovered, vars
<1>2. \A t \in Threads : call'[t] = call[t] \/ call'[t].pc # "commit"
  BY <1>1 DEF Idle
<1> QED BY <1>1, <1>2, KeepShut, QuietStep

LEMMA OneCallerStep ==
  ASSUME OneCaller, OneCallerInductive, [Next]_vars
  PROVE  OneCallerInductive'
<1>0. Inductive'
  BY NextStep DEF OneCallerInductive
<1> DEFINE Shut == EndingsOK' /\ EndedInboxIsClosed'
<1>1. Scheduling => Shut
  <2>1. Drain \in Threads
    BY DEF Threads
  <2> QED BY <2>1, <1>0, DrainShut, StageShut, CommitShut, Zenon DEF Scheduling
<1>2. \A r \in Runs : RunStep(r) => Shut
  BY RunShut
<1>3. \A c \in Callers : Serving(c) => Shut
  <2>1. \A c \in Callers : c \in Threads
    BY DEF Threads
  <2> QED BY <2>1, <1>0, StageShut, CommitShut, Zenon DEF Serving
<1>4. \A c \in Callers, op \in {"cancel", "requeue"}, j \in Jobs : Request(c, op, j) => Shut
  BY RequestShut, Zenon
<1>5. \A j \in Jobs : Create(j) => Shut
  BY <1>0, CreateShut
<1>6. \A j \in Jobs, m \in Messages : \A a \in 1 .. Latest(j) : Send(m, j, a) => Shut
  BY SendShut
<1>7. Crash => Shut
  BY RestShut
<1>8. Recovery => Shut
  BY RestShut, RecoverJobShut, RecoverInboxShut, Zenon DEF Recovery
<1>9. UNCHANGED vars => Shut
  BY RestShut
<1> HIDE DEF Shut
<1>10. Shut
  BY <1>1, <1>2, <1>3, <1>4, <1>5, <1>6, <1>7, <1>8, <1>9, Zenon DEF Next
<1> QED BY <1>0, <1>10 DEF OneCallerInductive, Shut

(* With one caller at a time beside the drain, and whatever the drain, the  *)
(* child runs, senders, crashes and recovery do meanwhile: only the latest  *)
(* attempt of a job is open, and not after the job has ended.  A batch of   *)
(* commit_subagent that found the inbox closed is tied to no attempt: one   *)
(* of the drain cannot end a later attempt because the transition table     *)
(* refuses it until the drain itself starts that attempt, one of a caller   *)
(* because nobody else requeues the job meanwhile.                          *)
THEOREM EndedInboxesStayClosed ==
  ASSUME \A c, d \in Callers : c = d
  PROVE  Spec => []EndedInboxIsClosed
<1>1. OneCaller
  BY DEF OneCaller
<1>2. Init => OneCallerInductive
  <2> SUFFICES ASSUME Init
               PROVE  OneCallerInductive
    OBVIOUS
  <2>1. EndingsOK
    BY DEF Init, EndingsOK, EndingOK
  <2>2. EndedInboxIsClosed
    <3>1. \A j \in Jobs : Latest(j) = 0
      BY DEF Init, Latest
    <3> QED BY <3>1 DEF EndedInboxIsClosed
  <2> QED BY <2>1, <2>2, InitInductive DEF OneCallerInductive
<1>3. OneCallerInductive /\ [Next]_vars => OneCallerInductive'
  BY <1>1, OneCallerStep
<1>4. OneCallerInductive => EndedInboxIsClosed
  BY DEF OneCallerInductive
<1> QED BY <1>2, <1>3, <1>4, PTL DEF Spec
=============================================================================
