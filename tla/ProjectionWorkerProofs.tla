----------------------- MODULE ProjectionWorkerProofs -----------------------
(***************************************************************************)
(* Theorems about ProjectionWorker, for any number of callers, processes,  *)
(* handlers, streams and events, any page size, and any number of rounds,  *)
(* failures and crashes.                                                   *)
(***************************************************************************)
EXTENDS ProjectionWorker, TLAPS

(* The deployments the code answers for: every caller shares one gate, or  *)
(* no process rebuilds while another reads.                                *)
RebuildsAreGated ==
    \A d \in Deployments :
        \/ \A c, e \in Callers : d.home[c] = d.home[e]
        \/ d.budget.rebuilds = 0

(* All callers run in one process. *)
Alone == \A c, d \in Callers : Home[c] = Home[d]

(* operation_gate lets one operation of a process run at a time. *)
Exclusive ==
    \A c, d \in Callers :
        (frame[c] # Idle /\ frame[d] # Idle /\ Home[c] = Home[d]) => c = d

(* Positions go back only where the gate keeps everybody else out. *)
ResetsAreGated ==
    \/ Alone
    \/ /\ budget.rebuilds = 0
       /\ \A c \in Callers : frame[c] # Idle => frame[c].pc # "reset"

EventsBounded == Len(journal) + budget.events <= MaxEvents

(* A staged batch reaches from the position it expects into the journal.   *)
(* No position is behind the one the batch expects, and if it is the same, *)
(* the batch leaves exactly the records of its last event.                 *)
BatchOK(f, h) ==
    \/ f.pending[h] = NothingStaged
    \/ /\ f.pending[h].expected < f.pending[h].through
       /\ f.pending[h].through <= Len(journal)
       /\ \A s \in Streams : f.pending[h].records[s] <= Len(journal)
       /\ f.pending[h].expected <= pos[h]
       /\ pos[h] = f.pending[h].expected =>
            \A s \in Streams : IsRecord(s, f.pending[h].through, Applied(f, h)[s])

(* The page at hand, and what was staged of it so far. *)
PageOK(f) ==
    /\ f.from < f.item
    /\ f.item <= f.pages[f.from]
    /\ \/ f.item = f.from + 1 /\ f.pending[f.handler] = NothingStaged
       \/ /\ f.pending[f.handler].expected = f.from
          /\ f.pending[f.handler].through + 1 = f.item

(* What an operation under way knows, by where it is. *)
FrameOK(f) ==
    /\ f.handler \in Handlers
    /\ f.rounds > 0
    /\ f.pc = "reset" => Len(f.resets) > 0 /\ f.handler = 1
    /\ f.pc \in {"reset", "status"} => f.pending = NothingPending
    /\ f.pc \in {"position", "page"} =>
         \A h \in Handlers : h >= f.handler => f.pending[h] = NothingStaged
    /\ f.pc = "project" =>
         \A h \in Handlers : h > f.handler => f.pending[h] = NothingStaged
    /\ f.pc \in {"page", "project"} => f.from <= pos[f.handler]
    /\ f.pc = "project" => PageOK(f)
    /\ \A n \in 0 .. MaxEvents :
         f.pages[n] # -1 => n <= f.pages[n] /\ f.pages[n] <= Len(journal)
    /\ \A h \in Handlers : BatchOK(f, h)

(* An empty page was read at the head of the journal, so a round that has  *)
(* applied nothing found every projection it passed at the head the        *)
(* operation was asked for, or beyond.                                     *)
ReachOK(f) ==
    /\ f.asked <= Len(journal)
    /\ \A n \in 0 .. MaxEvents : f.pages[n] = n => f.asked <= n
    /\ (f.applied = 0 /\ f.pc # "reset") =>
         \A h \in Handlers : (f.pc \in {"apply", "status"} \/ h < f.handler) => f.asked <= pos[h]

FramesOK == \A c \in Callers : frame[c] # Idle => FrameOK(frame[c]) /\ ReachOK(frame[c])

(* The part of NoBatchRefused about one operation. *)
Current(f) ==
    /\ \A h \in Staged(f) : PositionMatches(f, h)
    /\ f.pc \in {"page", "project"} => f.from = pos[f.handler]

Inductive ==
    /\ TypeOK
    /\ StateIsReplay
    /\ NoBatchRefused
    /\ Exclusive
    /\ ResetsAreGated
    /\ EventsBounded
    /\ FramesOK

-----------------------------------------------------------------------------
(* A caller is idle or in an operation. *)
LEMMA CallerFrame ==
  ASSUME TypeOK, NEW c \in Callers
  PROVE  /\ frame[c] = Idle \/ frame[c] \in Busy
         /\ frame[c] \in Busy <=> frame[c] # Idle
         /\ frame[c] = Idle <=> frame[c].pc = "idle"
<1>1. frame[c] \in {Idle} \cup Busy
  BY DEF TypeOK
<1>2. \A f \in Busy : f.pc # "idle"
  BY DEF Busy
<1>3. Idle.pc = "idle"
  BY DEF Idle
<1> QED BY <1>1, <1>2, <1>3

(* The types of an operation's locals. *)
LEMMA BusyType ==
  ASSUME NEW f \in Busy
  PROVE  /\ f.resets \in Seq(Handlers)
         /\ {f.rounds, f.handler, f.from, f.item, f.applied, f.asked} \subseteq Nat
         /\ \A n \in 0 .. MaxEvents : f.pages[n] \in Int /\ f.pages[n] >= -1
         /\ \A h \in Handlers : /\ f.pending[h] \in Pending
                                /\ f.pending[h].through \in Nat
                                /\ f.pending[h].expected \in Nat
                                /\ \A s \in Streams : /\ f.pending[h].records[s] \in Int
                                                       /\ f.pending[h].records[s] >= -1
<1>1. /\ f.resets \in Seq(Handlers)
      /\ {f.rounds, f.handler, f.from, f.item, f.applied, f.asked} \subseteq Nat
      /\ f.pages \in [0 .. MaxEvents -> Nat \cup {-1}]
      /\ f.pending \in [Handlers -> Pending]
  BY DEF Busy
<1>2. ASSUME NEW h \in Handlers
      PROVE  /\ f.pending[h] \in Pending
             /\ f.pending[h].through \in Nat
             /\ f.pending[h].expected \in Nat
             /\ f.pending[h].records \in [Streams -> Nat \cup {-1}]
  BY <1>1 DEF Pending, Untouched
<1>3. \A k \in Nat \cup {-1} : k \in Int /\ k >= -1
  OBVIOUS
<1> QED BY <1>1, <1>2, <1>3

(* Every caller has a process. *)
LEMMA HomeType ==
  ASSUME TypeOK
  PROVE  \A c \in Callers : Home[c] \in Processes
<1>1. deployment \in Deployment
  BY ProjectionAssumption DEF TypeOK
<1> QED BY <1>1 DEF Deployment, Home

(* An empty journal leaves no record. *)
LEMMA ReplayOfNothing ==
  ASSUME NEW s \in Streams
  PROVE  IsRecord(s, 0, 0)
<1>1. About(s, 0, {"started"}) = {}
  BY DEF About
<1> QED BY <1>1 DEF IsRecord

(* The replay of one more event, by what the reducer does with it. *)
LEMMA ReplayOfOneMore ==
  ASSUME journal \in Seq(Event), NEW n \in 1 .. Len(journal), NEW s \in Streams,
         NEW v \in Nat, IsRecord(s, n - 1, v)
  PROVE  /\ journal[n].stream # s => IsRecord(s, n, v)
         /\ (journal[n].stream = s /\ journal[n].kind = "started") => IsRecord(s, n, n)
         /\ (journal[n].stream = s /\ journal[n].kind = "closed") => IsRecord(s, n, 0)
         /\ (journal[n].stream = s /\ journal[n].kind = "other" /\ v = 0) => IsRecord(s, n, 0)
         /\ (journal[n].stream = s /\ journal[n].kind = "other" /\ v # 0) => IsRecord(s, n, n)
<1> DEFINE Before(K) == About(s, n - 1, K)
           After(K) == About(s, n, K)
           Open(A, B) == \E m \in A : \A k \in B : k < m
<1>1. n \in Nat /\ 1 .. n = (1 .. (n - 1)) \cup {n} /\ n - 1 \in Nat
  OBVIOUS
<1>2. ASSUME NEW K PROVE
        /\ journal[n].stream = s /\ journal[n].kind \in K => After(K) = Before(K) \cup {n}
        /\ ~ (journal[n].stream = s /\ journal[n].kind \in K) => After(K) = Before(K)
  BY <1>1 DEF About
<1>3. ASSUME NEW K PROVE Before(K) \subseteq 1 .. (n - 1)
  BY DEF About
<1>4. /\ Open(Before({"started"}), Before({"closed"})) =>
            v \in Before(Kinds) /\ \A m \in Before(Kinds) : m <= v
      /\ ~ Open(Before({"started"}), Before({"closed"})) => v = 0
  BY DEF IsRecord
<1>5. ASSUME NEW w,
             Open(After({"started"}), After({"closed"})) =>
                 w \in After(Kinds) /\ \A m \in After(Kinds) : m <= w,
             ~ Open(After({"started"}), After({"closed"})) => w = 0
      PROVE  IsRecord(s, n, w)
  BY <1>5 DEF IsRecord
<1>6. "started" \in Kinds /\ "closed" \in Kinds /\ "other" \in Kinds
  BY DEF Kinds
<1> HIDE DEF Before, After
<1>7. ASSUME journal[n].stream # s PROVE IsRecord(s, n, v)
  <2>1. After({"started"}) = Before({"started"}) /\ After({"closed"}) = Before({"closed"})
        /\ After(Kinds) = Before(Kinds)
    BY <1>2, <1>7
  <2> QED BY <2>1, <1>4, <1>5
<1>8. ASSUME journal[n].stream = s, journal[n].kind = "started" PROVE IsRecord(s, n, n)
  <2>1. After(Kinds) = Before(Kinds) \cup {n}
    BY <1>2, <1>6, <1>8
  <2>2. After({"closed"}) = Before({"closed"}) /\ After({"started"}) = Before({"started"}) \cup {n}
    BY <1>2, <1>8
  <2>3. \A m \in After(Kinds) : m <= n
    BY <2>1, <1>3
  <2>4. \A k \in After({"closed"}) : k < n
    BY <2>2, <1>3
  <2>5. Open(After({"started"}), After({"closed"}))
    BY <2>2, <2>4
  <2> QED BY <2>1, <2>3, <2>5, <1>5
<1>9. ASSUME journal[n].stream = s, journal[n].kind = "closed" PROVE IsRecord(s, n, 0)
  <2>1. After({"closed"}) = Before({"closed"}) \cup {n} /\ After({"started"}) = Before({"started"})
    BY <1>2, <1>9
  <2>2. ~ Open(After({"started"}), After({"closed"}))
    BY <2>1, <1>3
  <2> QED BY <2>2, <1>5
<1>10. ASSUME journal[n].stream = s, journal[n].kind = "other"
       PROVE  /\ v = 0 => IsRecord(s, n, 0)
              /\ v # 0 => IsRecord(s, n, n)
  <2>1. After(Kinds) = Before(Kinds) \cup {n}
    BY <1>2, <1>6, <1>10
  <2>2. After({"closed"}) = Before({"closed"}) /\ After({"started"}) = Before({"started"})
    BY <1>2, <1>10
  <2>3. v = 0 => ~ Open(Before({"started"}), Before({"closed"}))
    BY <1>3, <1>4
  <2>4. \A m \in After(Kinds) : m <= n
    BY <2>1, <1>3
  <2>5. v = 0 => IsRecord(s, n, 0)
    BY <2>2, <2>3, <1>5
  <2>6. v # 0 => IsRecord(s, n, n)
    BY <2>1, <2>2, <2>4, <1>4, <1>5
  <2> QED BY <2>5, <2>6
<1> QED BY <1>7, <1>8, <1>9, <1>10

(* An appended event says nothing about the replay of those before it. *)
LEMMA ReplayKept ==
  ASSUME journal \in Seq(Event), NEW e \in Event, journal' = Append(journal, e),
         NEW n \in 0 .. Len(journal), NEW s \in Streams, NEW v, IsRecord(s, n, v)
  PROVE  IsRecord(s, n, v)'
<1>1. \A m \in 1 .. n : journal'[m] = journal[m]
  OBVIOUS
<1>2. ASSUME NEW K PROVE About(s, n, K)' = About(s, n, K)
  BY <1>1 DEF About
<1> QED BY <1>2 DEF IsRecord

(* What an operation knows stays true while others leave the positions     *)
(* where they are, with their records, or move them on.                    *)
LEMMA KnownWhilePositionsGrow ==
  ASSUME TypeOK, NEW f \in Busy, FrameOK(f), ReachOK(f), journal' = journal,
         pos' \in [Handlers -> Nat],
         \A h \in Handlers : (pos'[h] = pos[h] /\ rec'[h] = rec[h]) \/ pos[h] < pos'[h]
  PROVE  FrameOK(f)' /\ ReachOK(f)'
<1>1. pos \in [Handlers -> Nat] /\ \A h \in Handlers : pos[h] <= pos'[h]
  BY DEF TypeOK
<1>2. f.asked \in Nat /\ f.from \in Nat
      /\ \A h \in Handlers : f.pending[h].expected \in Nat /\ f.pending[h].through \in Nat
  BY BusyType
<1>3. ASSUME NEW h \in Handlers PROVE BatchOK(f, h)'
  <2>1. BatchOK(f, h)
    BY DEF FrameOK
  <2>2. CASE f.pending[h] = NothingStaged
    BY <2>2 DEF BatchOK
  <2>3. CASE f.pending[h] # NothingStaged
    <3>1. f.pending[h].expected <= pos'[h]
      BY <2>1, <2>3, <1>1, <1>2 DEF BatchOK
    <3>2. ASSUME pos'[h] = f.pending[h].expected
          PROVE  \A s \in Streams : IsRecord(s, f.pending[h].through, Applied(f, h)[s])'
      <4>1. pos[h] = f.pending[h].expected /\ rec'[h] = rec[h]
        BY <3>2, <2>1, <2>3, <1>1, <1>2 DEF BatchOK
      <4>2. \A s \in Streams : IsRecord(s, f.pending[h].through, Applied(f, h)[s])
        BY <4>1, <2>1, <2>3 DEF BatchOK
      <4>3. Applied(f, h)' = Applied(f, h)
        BY <4>1 DEF Applied
      <4> QED BY <4>2, <4>3 DEF IsRecord, About
    <3> QED BY <2>1, <2>3, <3>1, <3>2 DEF BatchOK
  <2> QED BY <2>2, <2>3
<1>4. f.pc \in {"page", "project"} => f.from <= pos'[f.handler]
  BY <1>1, <1>2 DEF FrameOK
<1>5. PageOK(f)' <=> PageOK(f)
  BY DEF PageOK
<1>6. FrameOK(f)'
  BY <1>3, <1>4, <1>5 DEF FrameOK
<1>7. \A h \in Handlers : f.asked <= pos[h] => f.asked <= pos'[h]
  BY <1>1, <1>2
<1>8. ReachOK(f)'
  BY <1>7 DEF ReachOK
<1> QED BY <1>6, <1>8

(* The same while the journal grows. *)
LEMMA KnownWhileJournalGrows ==
  ASSUME TypeOK, NEW f \in Busy, FrameOK(f), ReachOK(f),
         NEW e \in Event, journal' = Append(journal, e), UNCHANGED <<pos, rec>>
  PROVE  FrameOK(f)' /\ ReachOK(f)'
<1>1. journal \in Seq(Event) /\ Len(journal) \in Nat /\ Len(journal') = Len(journal) + 1
  BY DEF TypeOK
<1>2. /\ f.asked \in Nat
      /\ \A n \in 0 .. MaxEvents : f.pages[n] \in Int
      /\ \A h \in Handlers : /\ f.pending[h].through \in Nat /\ f.pending[h].expected \in Nat
                             /\ \A s \in Streams : f.pending[h].records[s] \in Int
  BY BusyType
<1>3. ASSUME NEW h \in Handlers PROVE BatchOK(f, h)'
  <2>1. BatchOK(f, h)
    BY DEF FrameOK
  <2>2. CASE f.pending[h] = NothingStaged
    BY <2>2 DEF BatchOK
  <2>3. CASE f.pending[h] # NothingStaged
    <3>1. f.pending[h].through \in 0 .. Len(journal)
      BY <2>1, <2>3, <1>1, <1>2 DEF BatchOK
    <3>2. ASSUME pos[h] = f.pending[h].expected, NEW s \in Streams
          PROVE  IsRecord(s, f.pending[h].through, Applied(f, h)[s])'
      <4>1. IsRecord(s, f.pending[h].through, Applied(f, h)[s])
        BY <3>2, <2>1, <2>3 DEF BatchOK
      <4>2. PICK v : v = Applied(f, h)[s]
        OBVIOUS
      <4>3. Applied(f, h)'[s] = v
        BY <4>2 DEF Applied
      <4>4. IsRecord(s, f.pending[h].through, v)'
        BY <4>1, <4>2, <3>1, <1>1, ReplayKept
      <4> QED BY <4>3, <4>4
    <3>3. f.pending[h].through <= Len(journal')
      BY <3>1, <1>1
    <3>4. \A s \in Streams : f.pending[h].records[s] <= Len(journal')
      BY <2>1, <2>3, <1>1, <1>2 DEF BatchOK
    <3> QED BY <2>1, <2>3, <3>2, <3>3, <3>4 DEF BatchOK
  <2> QED BY <2>2, <2>3
<1>4. \A n \in 0 .. MaxEvents :
        f.pages[n] # -1 => n <= f.pages[n] /\ f.pages[n] <= Len(journal')
  BY <1>1, <1>2 DEF FrameOK
<1>5. PageOK(f)' <=> PageOK(f)
  BY DEF PageOK
<1>6. FrameOK(f)'
  BY <1>3, <1>4, <1>5 DEF FrameOK
<1>7. f.asked <= Len(journal')
  BY <1>1, <1>2 DEF ReachOK
<1>8. ReachOK(f)'
  BY <1>7 DEF ReachOK
<1> QED BY <1>6, <1>8

(* Nothing that matters to an operation has changed. *)
LEMMA KnownUnchanged ==
  ASSUME TypeOK, NEW f \in Busy, FrameOK(f), ReachOK(f), UNCHANGED <<journal, pos, rec>>
  PROVE  FrameOK(f)' /\ ReachOK(f)'
<1>1. pos' \in [Handlers -> Nat]
  BY DEF TypeOK
<1> QED BY <1>1, KnownWhilePositionsGrow

(* The replay of an unchanged store. *)
LEMMA ReplayUnchanged ==
  ASSUME StateIsReplay, UNCHANGED <<journal, pos, rec>>
  PROVE  StateIsReplay'
BY DEF StateIsReplay, IsRecord, About

(* NoBatchRefused, said with Current. *)
LEMMA BatchesCurrent ==
  NoBatchRefused <=>
    \A c \in Callers : (frame[c] # Idle /\ \A d \in Callers : Home[d] = Home[c]) => Current(frame[c])
BY DEF NoBatchRefused, Current

(* A step of one operation that changes only its locals. *)
LEMMA LocalStep ==
  ASSUME Inductive, NEW c \in Callers, frame[c] # Idle, NEW g \in Busy,
         frame' = [frame EXCEPT ![c] = g],
         UNCHANGED <<deployment, journal, pos, rec, gate, budget>>,
         FrameOK(g), ReachOK(g), Current(frame[c]) => Current(g), g.pc # "reset"
  PROVE  Inductive'
<1>1. TypeOK /\ frame \in [Callers -> {Idle} \cup Busy]
  BY DEF Inductive, TypeOK
<1>2. g # Idle
  BY DEF Busy, Idle
<1>3. frame'[c] = g /\ \A d \in Callers : d # c => frame'[d] = frame[d]
  BY <1>1
<1>4. \A d \in Callers : frame'[d] # Idle <=> frame[d] # Idle
  BY <1>2, <1>3
<1>5. \A d \in Callers : Home'[d] = Home[d]
  BY DEF Home
<1>6. TypeOK'
  <2>1. frame' \in [Callers -> {Idle} \cup Busy]
    BY <1>1
  <2>2. \A d \in Callers : frame'[d] # Idle => gate'[Home'[d]]
    BY <1>1, <1>4, <1>5 DEF TypeOK
  <2> QED BY <1>1, <2>1, <2>2 DEF TypeOK
<1>7. StateIsReplay'
  BY ReplayUnchanged DEF Inductive
<1>8. NoBatchRefused'
  <2>1. ASSUME NEW d \in Callers, frame'[d] # Idle, \A e \in Callers : Home'[e] = Home'[d]
        PROVE  Current(frame[d]) /\ (d = c => Current(g))
    BY <1>4, <1>5, <2>1, BatchesCurrent DEF Inductive
  <2>2. ASSUME NEW f, Current(f) PROVE Current(f)'
    BY <2>2 DEF Current, Staged, PositionMatches
  <2>3. ASSUME NEW d \in Callers, frame'[d] # Idle, \A e \in Callers : Home'[e] = Home'[d]
        PROVE  Current(frame[d])'
    <3>1. CASE d = c
      BY <3>1, <2>1, <2>2, <2>3, <1>3
    <3>2. CASE d # c
      <4>1. PICK f : f = frame[d]
        OBVIOUS
      <4>2. Current(f)'
        BY <4>1, <2>1, <2>2, <2>3
      <4> QED BY <4>1, <4>2, <3>2, <1>3
    <3> QED BY <3>1, <3>2
  <2> QED BY <2>3, BatchesCurrent DEF NoBatchRefused, Current
<1>9. Exclusive'
  BY <1>4, <1>5 DEF Inductive, Exclusive
<1>10. ResetsAreGated'
  BY <1>3, <1>4, <1>5 DEF Inductive, ResetsAreGated, Alone
<1>11. EventsBounded'
  BY DEF Inductive, EventsBounded
<1>12. FramesOK'
  <2>1. ASSUME NEW d \in Callers, frame'[d] # Idle
        PROVE  (FrameOK(frame[d]) /\ ReachOK(frame[d]))'
    <3>1. CASE d = c
      <4>1. FrameOK(g)' /\ ReachOK(g)'
        BY <1>1, KnownUnchanged
      <4> QED BY <4>1, <3>1, <1>3
    <3>2. CASE d # c
      <4>1. PICK f : f = frame[d]
        OBVIOUS
      <4>2. f \in Busy /\ FrameOK(f) /\ ReachOK(f)
        BY <4>1, <2>1, <1>1, <1>4, CallerFrame DEF Inductive, FramesOK
      <4>3. FrameOK(f)' /\ ReachOK(f)'
        BY <4>2, <1>1, KnownUnchanged
      <4> QED BY <4>1, <4>3, <3>2, <1>3
    <3> QED BY <3>1, <3>2
  <2> QED BY <2>1 DEF FramesOK
<1> QED BY <1>6, <1>7, <1>8, <1>9, <1>10, <1>11, <1>12 DEF Inductive

(* Operations end, and their gates are released. *)
LEMMA EndStep ==
  ASSUME Inductive, UNCHANGED <<deployment, journal, pos, rec>>,
         frame' \in [Callers -> {Idle} \cup Busy],
         \A d \in Callers : frame'[d] \in {Idle, frame[d]},
         gate' \in [Processes -> BOOLEAN],
         \A d \in Callers : frame'[d] # Idle => gate'[Home[d]],
         budget' \in Budget, budget'.events = budget.events, budget'.rebuilds = budget.rebuilds
  PROVE  Inductive'
<1>1. TypeOK
  BY DEF Inductive
<1>2. \A d \in Callers : Home'[d] = Home[d]
  BY DEF Home
<1>3. \A d \in Callers : frame'[d] # Idle => frame[d] # Idle /\ frame'[d] = frame[d]
  OBVIOUS
<1>4. TypeOK'
  BY <1>1, <1>2 DEF TypeOK
<1>5. StateIsReplay'
  BY ReplayUnchanged DEF Inductive
<1>6. NoBatchRefused'
  <2>1. ASSUME NEW f, Current(f) PROVE Current(f)'
    BY <2>1 DEF Current, Staged, PositionMatches
  <2>2. ASSUME NEW d \in Callers, frame'[d] # Idle, \A e \in Callers : Home'[e] = Home'[d]
        PROVE  Current(frame[d])'
    <3>1. PICK f : f = frame[d]
      OBVIOUS
    <3>2. Current(f)
      BY <3>1, <2>2, <1>2, <1>3, BatchesCurrent DEF Inductive
    <3> QED BY <3>1, <3>2, <2>1, <2>2, <1>3
  <2> QED BY <2>2, BatchesCurrent DEF NoBatchRefused, Current
<1>7. Exclusive'
  BY <1>2, <1>3 DEF Inductive, Exclusive
<1>8. ResetsAreGated'
  BY <1>2, <1>3 DEF Inductive, ResetsAreGated, Alone
<1>9. EventsBounded'
  BY DEF Inductive, EventsBounded
<1>10. FramesOK'
  <2>1. ASSUME NEW d \in Callers, frame'[d] # Idle
        PROVE  (FrameOK(frame[d]) /\ ReachOK(frame[d]))'
    <3>1. PICK f : f = frame[d]
      OBVIOUS
    <3>2. f \in Busy /\ FrameOK(f) /\ ReachOK(f)
      BY <3>1, <2>1, <1>1, <1>3, CallerFrame DEF Inductive, FramesOK
    <3>3. FrameOK(f)' /\ ReachOK(f)'
      BY <3>2, <1>1, KnownUnchanged
    <3> QED BY <3>1, <3>3, <2>1, <1>3
  <2> QED BY <2>1 DEF FramesOK
<1> QED BY <1>4, <1>5, <1>6, <1>7, <1>8, <1>9, <1>10 DEF Inductive

(* The operation of c returns. *)
LEMMA ReturnStep ==
  ASSUME Inductive, NEW c \in Callers, frame[c] # Idle, Return(c),
         UNCHANGED <<deployment, journal, pos, rec>>,
         budget' \in Budget, budget'.events = budget.events, budget'.rebuilds = budget.rebuilds
  PROVE  Inductive'
<1>1. /\ frame \in [Callers -> {Idle} \cup Busy]
      /\ gate \in [Processes -> BOOLEAN]
      /\ \A d \in Callers : frame[d] # Idle => gate[Home[d]]
  BY DEF Inductive, TypeOK
<1>2. frame' = [frame EXCEPT ![c] = Idle] /\ gate' = [gate EXCEPT ![Home[c]] = FALSE]
  BY DEF Return
<1>3. frame' \in [Callers -> {Idle} \cup Busy] /\ \A d \in Callers : frame'[d] \in {Idle, frame[d]}
  BY <1>1, <1>2
<1>4. gate' \in [Processes -> BOOLEAN]
  BY <1>1, <1>2
<1>5. ASSUME NEW d \in Callers, frame'[d] # Idle PROVE gate'[Home[d]]
  <2>1. d # c /\ frame[d] # Idle
    BY <1>1, <1>2, <1>5
  <2>2. Home[d] # Home[c]
    BY <2>1 DEF Inductive, Exclusive
  <2>3. gate[Home[d]] = TRUE /\ Home[d] \in Processes
    BY <2>1, <1>1, HomeType DEF Inductive
  <2> QED BY <2>2, <2>3, <1>1, <1>2
<1> QED BY <1>3, <1>4, <1>5, EndStep

-----------------------------------------------------------------------------
(* The stored position of the handler at hand is read. *)
LEMMA ReadPositionStep ==
  ASSUME Inductive, NEW c \in Callers, ReadPosition(c), UNCHANGED deployment
  PROVE  Inductive'
<1> DEFINE f == frame[c]
           g == [f EXCEPT !.from = pos[f.handler], !.pc = "page"]
<1>1. TypeOK /\ f \in Busy /\ f # Idle /\ f.pc = "position"
  BY CallerFrame DEF Inductive, ReadPosition, At
<1>2. FrameOK(f) /\ ReachOK(f)
  BY <1>1 DEF Inductive, FramesOK
<1>3. pos[f.handler] \in Nat /\ f.handler \in Handlers
  BY <1>1, <1>2 DEF FrameOK, TypeOK
<1>4. g \in Busy
  BY <1>1, <1>3 DEF Busy
<1>5. frame' = [frame EXCEPT ![c] = g]
  BY <1>1 DEF ReadPosition, TypeOK, Busy
<1>6. /\ g.pc = "page" /\ g.from = pos[f.handler] /\ g.handler = f.handler /\ g.rounds = f.rounds
      /\ g.pages = f.pages /\ g.pending = f.pending /\ g.applied = f.applied /\ g.asked = f.asked
  BY <1>1 DEF Busy
<1> HIDE DEF f, g
<1>7. FrameOK(g)
  <2>1. \A h \in Handlers : BatchOK(g, h)
    BY <1>2, <1>6 DEF FrameOK, BatchOK, Applied
  <2>2. g.from <= pos[g.handler]
    BY <1>3, <1>6
  <2> QED BY <2>1, <2>2, <1>1, <1>2, <1>6 DEF FrameOK
<1>8. ReachOK(g)
  BY <1>1, <1>2, <1>6 DEF ReachOK
<1>9. Current(f) => Current(g)
  BY <1>6 DEF Current, Staged, PositionMatches
<1>10. UNCHANGED <<journal, pos, rec, gate, budget>>
  BY DEF ReadPosition, store
<1> QED BY <1>1, <1>4, <1>5, <1>6, <1>7, <1>8, <1>9, <1>10, LocalStep DEF f

(* The frame after the handler at hand is done. *)
LEMMA NextHandlerFrame ==
  ASSUME NEW f \in Busy, f.handler \in Handlers
  PROVE  LET g == NextHandler(f) IN
         /\ g \in Busy /\ g.rounds = f.rounds
         /\ g.pages = f.pages /\ g.pending = f.pending /\ g.applied = f.applied /\ g.asked = f.asked
         /\ \/ f.handler = NumHandlers /\ g.pc = "apply" /\ g.handler = f.handler
            \/ f.handler # NumHandlers /\ g.pc = "position" /\ g.handler = f.handler + 1
         /\ g.handler \in Handlers
<1>1. f.handler \in Nat /\ NumHandlers \in Nat
  BY ProjectionAssumption DEF Handlers
<1>2. CASE f.handler = NumHandlers
  BY <1>2 DEF NextHandler, Busy
<1>3. CASE f.handler # NumHandlers
  <2>1. f.handler + 1 \in Handlers /\ f.handler + 1 \in Nat
    BY <1>1, <1>3 DEF Handlers
  <2> QED BY <1>3, <2>1 DEF NextHandler, Busy
<1> QED BY <1>2, <1>3

(* A page ends in the journal, and is empty only at its head. *)
LEMMA PageEndInJournal ==
  ASSUME journal \in Seq(Event), NEW n \in 0 .. Len(journal)
  PROVE  /\ PageEnd(n) \in n .. Len(journal)
         /\ PageEnd(n) = n => Len(journal) = n
<1>1. Limit \in Nat \ {0} /\ Len(journal) \in Nat
  BY ProjectionAssumption
<1>2. CASE n + Limit <= Len(journal)
  <2>1. PageEnd(n) = n + Limit
    BY <1>1, <1>2 DEF PageEnd, Min
  <2> QED BY <2>1, <1>1, <1>2
<1>3. CASE ~ (n + Limit <= Len(journal))
  <2>1. PageEnd(n) = Len(journal)
    BY <1>1, <1>3 DEF PageEnd, Min
  <2> QED BY <2>1, <1>1, <1>3
<1> QED BY <1>2, <1>3

(* The page of the handler at hand is read. *)
LEMMA ReadPageStep ==
  ASSUME Inductive, NEW c \in Callers, ReadPage(c), UNCHANGED deployment
  PROVE  Inductive'
<1> DEFINE f == frame[c]
           last == IF f.pages[f.from] # -1 THEN f.pages[f.from] ELSE PageEnd(f.from)
           k == [f EXCEPT !.pages[f.from] = last]
           g == IF last = f.from THEN NextHandler(k)
                ELSE [k EXCEPT !.pc = "project", !.item = f.from + 1]
<1>1. TypeOK /\ f \in Busy /\ f # Idle /\ f.pc = "page"
  BY CallerFrame DEF Inductive, ReadPage, At
<1>2. FrameOK(f) /\ ReachOK(f)
  BY <1>1 DEF Inductive, FramesOK
<1>3. frame' = [frame EXCEPT ![c] = g]
  BY DEF ReadPage
<1>4. journal \in Seq(Event) /\ Len(journal) \in Nat /\ Len(journal) <= MaxEvents
      /\ pos \in [Handlers -> 0 .. Len(journal)]
  <2>1. budget.events \in Nat /\ MaxEvents \in Nat
    BY <1>1, ProjectionAssumption DEF TypeOK, Budget
  <2>2. journal \in Seq(Event) /\ pos \in [Handlers -> 0 .. Len(journal)]
    BY <1>1 DEF TypeOK
  <2> QED BY <2>1, <2>2 DEF Inductive, EventsBounded
<1>5. f.handler \in Handlers /\ f.from \in 0 .. Len(journal) /\ f.from \in 0 .. MaxEvents
      /\ f.from <= pos[f.handler]
  BY <1>1, <1>2, <1>4, BusyType, ProjectionAssumption DEF FrameOK
<1>6. last \in f.from .. Len(journal)
  <2>1. CASE f.pages[f.from] # -1
    <3>1. f.pages[f.from] \in Int /\ f.from <= f.pages[f.from] /\ f.pages[f.from] <= Len(journal)
      BY <2>1, <1>1, <1>2, <1>5, BusyType DEF FrameOK
    <3> QED BY <3>1, <2>1, <1>4, <1>5
  <2>2. CASE f.pages[f.from] = -1
    BY <2>2, <1>4, <1>5, PageEndInJournal
  <2> QED BY <2>1, <2>2
<1>7. last = f.from => f.asked <= f.from
  <2>1. CASE f.pages[f.from] # -1
    BY <2>1, <1>2, <1>5 DEF ReachOK
  <2>2. CASE f.pages[f.from] = -1
    BY <2>2, <1>2, <1>4, <1>5, PageEndInJournal DEF ReachOK
  <2> QED BY <2>1, <2>2
<1>8. last \in Nat
  BY <1>4, <1>5, <1>6
<1> HIDE DEF last
<1>9. /\ k \in Busy /\ k.rounds = f.rounds /\ k.pc = "page" /\ k.handler = f.handler /\ k.from = f.from
      /\ k.pending = f.pending /\ k.applied = f.applied /\ k.asked = f.asked
      /\ k.pages = [f.pages EXCEPT ![f.from] = last]
  BY <1>1, <1>5, <1>8 DEF Busy
<1>10. f.pages \in [0 .. MaxEvents -> Nat \cup {-1}]
  BY <1>1 DEF Busy
<1> HIDE DEF k
<1>11. \A n \in 0 .. MaxEvents : k.pages[n] = IF n = f.from THEN last ELSE f.pages[n]
  BY <1>9, <1>10
<1>12. \A n \in 0 .. MaxEvents :
         k.pages[n] # -1 => n <= k.pages[n] /\ k.pages[n] <= Len(journal)
  BY <1>2, <1>4, <1>5, <1>6, <1>11 DEF FrameOK
<1>13. \A n \in 0 .. MaxEvents : k.pages[n] = n => f.asked <= n
  BY <1>2, <1>7, <1>11 DEF ReachOK
<1>14. UNCHANGED <<journal, pos, rec, gate, budget>>
  BY DEF ReadPage, store
<1>15. CASE last = f.from
  <2>1. g = NextHandler(k)
    BY <1>15
  <2>2. /\ g \in Busy /\ g.rounds = f.rounds
        /\ g.pages = k.pages /\ g.pending = f.pending /\ g.applied = f.applied
        /\ g.asked = f.asked
        /\ \/ f.handler = NumHandlers /\ g.pc = "apply" /\ g.handler = f.handler
           \/ f.handler # NumHandlers /\ g.pc = "position" /\ g.handler = f.handler + 1
        /\ g.handler \in Handlers
    <3>1. PICK y : y = NextHandler(k)
      OBVIOUS
    <3>2. k.handler \in Handlers
      BY <1>5, <1>9
    <3>3. /\ y \in Busy /\ y.rounds = k.rounds
          /\ y.pages = k.pages /\ y.pending = k.pending /\ y.applied = k.applied /\ y.asked = k.asked
          /\ \/ k.handler = NumHandlers /\ y.pc = "apply" /\ y.handler = k.handler
             \/ k.handler # NumHandlers /\ y.pc = "position" /\ y.handler = k.handler + 1
          /\ y.handler \in Handlers
      BY <3>1, <3>2, <1>9, NextHandlerFrame
    <3>4. g = y
      BY <2>1, <3>1
    <3> HIDE DEF g
    <3> QED BY <3>3, <3>4, <1>9
  <2> HIDE DEF f, g
  <2>3. f.handler \in Nat /\ NumHandlers \in Nat
    BY <1>5, ProjectionAssumption DEF Handlers
  <2>4. \A h \in Handlers : BatchOK(g, h)
    BY <1>2, <2>2 DEF FrameOK, BatchOK, Applied
  <2>5. g.pc = "position" => \A h \in Handlers : h >= g.handler => g.pending[h] = NothingStaged
    BY <1>1, <1>2, <2>2, <2>3 DEF FrameOK, Handlers
  <2>6. FrameOK(g)
    BY <2>2, <2>4, <2>5, <1>2, <1>12 DEF FrameOK
  <2>7. f.asked <= pos[f.handler]
    BY <1>1, <1>4, <1>5, <1>7, <1>15, BusyType
  <2>8. ASSUME g.applied = 0, NEW h \in Handlers, g.pc = "apply" \/ h < g.handler
        PROVE  g.asked <= pos[h]
    <3>1. h <= f.handler
      BY <2>2, <2>3, <2>8 DEF Handlers
    <3>2. CASE h = f.handler
      BY <3>2, <2>2, <2>7
    <3>3. CASE h # f.handler
      <4>1. h < f.handler
        BY <3>1, <3>3, <2>3 DEF Handlers
      <4> QED BY <4>1, <1>1, <1>2, <2>2, <2>8 DEF ReachOK
    <3> QED BY <3>2, <3>3
  <2>9. ReachOK(g)
    BY <2>2, <2>8, <1>2, <1>13 DEF ReachOK
  <2>10. Current(f) => Current(g)
    BY <2>2 DEF Current, Staged, PositionMatches
  <2> QED BY <2>2, <2>6, <2>9, <2>10, <1>1, <1>3, <1>14, LocalStep DEF f
<1>16. CASE last # f.from
  <2>1. g = [k EXCEPT !.pc = "project", !.item = f.from + 1]
    BY <1>16
  <2>2. /\ g \in Busy /\ g.rounds = f.rounds /\ g.pc = "project" /\ g.item = f.from + 1 /\ g.from = f.from
        /\ g.handler = f.handler /\ g.pending = f.pending /\ g.applied = f.applied
        /\ g.asked = f.asked /\ g.pages = k.pages
    <3>1. f.from + 1 \in Nat
      BY <1>4, <1>5
    <3> HIDE DEF f
    <3> QED BY <2>1, <3>1, <1>9 DEF Busy
  <2> HIDE DEF f, g
  <2>3. \A h \in Handlers : BatchOK(g, h)
    BY <1>2, <2>2 DEF FrameOK, BatchOK, Applied
  <2>4. \A h \in Handlers : h >= f.handler => f.pending[h] = NothingStaged
    BY <1>1, <1>2 DEF FrameOK
  <2>5. f.handler \in Nat
    BY <1>5, ProjectionAssumption DEF Handlers
  <2>6. PageOK(g)
    <3>1. g.pages[g.from] = last
      BY <2>2, <1>5, <1>11
    <3>2. g.pending[g.handler] = NothingStaged
      BY <2>2, <2>4, <2>5, <1>5
    <3>3. f.from < f.from + 1 /\ f.from + 1 <= last
      BY <1>4, <1>5, <1>6, <1>16
    <3> QED BY <3>1, <3>2, <3>3, <2>2 DEF PageOK
  <2>7. \A h \in Handlers : h > g.handler => g.pending[h] = NothingStaged
    BY <2>2, <2>4, <2>5 DEF Handlers
  <2>8. FrameOK(g)
    BY <2>2, <2>3, <2>6, <2>7, <1>2, <1>5, <1>12 DEF FrameOK
  <2>9. ReachOK(g)
    BY <1>1, <1>2, <1>13, <2>2 DEF ReachOK
  <2>10. Current(f) => Current(g)
    BY <2>2, <1>1 DEF Current, Staged, PositionMatches
  <2> QED BY <2>2, <2>8, <2>9, <2>10, <1>1, <1>3, <1>14, LocalStep DEF f
<1> QED BY <1>15, <1>16

(* What the overlay shows of the handler at hand is the replay up to the   *)
(* event at hand, if the store is still where the page began.              *)
LEMMA OverlayIsReplay ==
  ASSUME TypeOK, StateIsReplay, NEW f \in Busy, FrameOK(f), f.pc = "project",
         pos[f.handler] = f.from, NEW s \in Streams
  PROVE  IsRecord(s, f.item - 1, Applied(f, f.handler)[s])
<1>1. f.handler \in Handlers /\ f.item \in Nat /\ f.from \in Nat /\ BatchOK(f, f.handler) /\ PageOK(f)
  BY BusyType DEF FrameOK
<1>2. CASE f.item = f.from + 1 /\ f.pending[f.handler] = NothingStaged
  <2>1. f.pending[f.handler].records[s] = Untouched
    BY <1>2 DEF NothingStaged, NoRecords
  <2>2. Applied(f, f.handler)[s] = rec[f.handler][s]
    BY <2>1 DEF Applied
  <2>3. f.item - 1 = pos[f.handler]
    BY <1>1, <1>2
  <2> QED BY <2>2, <2>3, <1>1 DEF StateIsReplay
<1>3. CASE /\ f.pending[f.handler].expected = f.from
           /\ f.pending[f.handler].through + 1 = f.item
           /\ ~ (f.item = f.from + 1 /\ f.pending[f.handler] = NothingStaged)
  <2>1. f.pending[f.handler].through = f.item - 1
    <3>1. f.pending[f.handler].through \in Nat
      BY <1>1, BusyType
    <3> QED BY <3>1, <1>1, <1>3
  <2>2. f.pending[f.handler] # NothingStaged
    BY <1>1, <1>3, <2>1 DEF NothingStaged
  <2> QED BY <2>1, <2>2, <1>1, <1>3 DEF BatchOK
<1> QED BY <1>1, <1>2, <1>3 DEF PageOK

(* The batch once the event at hand is staged. *)
LEMMA StagedBatch ==
  ASSUME TypeOK, Len(journal) <= MaxEvents, StateIsReplay, NEW f \in Busy, FrameOK(f),
         f.pc = "project"
  PROVE  LET p == Stage(f, f.item) IN
         /\ p \in Pending /\ p.expected = f.from /\ p.through = f.item
         /\ f.from < f.item /\ f.item <= Len(journal)
         /\ \A s \in Streams : p.records[s] <= Len(journal)
         /\ pos[f.handler] = f.from =>
              \A s \in Streams :
                 IsRecord(s, f.item, IF p.records[s] = Untouched THEN rec[f.handler][s]
                                     ELSE p.records[s])
<1> DEFINE h == f.handler
           n == f.item
           p == f.pending[h]
           m == Project(f, n)
           v(s) == Applied(f, h)[s]
           q == Stage(f, n)
<1>1. /\ h \in Handlers /\ n \in Nat /\ f.from \in Nat /\ f.from < n
      /\ BatchOK(f, h) /\ PageOK(f) /\ p \in Pending
  BY BusyType DEF FrameOK, PageOK
<1>2. journal \in Seq(Event) /\ Len(journal) \in Nat /\ MaxEvents \in Nat
  BY ProjectionAssumption DEF TypeOK
<1>3. n \in 1 .. Len(journal) /\ journal[n] \in Event
  <2>1. pos[h] \in 0 .. Len(journal) /\ f.from <= pos[h]
    BY <1>1 DEF FrameOK, TypeOK
  <2>2. f.from \in 0 .. MaxEvents
    BY <2>1, <1>1, <1>2
  <2>3. f.pages[f.from] \in Int /\ n <= f.pages[f.from] /\ f.pages[f.from] # -1
    BY <2>2, <1>1, BusyType DEF PageOK
  <2>4. f.pages[f.from] <= Len(journal)
    BY <2>2, <2>3 DEF FrameOK
  <2> QED BY <1>1, <1>2, <2>3, <2>4
<1>4. journal[n].kind \in Kinds /\ journal[n].stream \in Streams
  BY <1>3 DEF Event
<1>5. p.records \in [Streams -> Nat \cup {Untouched}]
  BY <1>1 DEF Pending
<1>6. rec[h] \in [Streams -> 0 .. Len(journal)]
  BY <1>1 DEF TypeOK
<1>7. ASSUME NEW s \in Streams
      PROVE  v(s) \in Nat /\ v(s) = IF p.records[s] = Untouched THEN rec[h][s] ELSE p.records[s]
  <2>1. v(s) = IF p.records[s] = Untouched THEN rec[h][s] ELSE p.records[s]
    BY <1>7 DEF Applied
  <2>2. rec[h][s] \in Nat
    BY <1>2, <1>6, <1>7
  <2> QED BY <2>1, <2>2, <1>5, <1>7
<1>8. Get(f, journal[n].stream) = v(journal[n].stream)
  BY <1>4, <1>7 DEF Get
<1>9. /\ journal[n].kind = "started" => m = n
      /\ journal[n].kind = "closed" => m = 0
      /\ journal[n].kind = "other" => m = IF v(journal[n].stream) = 0 THEN Untouched ELSE n
  BY <1>8 DEF Project
<1>10. m \in {n, 0, Untouched} /\ Untouched = -1
  BY <1>4, <1>9 DEF Kinds, Untouched
<1>11. /\ q.expected = f.from /\ q.through = n
       /\ q.records = IF m = Untouched THEN p.records ELSE [p.records EXCEPT ![journal[n].stream] = m]
  BY DEF Stage
<1>12. q = [expected |-> f.from, through |-> n, records |-> q.records]
  BY DEF Stage
<1> HIDE DEF m, q, v, p
<1>13. ASSUME NEW s \in Streams
       PROVE  q.records[s] = IF s = journal[n].stream /\ m # Untouched THEN m ELSE p.records[s]
  BY <1>5, <1>11, <1>13
<1>14. q.records \in [Streams -> Nat \cup {Untouched}]
  <2>1. CASE m = Untouched
    BY <2>1, <1>5, <1>11
  <2>2. CASE m # Untouched
    <3>1. m \in Nat \cup {Untouched}
      BY <1>1, <1>10
    <3> QED BY <3>1, <2>2, <1>5, <1>11
  <2> QED BY <2>1, <2>2
<1>15. q \in Pending
  BY <1>1, <1>12, <1>14 DEF Pending
<1>16. ASSUME NEW s \in Streams PROVE q.records[s] <= Len(journal)
  <2>1. p.records[s] <= Len(journal)
    <3>1. CASE p = NothingStaged
      BY <3>1, <1>2, <1>16 DEF NothingStaged, NoRecords, Untouched
    <3>2. CASE p # NothingStaged
      BY <3>2, <1>1, <1>16 DEF BatchOK, p
    <3> QED BY <3>1, <3>2
  <2> QED BY <2>1, <1>2, <1>3, <1>10, <1>13
<1>17. ASSUME pos[h] = f.from, NEW s \in Streams
       PROVE  IsRecord(s, n, IF q.records[s] = Untouched THEN rec[h][s] ELSE q.records[s])
  <2>1. IsRecord(s, n - 1, v(s)) /\ v(s) \in Nat
    BY <1>7, <1>17, OverlayIsReplay DEF v
  <2> DEFINE w == IF q.records[s] = Untouched THEN rec[h][s] ELSE q.records[s]
  <2>2. w = IF s = journal[n].stream /\ m # Untouched THEN m ELSE v(s)
    BY <1>7, <1>13, <1>17
  <2> HIDE DEF w
  <2>3. /\ journal[n].stream # s => IsRecord(s, n, v(s))
        /\ (journal[n].stream = s /\ journal[n].kind = "started") => IsRecord(s, n, n)
        /\ (journal[n].stream = s /\ journal[n].kind = "closed") => IsRecord(s, n, 0)
        /\ (journal[n].stream = s /\ journal[n].kind = "other" /\ v(s) = 0) => IsRecord(s, n, 0)
        /\ (journal[n].stream = s /\ journal[n].kind = "other" /\ v(s) # 0) => IsRecord(s, n, n)
    BY <2>1, <1>2, <1>3, <1>17, ReplayOfOneMore
  <2>4. n # Untouched /\ 0 # Untouched
    BY <1>1, <1>10
  <2>5. CASE journal[n].stream # s
    BY <2>2, <2>3, <2>5 DEF w
  <2>6. CASE journal[n].stream = s /\ journal[n].kind = "started"
    BY <2>2, <2>3, <2>4, <2>6, <1>9 DEF w
  <2>7. CASE journal[n].stream = s /\ journal[n].kind = "closed"
    BY <2>2, <2>3, <2>4, <2>7, <1>9 DEF w
  <2>8. CASE journal[n].stream = s /\ journal[n].kind = "other"
    BY <2>2, <2>3, <2>4, <2>8, <1>9 DEF w
  <2> QED BY <2>5, <2>6, <2>7, <2>8, <1>4 DEF Kinds
<1> QED BY <1>1, <1>3, <1>11, <1>15, <1>16, <1>17 DEF q

(* The journal is within its bound. *)
LEMMA JournalBounded ==
  ASSUME Inductive
  PROVE  /\ journal \in Seq(Event) /\ Len(journal) \in Nat
         /\ Len(journal) <= MaxEvents /\ MaxEvents \in Nat
         /\ pos \in [Handlers -> 0 .. Len(journal)]
<1>1. budget.events \in Nat /\ MaxEvents \in Nat
  BY ProjectionAssumption DEF Inductive, TypeOK, Budget
<1>2. journal \in Seq(Event) /\ pos \in [Handlers -> 0 .. Len(journal)]
  BY DEF Inductive, TypeOK
<1> QED BY <1>1, <1>2 DEF Inductive, EventsBounded

(* One event of the page is reduced and staged. *)
LEMMA ReduceStep ==
  ASSUME Inductive, NEW c \in Callers, Reduce(c), UNCHANGED deployment
  PROVE  Inductive'
<1> DEFINE f == frame[c]
           last == f.pages[f.from]
           q == Stage(f, f.item)
           k == [f EXCEPT !.pending[f.handler] = q]
           l == [k EXCEPT !.applied = @ + (last - f.from)]
           g == IF f.item = last THEN NextHandler(l) ELSE [k EXCEPT !.item = @ + 1]
<1>1. TypeOK /\ f \in Busy /\ f # Idle /\ f.pc = "project"
  BY CallerFrame DEF Inductive, Reduce, At
<1>2. FrameOK(f) /\ ReachOK(f) /\ PageOK(f)
  BY <1>1 DEF Inductive, FramesOK, FrameOK
<1>3. frame' = [frame EXCEPT ![c] = g]
  BY DEF Reduce
<1>4. UNCHANGED <<journal, pos, rec, gate, budget>>
  BY DEF Reduce, store
<1>5. /\ q \in Pending /\ q.expected = f.from /\ q.through = f.item
      /\ f.from < f.item /\ f.item <= Len(journal)
      /\ \A s \in Streams : q.records[s] <= Len(journal)
      /\ pos[f.handler] = f.from =>
           \A s \in Streams :
              IsRecord(s, f.item, IF q.records[s] = Untouched THEN rec[f.handler][s]
                                  ELSE q.records[s])
  BY <1>1, <1>2, JournalBounded, StagedBatch DEF Inductive
<1>6. /\ f.handler \in Handlers /\ f.handler \in Nat /\ NumHandlers \in Nat
      /\ f.from \in Nat /\ f.item \in Nat /\ f.applied \in Nat
  BY <1>1, <1>2, BusyType, ProjectionAssumption DEF FrameOK
<1>7. last \in Int /\ f.from < last /\ f.item <= last /\ last - f.from \in Nat
  <2>1. f.from <= pos[f.handler] /\ pos[f.handler] \in 0 .. Len(journal)
    BY <1>1, <1>2, <1>6, JournalBounded DEF FrameOK
  <2>2. f.from \in 0 .. MaxEvents
    BY <2>1, <1>6, JournalBounded
  <2>3. last \in Int
    BY <2>2, <1>1, BusyType
  <2> QED BY <2>3, <1>2, <1>5, <1>6 DEF PageOK
<1> HIDE DEF q, last
<1>8. /\ k \in Busy /\ k.rounds = f.rounds /\ k.pc = "project" /\ k.handler = f.handler /\ k.from = f.from
      /\ k.applied = f.applied /\ k.asked = f.asked /\ k.pages = f.pages /\ k.item = f.item
      /\ k.pending = [f.pending EXCEPT ![f.handler] = q]
  BY <1>1, <1>5, <1>6 DEF Busy
<1>9. f.pending \in [Handlers -> Pending]
  BY <1>1 DEF Busy
<1> HIDE DEF k
<1>10. \A h \in Handlers : k.pending[h] = IF h = f.handler THEN q ELSE f.pending[h]
  BY <1>8, <1>9
<1>11. ASSUME NEW r, r.pending = k.pending PROVE \A h \in Handlers : BatchOK(r, h)
  <2>1. ASSUME NEW h \in Handlers, h # f.handler PROVE BatchOK(r, h)
    <3>1. r.pending[h] = f.pending[h]
      BY <2>1, <1>10, <1>11
    <3> QED BY <3>1, <2>1, <1>2 DEF FrameOK, BatchOK, Applied
  <2>2. BatchOK(r, f.handler)
    <3>1. r.pending[f.handler] = q
      BY <1>6, <1>10, <1>11
    <3>2. f.from <= pos[f.handler]
      BY <1>1, <1>2 DEF FrameOK
    <3>3. \A s \in Streams : Applied(r, f.handler)[s] =
             IF q.records[s] = Untouched THEN rec[f.handler][s] ELSE q.records[s]
      BY <3>1 DEF Applied
    <3> QED BY <3>1, <3>2, <3>3, <1>5 DEF BatchOK
  <2> QED BY <2>1, <2>2
<1>12. \A h \in Handlers : h > f.handler => k.pending[h] = NothingStaged
  BY <1>1, <1>2, <1>6, <1>10 DEF FrameOK
<1>13. ASSUME NEW r, r.pending = k.pending, Current(f)
       PROVE  \A h \in Staged(r) : PositionMatches(r, h)
  <2>1. ASSUME NEW h \in Staged(r) PROVE PositionMatches(r, h)
    <3>1. h \in Handlers /\ r.pending[h].through # r.pending[h].expected
      BY <2>1 DEF Staged
    <3>2. CASE h = f.handler
      <4>1. r.pending[h] = q
        BY <3>1, <3>2, <1>10, <1>13
      <4> QED BY <4>1, <3>2, <1>1, <1>5, <1>13 DEF Current, PositionMatches
    <3>3. CASE h # f.handler
      <4>1. r.pending[h] = f.pending[h]
        BY <3>1, <3>3, <1>10, <1>13
      <4> QED BY <4>1, <3>1, <1>13 DEF Current, PositionMatches, Staged
    <3> QED BY <3>2, <3>3
  <2> QED BY <2>1
<1>14. CASE f.item = last
  <2>1. g = NextHandler(l)
    BY <1>14
  <2>2. /\ l \in Busy /\ l.rounds = f.rounds /\ l.handler = f.handler /\ l.asked = f.asked /\ l.pages = f.pages
        /\ l.pending = k.pending /\ l.applied = f.applied + (last - f.from)
    <3>1. f.applied + (last - f.from) \in Nat
      BY <1>6, <1>7
    <3> HIDE DEF f
    <3> QED BY <3>1, <1>8 DEF Busy
  <2> HIDE DEF l
  <2>3. /\ g \in Busy /\ g.rounds = f.rounds
        /\ g.pages = f.pages /\ g.pending = k.pending /\ g.asked = f.asked
        /\ g.applied = f.applied + (last - f.from)
        /\ \/ f.handler = NumHandlers /\ g.pc = "apply" /\ g.handler = f.handler
           \/ f.handler # NumHandlers /\ g.pc = "position" /\ g.handler = f.handler + 1
        /\ g.handler \in Handlers
    <3>1. PICK y : y = NextHandler(l)
      OBVIOUS
    <3>2. l.handler \in Handlers
      BY <2>2, <1>6
    <3>3. /\ y \in Busy /\ y.rounds = l.rounds
          /\ y.pages = l.pages /\ y.pending = l.pending /\ y.applied = l.applied /\ y.asked = l.asked
          /\ \/ l.handler = NumHandlers /\ y.pc = "apply" /\ y.handler = l.handler
             \/ l.handler # NumHandlers /\ y.pc = "position" /\ y.handler = l.handler + 1
          /\ y.handler \in Handlers
      BY <3>1, <3>2, <2>2, NextHandlerFrame
    <3>4. g = y
      BY <2>1, <3>1
    <3> HIDE DEF g
    <3> QED BY <3>3, <3>4, <2>2
  <2> HIDE DEF f, g
  <2>4. \A h \in Handlers : BatchOK(g, h)
    BY <2>3, <1>11
  <2>5. g.pc = "position" => \A h \in Handlers : h >= g.handler => g.pending[h] = NothingStaged
    BY <2>3, <1>6, <1>12 DEF Handlers
  <2>6. FrameOK(g)
    BY <2>3, <2>4, <2>5, <1>2 DEF FrameOK
  <2>7. g.applied # 0
    BY <2>3, <1>6, <1>7
  <2>8. ReachOK(g)
    BY <2>3, <2>7, <1>2 DEF ReachOK
  <2>9. Current(f) => Current(g)
    BY <2>3, <1>13 DEF Current
  <2> QED BY <2>3, <2>6, <2>8, <2>9, <1>1, <1>3, <1>4, LocalStep DEF f
<1>15. CASE f.item # last
  <2>1. g = [k EXCEPT !.item = f.item + 1]
    BY <1>15, <1>8
  <2>2. /\ g \in Busy /\ g.rounds = f.rounds /\ g.pc = "project" /\ g.item = f.item + 1 /\ g.from = f.from
        /\ g.handler = f.handler /\ g.pending = k.pending /\ g.applied = f.applied
        /\ g.asked = f.asked /\ g.pages = f.pages
    <3>1. f.item + 1 \in Nat
      BY <1>6
    <3> HIDE DEF f
    <3> QED BY <2>1, <3>1, <1>8 DEF Busy
  <2> HIDE DEF f, g
  <2>3. \A h \in Handlers : BatchOK(g, h)
    BY <2>2, <1>11
  <2>4. PageOK(g)
    <3>1. g.pending[g.handler] = q
      BY <2>2, <1>6, <1>10
    <3>2. f.from < f.item + 1 /\ f.item + 1 <= last
      BY <1>5, <1>6, <1>7, <1>15
    <3> QED BY <3>1, <3>2, <2>2, <1>5 DEF PageOK, last
  <2>5. FrameOK(g)
    BY <2>2, <2>3, <2>4, <1>1, <1>2, <1>12 DEF FrameOK
  <2>6. ReachOK(g)
    BY <1>1, <1>2, <2>2 DEF ReachOK
  <2>7. Current(f) => Current(g)
    BY <2>2, <1>1, <1>13 DEF Current
  <2> QED BY <2>2, <2>5, <2>6, <2>7, <1>1, <1>3, <1>4, LocalStep DEF f
<1> QED BY <1>14, <1>15

(* A failing reduction gives the round up. *)
LEMMA ReduceFailsStep ==
  ASSUME Inductive, NEW c \in Callers, ReduceFails(c), UNCHANGED deployment
  PROVE  Inductive'
<1>1. frame[c] # Idle
  BY CallerFrame DEF Inductive, ReduceFails, At
<1>2. budget \in Budget /\ budget.faults > 0 /\ budget' = [budget EXCEPT !.faults = @ - 1]
  BY DEF Inductive, TypeOK, ReduceFails
<1>3. budget' \in Budget /\ budget'.events = budget.events /\ budget'.rebuilds = budget.rebuilds
  BY <1>2 DEF Budget
<1>4. Return(c) /\ UNCHANGED <<journal, pos, rec>>
  BY DEF ReduceFails, store
<1> QED BY <1>1, <1>3, <1>4, ReturnStep

(* The end of a round. *)
LEMMA StatusStep ==
  ASSUME Inductive, NEW c \in Callers, Status(c), UNCHANGED deployment
  PROVE  Inductive'
<1> DEFINE f == frame[c]
           g == [f EXCEPT !.pc = "position", !.rounds = @ - 1, !.handler = 1, !.from = 0,
                          !.item = 0, !.pages = NoPages, !.applied = 0]
<1>1. TypeOK /\ f \in Busy /\ f # Idle /\ f.pc = "status"
  BY CallerFrame DEF Inductive, Status, At
<1>2. FrameOK(f) /\ ReachOK(f)
  BY <1>1 DEF Inductive, FramesOK
<1>3. UNCHANGED <<journal, pos, rec, budget>>
  BY DEF Status, store
<1>4. CASE Return(c)
  <2>1. budget' \in Budget
    BY <1>1, <1>3 DEF TypeOK
  <2> QED BY <2>1, <1>1, <1>3, <1>4, ReturnStep
<1>5. CASE /\ frame' = [frame EXCEPT ![c].pc = "position", ![c].rounds = @ - 1,
                                     ![c].handler = 1, ![c].from = 0, ![c].item = 0,
                                     ![c].pages = NoPages, ![c].applied = 0]
           /\ f.rounds # 1
           /\ UNCHANGED gate
  <2>1. f.rounds \in Nat /\ f.rounds - 1 \in Nat /\ f.rounds - 1 > 0
    BY <1>1, <1>2, <1>5, BusyType DEF FrameOK
  <2>2. frame' = [frame EXCEPT ![c] = g]
    BY <1>1, <1>5 DEF TypeOK, Busy
  <2>3. /\ NoPages \in [0 .. MaxEvents -> Nat \cup {-1}]
        /\ \A n \in 0 .. MaxEvents : NoPages[n] = -1 /\ NoPages[n] # n
    BY DEF NoPages
  <2>4. /\ g \in Busy /\ g.rounds = f.rounds - 1 /\ g.pc = "position" /\ g.handler = 1
        /\ g.pages = NoPages /\ g.applied = 0 /\ g.pending = f.pending /\ g.asked = f.asked
    <3> HIDE DEF f
    <3> QED BY <2>1, <2>3, <1>1 DEF Busy
  <2>5. f.pending = NothingPending
    BY <1>1, <1>2 DEF FrameOK
  <2> HIDE DEF f, g
  <2>6. 1 \in Handlers /\ \A h \in Handlers : ~ (h < 1)
    BY ProjectionAssumption DEF Handlers
  <2>7. \A h \in Handlers : g.pending[h] = NothingStaged
    BY <2>4, <2>5 DEF NothingPending
  <2>8. FrameOK(g)
    BY <2>1, <2>3, <2>4, <2>6, <2>7 DEF FrameOK, BatchOK
  <2>9. ReachOK(g)
    BY <2>3, <2>4, <2>6, <1>2 DEF ReachOK
  <2>10. Current(f) => Current(g)
    BY <2>4, <2>7 DEF Current, Staged, NothingStaged
  <2> QED BY <2>2, <2>4, <2>8, <2>9, <2>10, <1>1, <1>3, <1>5, LocalStep DEF f
<1> QED BY <1>4, <1>5 DEF Status

(* Another component appends an event. *)
LEMMA RecordStep ==
  ASSUME Inductive, NEW e \in Event, Record(e), UNCHANGED deployment
  PROVE  Inductive'
<1>1. TypeOK /\ journal \in Seq(Event) /\ Len(journal) \in Nat /\ MaxEvents \in Nat
  BY JournalBounded DEF Inductive
<1>2. /\ journal' = Append(journal, e) /\ UNCHANGED <<pos, rec, gate, frame>>
      /\ budget.events > 0 /\ budget' = [budget EXCEPT !.events = @ - 1]
  BY DEF Record
<1>3. journal' \in Seq(Event) /\ Len(journal') = Len(journal) + 1
  BY <1>1, <1>2
<1>4. budget \in Budget /\ budget.events \in 0 .. MaxEvents
  BY <1>1 DEF TypeOK, Budget
<1>5. budget.events - 1 \in 0 .. MaxEvents
  BY <1>1, <1>2, <1>4
<1>6. /\ budget' \in Budget /\ budget'.events = budget.events - 1
      /\ budget'.rebuilds = budget.rebuilds
  BY <1>2, <1>4, <1>5 DEF Budget
<1>7. \A d \in Callers : Home'[d] = Home[d]
  BY DEF Home
<1>8. TypeOK'
  <2>1. 0 .. Len(journal) \subseteq 0 .. Len(journal')
    BY <1>1, <1>3
  <2>2. pos' \in [Handlers -> 0 .. Len(journal')]
    BY <2>1, <1>1, <1>2 DEF TypeOK
  <2>3. rec' \in [Handlers -> [Streams -> 0 .. Len(journal')]]
    <3>1. [Streams -> 0 .. Len(journal)] \subseteq [Streams -> 0 .. Len(journal')]
      BY <2>1
    <3> QED BY <3>1, <1>1, <1>2 DEF TypeOK
  <2> QED BY <2>2, <2>3, <1>1, <1>2, <1>3, <1>6, <1>7 DEF TypeOK
<1>9. StateIsReplay'
  <2>1. ASSUME NEW h \in Handlers, NEW s \in Streams PROVE IsRecord(s, pos[h], rec[h][s])'
    <3>1. PICK n, v : n = pos[h] /\ v = rec[h][s]
      OBVIOUS
    <3>2. n \in 0 .. Len(journal) /\ IsRecord(s, n, v)
      BY <3>1, <1>1, <2>1 DEF TypeOK, Inductive, StateIsReplay
    <3>3. IsRecord(s, n, v)'
      BY <3>2, <1>1, <1>2, <2>1, ReplayKept
    <3> QED BY <3>1, <3>3, <1>2
  <2> QED BY <2>1 DEF StateIsReplay
<1>10. NoBatchRefused'
  BY <1>2, <1>7 DEF Inductive, NoBatchRefused, Staged, PositionMatches
<1>11. Exclusive'
  BY <1>2, <1>7 DEF Inductive, Exclusive
<1>12. ResetsAreGated'
  BY <1>2, <1>6, <1>7 DEF Inductive, ResetsAreGated, Alone
<1>13. EventsBounded'
  BY <1>1, <1>3, <1>4, <1>6 DEF Inductive, EventsBounded
<1>14. FramesOK'
  <2>1. ASSUME NEW d \in Callers, frame'[d] # Idle
        PROVE  (FrameOK(frame[d]) /\ ReachOK(frame[d]))'
    <3>1. PICK f : f = frame[d]
      OBVIOUS
    <3>2. f \in Busy /\ FrameOK(f) /\ ReachOK(f)
      BY <3>1, <2>1, <1>1, <1>2, CallerFrame DEF Inductive, FramesOK
    <3>3. FrameOK(f)' /\ ReachOK(f)'
      BY <3>2, <1>1, <1>2, KnownWhileJournalGrows
    <3> QED BY <3>1, <3>3, <1>2
  <2> QED BY <2>1 DEF FramesOK
<1> QED BY <1>8, <1>9, <1>10, <1>11, <1>12, <1>13, <1>14 DEF Inductive

(* A drain or a rebuild takes the gate. *)
LEMMA EnterStep ==
  ASSUME Inductive, NEW c \in Callers, NEW resets \in Seq(Handlers), NEW rounds \in Nat \ {0},
         Enter(c, resets, rounds), UNCHANGED deployment,
         budget' \in Budget, budget'.events = budget.events,
         \/ resets = << >> /\ budget'.rebuilds = budget.rebuilds
         \/ budget.rebuilds > 0
  PROVE  Inductive'
<1>0. PICK g : g = Entered(resets, rounds)
  OBVIOUS
<1>1. /\ TypeOK /\ frame \in [Callers -> {Idle} \cup Busy] /\ gate \in [Processes -> BOOLEAN]
      /\ \A d \in Callers : frame[d] # Idle => gate[Home[d]]
      /\ Len(journal) \in Nat
  BY JournalBounded DEF Inductive, TypeOK
<1>2. /\ frame[c] = Idle /\ ~ gate[Home[c]] /\ gate' = [gate EXCEPT ![Home[c]] = TRUE]
      /\ frame' = [frame EXCEPT ![c] = g] /\ UNCHANGED <<journal, pos, rec>>
  BY <1>0 DEF Enter, store
<1>3. /\ g.pc = IF resets = << >> THEN "position" ELSE "reset"
      /\ g.resets = resets /\ g.rounds = rounds /\ g.handler = 1 /\ g.from = 0
      /\ g.pages = NoPages /\ g.item = 0 /\ g.applied = 0 /\ g.pending = NothingPending
      /\ g.asked = Len(journal)
  BY <1>0 DEF Entered
<1>4. /\ NoPages \in [0 .. MaxEvents -> Nat \cup {-1}]
      /\ \A n \in 0 .. MaxEvents : NoPages[n] = -1 /\ NoPages[n] # n
  BY DEF NoPages
<1>5. g \in Busy
  <2>1. NothingStaged \in Pending
    BY DEF NothingStaged, Pending, NoRecords
  <2>2. NothingPending \in [Handlers -> Pending]
    BY <2>1 DEF NothingPending
  <2>3. g = [pc |-> g.pc, resets |-> resets, rounds |-> rounds, handler |-> 1, from |-> 0,
             pages |-> NoPages, item |-> 0, applied |-> 0, pending |-> NothingPending,
             asked |-> Len(journal)]
    BY <1>0 DEF Entered
  <2>4. g.pc \in {"reset", "position"}
    BY <1>3
  <2> QED BY <2>2, <2>3, <2>4, <1>1, <1>4 DEF Busy
<1>6. g # Idle
  BY <1>5 DEF Busy, Idle
<1>7. frame'[c] = g /\ \A d \in Callers : d # c => frame'[d] = frame[d]
  BY <1>1, <1>2
<1>8. \A d \in Callers : Home'[d] = Home[d] /\ Home[d] \in Processes
  BY <1>1, HomeType DEF Home
<1>9. ASSUME NEW d \in Callers, frame[d] # Idle PROVE Home[d] # Home[c]
  BY <1>1, <1>2, <1>9
<1>10. TypeOK'
  <2>1. frame' \in [Callers -> {Idle} \cup Busy]
    BY <1>1, <1>2, <1>5
  <2>2. gate' \in [Processes -> BOOLEAN]
    BY <1>1, <1>2
  <2>3. ASSUME NEW d \in Callers, frame'[d] # Idle PROVE gate'[Home'[d]]
    <3>1. CASE d = c
      BY <3>1, <1>1, <1>2, <1>8
    <3>2. CASE d # c
      <4>1. gate[Home[d]] = TRUE
        BY <3>2, <2>3, <1>1, <1>7
      <4>2. gate'[Home[d]] = TRUE
        BY <4>1, <1>1, <1>2, <1>8
      <4> QED BY <4>2, <1>8
    <3> QED BY <3>1, <3>2
  <2> QED BY <2>1, <2>2, <2>3, <1>1, <1>2 DEF TypeOK
<1>11. StateIsReplay'
  BY <1>2, ReplayUnchanged DEF Inductive
<1>12. \A h \in Handlers : g.pending[h] = NothingStaged
  BY <1>3 DEF NothingPending
<1>13. NoBatchRefused'
  <2>1. Current(g)'
    BY <1>3, <1>12 DEF Current, Staged, NothingStaged
  <2>2. ASSUME NEW d \in Callers, frame'[d] # Idle, \A e \in Callers : Home'[e] = Home'[d]
        PROVE  Current(frame[d])'
    <3>1. Home[d] = Home[c]
      BY <2>2, <1>8
    <3>2. d = c
      BY <3>1, <2>2, <1>7, <1>9
    <3> QED BY <3>2, <2>1, <1>7
  <2> QED BY <2>2, BatchesCurrent DEF NoBatchRefused, Current
<1>14. Exclusive'
  BY <1>7, <1>8, <1>9 DEF Inductive, Exclusive
<1>15. ResetsAreGated'
  <2>1. CASE Alone
    BY <2>1, <1>8 DEF ResetsAreGated, Alone
  <2>2. CASE ~ Alone
    <3>1. budget.rebuilds = 0 /\ \A d \in Callers : frame[d] # Idle => frame[d].pc # "reset"
      BY <2>2 DEF Inductive, ResetsAreGated
    <3>2. resets = << >> /\ budget'.rebuilds = 0
      BY <3>1
    <3> QED BY <3>1, <3>2, <1>3, <1>7 DEF ResetsAreGated
  <2> QED BY <2>1, <2>2
<1>16. EventsBounded'
  BY <1>2 DEF Inductive, EventsBounded
<1>17. FrameOK(g) /\ ReachOK(g)
  <2>1. 1 \in Handlers /\ \A h \in Handlers : ~ (h < 1)
    BY ProjectionAssumption DEF Handlers
  <2>2. resets # << >> => Len(resets) > 0
    OBVIOUS
  <2>3. FrameOK(g)
    BY <2>1, <2>2, <1>3, <1>4, <1>12 DEF FrameOK, BatchOK
  <2>4. ReachOK(g)
    BY <2>1, <1>1, <1>3, <1>4 DEF ReachOK
  <2> QED BY <2>3, <2>4
<1>18. FramesOK'
  <2>1. ASSUME NEW d \in Callers, frame'[d] # Idle
        PROVE  (FrameOK(frame[d]) /\ ReachOK(frame[d]))'
    <3>1. PICK f : f = frame'[d]
      OBVIOUS
    <3>2. f \in Busy /\ FrameOK(f) /\ ReachOK(f)
      BY <3>1, <2>1, <1>1, <1>5, <1>7, <1>17, CallerFrame DEF Inductive, FramesOK
    <3>3. FrameOK(f)' /\ ReachOK(f)'
      BY <3>2, <1>1, <1>2, KnownUnchanged
    <3> QED BY <3>1, <3>3
  <2> QED BY <2>1 DEF FramesOK
<1> QED BY <1>10, <1>11, <1>13, <1>14, <1>15, <1>16, <1>18 DEF Inductive

(* One projection of a rebuild is reset; nobody else has an operation      *)
(* under way.                                                              *)
LEMMA ResetStep ==
  ASSUME Inductive, NEW c \in Callers, Reset(c), UNCHANGED deployment
  PROVE  Inductive'
<1> DEFINE f == frame[c]
           h == Head(f.resets)
<1>1. TypeOK /\ f \in Busy /\ f # Idle /\ f.pc = "reset"
  BY CallerFrame DEF Inductive, Reset, At
<1>2. FrameOK(f) /\ ReachOK(f)
  BY <1>1 DEF Inductive, FramesOK
<1>3. \A d \in Callers : d # c => frame[d] = Idle
  BY <1>1 DEF Inductive, ResetsAreGated, Alone, Exclusive
<1>4. Alone
  BY <1>1 DEF Inductive, ResetsAreGated
<1>5. f.resets \in Seq(Handlers) /\ f.resets # << >> /\ h \in Handlers /\ Tail(f.resets) \in Seq(Handlers)
      /\ Len(Tail(f.resets)) = Len(f.resets) - 1 /\ Len(f.resets) \in Nat
  BY <1>1, <1>2, BusyType DEF FrameOK
<1>6. PICK g : g = [f EXCEPT !.resets = Tail(f.resets),
                             !.pc = IF Len(f.resets) = 1 THEN "position" ELSE "reset"]
  OBVIOUS
<1>7. frame' = [frame EXCEPT ![c] = g]
  BY <1>1, <1>6 DEF Reset, TypeOK, Busy
<1>8. /\ pos' = [pos EXCEPT ![h] = 0] /\ rec' = [rec EXCEPT ![h] = Empty]
      /\ UNCHANGED <<journal, gate, budget>>
  BY DEF Reset
<1>9. /\ g \in Busy /\ g.rounds = f.rounds /\ g.handler = f.handler /\ g.pages = f.pages
      /\ g.pending = f.pending /\ g.asked = f.asked /\ g.resets = Tail(f.resets)
      /\ g.pc = IF Len(f.resets) = 1 THEN "position" ELSE "reset"
  <2> HIDE DEF f
  <2> QED BY <1>1, <1>5, <1>6 DEF Busy
<1>10. g # Idle
  BY <1>9 DEF Busy, Idle
<1>11. frame \in [Callers -> {Idle} \cup Busy] /\ pos \in [Handlers -> 0 .. Len(journal)]
       /\ rec \in [Handlers -> [Streams -> 0 .. Len(journal)]] /\ Len(journal) \in Nat
  BY <1>1, JournalBounded DEF TypeOK
<1>12. frame'[c] = g /\ \A d \in Callers : d # c => frame'[d] = Idle
  BY <1>3, <1>7, <1>11
<1>13. \A d \in Callers : Home'[d] = Home[d]
  BY DEF Home
<1>14. TypeOK'
  <2>1. frame' \in [Callers -> {Idle} \cup Busy]
    BY <1>7, <1>9, <1>11
  <2>2. 0 \in 0 .. Len(journal) /\ Empty \in [Streams -> 0 .. Len(journal)]
    BY <1>11 DEF Empty
  <2>3. pos' \in [Handlers -> 0 .. Len(journal')] /\ rec' \in [Handlers -> [Streams -> 0 .. Len(journal')]]
    BY <2>2, <1>8, <1>11
  <2>4. gate[Home[c]]
    BY <1>1 DEF TypeOK
  <2>5. \A d \in Callers : frame'[d] # Idle => gate'[Home'[d]]
    BY <2>4, <1>8, <1>12, <1>13
  <2> QED BY <2>1, <2>3, <2>5, <1>1, <1>8 DEF TypeOK
<1>15. StateIsReplay'
  <2>1. ASSUME NEW k \in Handlers, NEW s \in Streams PROVE IsRecord(s, pos[k], rec[k][s])'
    <3>1. CASE k = h
      <4>1. pos'[k] = 0 /\ rec'[k][s] = 0
        BY <3>1, <2>1, <1>8, <1>11 DEF Empty
      <4>2. IsRecord(s, 0, 0)'
        BY <2>1, ReplayOfNothing, PTL
      <4> QED BY <4>1, <4>2
    <3>2. CASE k # h
      <4>1. pos'[k] = pos[k] /\ rec'[k] = rec[k]
        BY <3>2, <2>1, <1>8, <1>11
      <4>2. IsRecord(s, pos[k], rec[k][s])
        BY <2>1 DEF Inductive, StateIsReplay
      <4> QED BY <4>1, <4>2, <1>8 DEF IsRecord, About
    <3> QED BY <3>1, <3>2
  <2> QED BY <2>1 DEF StateIsReplay
<1>16. \A k \in Handlers : g.pending[k] = NothingStaged
  BY <1>1, <1>2, <1>9 DEF FrameOK, NothingPending
<1>17. NoBatchRefused'
  <2>1. Current(g)'
    BY <1>9, <1>16 DEF Current, Staged, NothingStaged
  <2>2. ASSUME NEW d \in Callers, frame'[d] # Idle PROVE Current(frame[d])'
    BY <2>1, <2>2, <1>12
  <2> QED BY <2>2, BatchesCurrent DEF NoBatchRefused, Current
<1>18. Exclusive'
  BY <1>12 DEF Exclusive
<1>19. ResetsAreGated'
  BY <1>4, <1>13 DEF ResetsAreGated, Alone
<1>20. EventsBounded'
  BY <1>8 DEF Inductive, EventsBounded
<1>21. FramesOK'
  <2>1. 1 \in Handlers /\ \A k \in Handlers : ~ (k < 1)
    BY ProjectionAssumption DEF Handlers
  <2>2. f.handler = 1 /\ f.rounds > 0
        /\ \A n \in 0 .. MaxEvents :
             f.pages[n] # -1 => n <= f.pages[n] /\ f.pages[n] <= Len(journal)
    BY <1>1, <1>2 DEF FrameOK
  <2>3. g.pc = "reset" => Len(g.resets) > 0
    <3>1. Len(f.resets) > 0
      BY <1>1, <1>2 DEF FrameOK
    <3> HIDE DEF f
    <3>2. g.pc = "reset" => Len(f.resets) # 1
      BY <1>9
    <3>3. Len(g.resets) = Len(f.resets) - 1 /\ Len(f.resets) \in Nat
      BY <1>5, <1>9 DEF f
    <3>4. \A n \in Nat : n > 0 /\ n # 1 => n - 1 > 0
      OBVIOUS
    <3>5. Len(f.resets) # 1 => Len(f.resets) - 1 > 0
      BY <3>1, <3>3, <3>4, Zenon
    <3> QED BY <3>2, <3>3, <3>5, Zenon
  <2>4. g.pending = NothingPending
    BY <1>1, <1>2, <1>9 DEF FrameOK
  <2>5. FrameOK(g)'
    BY <2>1, <2>2, <2>3, <2>4, <1>8, <1>9, <1>16 DEF FrameOK, BatchOK
  <2>6. ReachOK(g)'
    BY <2>1, <2>2, <1>2, <1>8, <1>9 DEF ReachOK
  <2> QED BY <2>5, <2>6, <1>12 DEF FramesOK
<1> QED BY <1>14, <1>15, <1>17, <1>18, <1>19, <1>20, <1>21 DEF Inductive

(* c commits the batches B of its round f, which becomes g. *)
Committed(c, B, f, g) ==
    /\ f = frame[c] /\ f.pc = "apply"
    /\ \A h \in B : PositionMatches(f, h)
    /\ pos' = [h \in Handlers |-> IF h \in B THEN f.pending[h].through ELSE pos[h]]
    /\ rec' = [h \in Handlers |-> IF h \in B THEN Applied(f, h) ELSE rec[h]]
    /\ g.rounds = f.rounds /\ g.handler = f.handler /\ g.pages = f.pages
    /\ g.asked = f.asked /\ g.applied = f.applied
    /\ g.pc = IF B = Staged(f) THEN "status" ELSE "apply"
    /\ g.pending = [h \in Handlers |-> IF h \in B THEN NothingStaged ELSE f.pending[h]]
    /\ frame' = [frame EXCEPT ![c] = g]
    /\ UNCHANGED <<deployment, journal, gate, budget>>

(* The batches of one transaction are committed: every position they move  *)
(* goes forward, with the records it calls for.                            *)
LEMMA CommitStep ==
  ASSUME Inductive, NEW c \in Callers, NEW B, NEW f, NEW g \in Busy, Committed(c, B, f, g)
  PROVE  Inductive'
<1> USE DEF Committed
<1>1. TypeOK /\ f \in Busy /\ frame[c] # Idle /\ f.pc = "apply"
  BY CallerFrame DEF Inductive, At
<1>2. FrameOK(f) /\ ReachOK(f)
  BY <1>1 DEF Inductive, FramesOK
<1>3. frame \in [Callers -> {Idle} \cup Busy] /\ pos \in [Handlers -> 0 .. Len(journal)]
      /\ rec \in [Handlers -> [Streams -> 0 .. Len(journal)]] /\ Len(journal) \in Nat
  BY <1>1, JournalBounded DEF TypeOK
<1>6. g # Idle
  BY DEF Busy, Idle
<1>7. frame'[c] = g /\ \A d \in Callers : d # c => frame'[d] = frame[d]
  BY <1>3
<1>8. \A d \in Callers : frame'[d] # Idle <=> frame[d] # Idle
  BY <1>1, <1>6, <1>7
<1>9. \A d \in Callers : Home'[d] = Home[d]
  BY DEF Home
<1>10. ASSUME NEW h \in Handlers
       PROVE  \/ /\ pos'[h] = pos[h] /\ rec'[h] = rec[h]
              \/ /\ h \in B /\ f.pending[h] # NothingStaged
                 /\ pos[h] = f.pending[h].expected
                 /\ pos'[h] = f.pending[h].through /\ rec'[h] = Applied(f, h)
                 /\ pos[h] < pos'[h] /\ pos'[h] \in 0 .. Len(journal)
  <2>1. CASE h \notin B
    BY <2>1, <1>10
  <2>2. CASE h \in B /\ f.pending[h] = NothingStaged
    <3>1. pos[h] = 0 /\ pos'[h] = 0
      BY <2>2, <1>10 DEF PositionMatches, NothingStaged
    <3>2. Applied(f, h) = [s \in Streams |-> rec[h][s]]
      BY <2>2 DEF Applied, NothingStaged, NoRecords
    <3>3. rec[h] = [s \in Streams |-> rec[h][s]]
      BY <1>3, <1>10
    <3>4. rec'[h] = rec[h]
      BY <3>2, <3>3, <2>2, <1>10
    <3> QED BY <3>1, <3>4
  <2>3. CASE h \in B /\ f.pending[h] # NothingStaged
    <3>1. /\ pos[h] = f.pending[h].expected
          /\ pos'[h] = f.pending[h].through /\ rec'[h] = Applied(f, h)
      BY <2>3, <1>10 DEF PositionMatches
    <3>2. f.pending[h].expected < f.pending[h].through /\ f.pending[h].through <= Len(journal)
      BY <2>3, <1>2, <1>10 DEF FrameOK, BatchOK
    <3>3. f.pending[h].through \in Nat
      BY <1>1, <1>10, BusyType
    <3> QED BY <3>1, <3>2, <3>3, <2>3, <1>3
  <2> QED BY <2>1, <2>2, <2>3
<1>11. pos' \in [Handlers -> 0 .. Len(journal)]
  BY <1>3, <1>10
<1>12. \A h \in Handlers : (pos'[h] = pos[h] /\ rec'[h] = rec[h]) \/ pos[h] < pos'[h]
  BY <1>10
<1>13. pos' \in [Handlers -> Nat]
  BY <1>3, <1>11
<1>14. TypeOK'
  <2>1. frame' \in [Callers -> {Idle} \cup Busy]
    BY <1>3
  <2>2. ASSUME NEW h \in Handlers PROVE rec'[h] \in [Streams -> 0 .. Len(journal)]
    <3>1. CASE rec'[h] = rec[h]
      BY <3>1, <1>3, <2>2
    <3>2. CASE f.pending[h] # NothingStaged /\ rec'[h] = Applied(f, h)
      <4>1. ASSUME NEW s \in Streams PROVE Applied(f, h)[s] \in 0 .. Len(journal)
        <5>1. f.pending[h].records[s] <= Len(journal) /\ f.pending[h].records[s] \in Int
              /\ f.pending[h].records[s] >= -1
          BY <3>2, <4>1, <2>2, <1>1, <1>2, BusyType DEF FrameOK, BatchOK
        <5>2. rec[h][s] \in 0 .. Len(journal)
          BY <1>3, <2>2, <4>1
        <5>3. Applied(f, h)[s] = IF f.pending[h].records[s] = -1 THEN rec[h][s]
                                 ELSE f.pending[h].records[s]
          BY <4>1 DEF Applied, Untouched
        <5> QED BY <5>1, <5>2, <5>3, <1>3
      <4>2. Applied(f, h) = [s \in Streams |-> Applied(f, h)[s]]
        BY DEF Applied
      <4>3. Applied(f, h) \in [Streams -> 0 .. Len(journal)]
        BY <4>1, <4>2
      <4> QED BY <4>3, <3>2
    <3> QED BY <3>1, <3>2, <2>2, <1>10
  <2>3. rec' \in [Handlers -> [Streams -> 0 .. Len(journal')]]
    BY <2>2
  <2>4. \A d \in Callers : frame'[d] # Idle => gate'[Home'[d]]
    BY <1>1, <1>8, <1>9 DEF TypeOK
  <2> QED BY <2>1, <2>3, <2>4, <1>1, <1>11 DEF TypeOK
<1>15. StateIsReplay'
  <2>1. ASSUME NEW h \in Handlers, NEW s \in Streams PROVE IsRecord(s, pos[h], rec[h][s])'
    <3>1. IsRecord(s, pos[h], rec[h][s])
      BY <2>1 DEF Inductive, StateIsReplay
    <3>2. CASE pos'[h] = pos[h] /\ rec'[h] = rec[h]
      BY <3>1, <3>2 DEF IsRecord, About
    <3>3. CASE /\ f.pending[h] # NothingStaged /\ pos[h] = f.pending[h].expected
               /\ pos'[h] = f.pending[h].through /\ rec'[h] = Applied(f, h)
      <4>1. IsRecord(s, f.pending[h].through, Applied(f, h)[s])
        BY <3>3, <2>1, <1>2 DEF FrameOK, BatchOK
      <4> QED BY <4>1, <3>3 DEF IsRecord, About
    <3> QED BY <3>2, <3>3, <1>10
  <2> QED BY <2>1 DEF StateIsReplay
<1>16. ASSUME NEW h \in Handlers
       PROVE  g.pending[h] = NothingStaged \/ (g.pending[h] = f.pending[h] /\ pos'[h] = pos[h])
  <2>1. CASE h \in B
    BY <2>1, <1>16
  <2>2. CASE h \notin B
    BY <2>2, <1>16
  <2> QED BY <2>1, <2>2
<1>17. NoBatchRefused'
  <2>1. ASSUME NEW d \in Callers, frame'[d] # Idle, \A e \in Callers : Home'[e] = Home'[d]
        PROVE  Current(frame[d])'
    <3>1. Home[c] = Home[d]
      BY <2>1, <1>9
    <3>2. d = c
      BY <3>1, <2>1, <1>1, <1>8 DEF Inductive, Exclusive
    <3>3. Current(f)
      BY <3>2, <2>1, <1>1, <1>9, BatchesCurrent DEF Inductive
    <3>4. ASSUME NEW h \in Handlers, g.pending[h].through # g.pending[h].expected
          PROVE  pos'[h] = g.pending[h].expected
      <4>1. g.pending[h] = f.pending[h] /\ pos'[h] = pos[h]
        BY <3>4, <1>16 DEF NothingStaged
      <4> QED BY <4>1, <3>3, <3>4 DEF Current, Staged, PositionMatches
    <3>5. g.pc \notin {"page", "project"}
      OBVIOUS
    <3>6. Current(g)'
      BY <3>4, <3>5 DEF Current, Staged, PositionMatches
    <3> QED BY <3>2, <3>6, <1>7
  <2> QED BY <2>1, BatchesCurrent DEF NoBatchRefused, Current
<1>18. Exclusive'
  BY <1>8, <1>9 DEF Inductive, Exclusive
<1>19. ResetsAreGated'
  <2>1. g.pc # "reset"
    OBVIOUS
  <2>2. CASE Alone
    BY <2>2, <1>9 DEF ResetsAreGated, Alone
  <2>3. CASE ~ Alone
    <3>1. budget.rebuilds = 0 /\ \A d \in Callers : frame[d] # Idle => frame[d].pc # "reset"
      BY <2>3 DEF Inductive, ResetsAreGated
    <3>2. budget'.rebuilds = 0 /\ \A d \in Callers : frame'[d] # Idle => frame'[d].pc # "reset"
      BY <3>1, <2>1, <1>7
    <3> QED BY <3>2 DEF ResetsAreGated
  <2> QED BY <2>2, <2>3
<1>20. EventsBounded'
  BY DEF Inductive, EventsBounded
<1>21. FrameOK(g)' /\ ReachOK(g)'
  <2>1. FrameOK(f)' /\ ReachOK(f)'
    BY <1>1, <1>2, <1>12, <1>13, KnownWhilePositionsGrow
  <2>2. ASSUME NEW h \in Handlers PROVE BatchOK(g, h)'
    <3>1. CASE g.pending[h] = NothingStaged
      BY <3>1 DEF BatchOK
    <3>2. CASE g.pending[h] = f.pending[h]
      BY <3>2, <2>1, <2>2 DEF FrameOK, BatchOK, Applied
    <3> QED BY <3>1, <3>2, <2>2, <1>16
  <2>3. g.pc = "status" => g.pending = NothingPending
    <3>1. ASSUME B = Staged(f), NEW h \in Handlers, h \notin B PROVE f.pending[h] = NothingStaged
      <4>1. f.pending[h].through = f.pending[h].expected
        BY <3>1 DEF Staged
      <4>2. f.pending[h].expected \in Nat
        BY <1>1, <3>1, BusyType
      <4> QED BY <4>1, <4>2, <3>1, <1>2 DEF FrameOK, BatchOK
    <3> QED BY <3>1 DEF NothingPending
  <2>4. FrameOK(g)'
    <3>1. g.pc \in {"status", "apply"}
      OBVIOUS
    <3>2. /\ g.handler \in Handlers /\ g.rounds > 0
          /\ \A n \in 0 .. MaxEvents :
               g.pages[n] # -1 => n <= g.pages[n] /\ g.pages[n] <= Len(journal')
      BY <2>1 DEF FrameOK
    <3> QED BY <2>2, <2>3, <3>1, <3>2 DEF FrameOK
  <2>5. ReachOK(g)'
    BY <2>1, <1>1 DEF ReachOK
  <2> QED BY <2>4, <2>5
<1>22. FramesOK'
  <2>1. ASSUME NEW d \in Callers, frame'[d] # Idle
        PROVE  (FrameOK(frame[d]) /\ ReachOK(frame[d]))'
    <3>1. CASE d = c
      BY <3>1, <1>7, <1>21
    <3>2. CASE d # c
      <4>1. PICK k : k = frame[d]
        OBVIOUS
      <4>2. k \in Busy /\ FrameOK(k) /\ ReachOK(k)
        BY <4>1, <2>1, <1>1, <1>8, CallerFrame DEF Inductive, FramesOK
      <4>3. FrameOK(k)' /\ ReachOK(k)'
        BY <4>2, <1>1, <1>12, <1>13, KnownWhilePositionsGrow
      <4> QED BY <4>1, <4>3, <3>2, <1>7
    <3> QED BY <3>1, <3>2
  <2> QED BY <2>1 DEF FramesOK
<1> QED BY <1>14, <1>15, <1>17, <1>18, <1>19, <1>20, <1>22 DEF Inductive

(* A transaction is committed, or a conflict ends the operation. *)
LEMMA ApplyAllStep ==
  ASSUME Inductive, NEW c \in Callers, ApplyAll(c), UNCHANGED deployment
  PROVE  Inductive'
<1>0. PICK f : f = frame[c]
  OBVIOUS
<1>1. TypeOK /\ f \in Busy /\ frame[c] # Idle /\ frame \in [Callers -> {Idle} \cup Busy]
  BY <1>0, CallerFrame DEF Inductive, TypeOK, ApplyAll, At
<1>2. PICK B : B = InTransaction(f)
  OBVIOUS
<1>3. PICK g : g = [f EXCEPT !.pc = IF B = Staged(f) THEN "status" ELSE "apply",
                             !.pending = [h \in Handlers |->
                                 IF h \in B THEN NothingStaged ELSE f.pending[h]]]
  OBVIOUS
<1>4. At(c, "apply") /\ UNCHANGED <<journal, budget>>
  BY DEF ApplyAll
<1>5. CASE /\ \A h \in B : PositionMatches(f, h)
           /\ pos' = [h \in Handlers |-> IF h \in B THEN f.pending[h].through ELSE pos[h]]
           /\ rec' = [h \in Handlers |-> IF h \in B THEN Applied(f, h) ELSE rec[h]]
           /\ frame' = [frame EXCEPT
                  ![c].pc = IF B = Staged(f) THEN "status" ELSE "apply",
                  ![c].pending = [h \in Handlers |->
                      IF h \in B THEN NothingStaged ELSE f.pending[h]]]
           /\ UNCHANGED gate
  <2>1. frame' = [frame EXCEPT ![c] = g]
    BY <1>0, <1>1, <1>3, <1>5 DEF Busy
  <2>2. UNCHANGED <<deployment, journal, gate, budget>> /\ \A h \in B : PositionMatches(f, h)
    BY <1>4, <1>5
  <2>3. pos' = [h \in Handlers |-> IF h \in B THEN f.pending[h].through ELSE pos[h]]
        /\ rec' = [h \in Handlers |-> IF h \in B THEN Applied(f, h) ELSE rec[h]]
    BY <1>5
  <2>0. NothingStaged \in Pending
    BY DEF NothingStaged, Pending, NoRecords
  <2>4. /\ g \in Busy /\ g.rounds = f.rounds /\ g.handler = f.handler /\ g.pages = f.pages
        /\ g.asked = f.asked /\ g.applied = f.applied
        /\ g.pc = IF B = Staged(f) THEN "status" ELSE "apply"
        /\ g.pending = [h \in Handlers |-> IF h \in B THEN NothingStaged ELSE f.pending[h]]
    <3>1. f.pending \in [Handlers -> Pending]
      BY <1>1 DEF Busy
    <3> DEFINE p == [h \in Handlers |-> IF h \in B THEN NothingStaged ELSE f.pending[h]]
    <3>2. p \in [Handlers -> Pending]
      BY <3>1, <2>0
    <3> HIDE DEF p
    <3>3. g = [f EXCEPT !.pc = IF B = Staged(f) THEN "status" ELSE "apply", !.pending = p]
      BY <1>3 DEF p
    <3> QED BY <3>2, <3>3, <1>1 DEF Busy, p
  <2>5. Committed(c, B, f, g)
    BY <2>1, <2>2, <2>3, <2>4, <1>0, <1>4 DEF Committed, At
  <2> QED BY <2>4, <2>5, CommitStep
<1>6. CASE Return(c) /\ UNCHANGED <<pos, rec>>
  <2>1. budget' \in Budget
    BY <1>1, <1>4 DEF TypeOK
  <2> QED BY <2>1, <1>1, <1>4, <1>6, ReturnStep
<1> QED BY <1>0, <1>2, <1>5, <1>6 DEF ApplyAll, store

(* A process dies. *)
LEMMA CrashStep ==
  ASSUME Inductive, NEW p \in Processes, Crash(p), UNCHANGED deployment
  PROVE  Inductive'
<1>1. /\ frame \in [Callers -> {Idle} \cup Busy] /\ gate \in [Processes -> BOOLEAN]
      /\ \A d \in Callers : frame[d] # Idle => gate[Home[d]]
      /\ budget \in Budget
  BY DEF Inductive, TypeOK
<1>2. /\ frame' = [d \in Callers |-> IF Home[d] = p THEN Idle ELSE frame[d]]
      /\ gate' = [gate EXCEPT ![p] = FALSE] /\ UNCHANGED <<journal, pos, rec>>
      /\ budget.crashes > 0 /\ budget' = [budget EXCEPT !.crashes = @ - 1]
  BY DEF Crash, store
<1>3. budget' \in Budget /\ budget'.events = budget.events /\ budget'.rebuilds = budget.rebuilds
  BY <1>1, <1>2 DEF Budget
<1>4. frame' \in [Callers -> {Idle} \cup Busy] /\ \A d \in Callers : frame'[d] \in {Idle, frame[d]}
  BY <1>1, <1>2
<1>5. gate' \in [Processes -> BOOLEAN]
  BY <1>1, <1>2
<1>6. ASSUME NEW d \in Callers, frame'[d] # Idle PROVE gate'[Home[d]]
  <2>1. Home[d] # p /\ frame[d] # Idle
    BY <1>2, <1>6
  <2>2. gate[Home[d]] = TRUE /\ Home[d] \in Processes
    BY <2>1, <1>1, HomeType DEF Inductive
  <2> QED BY <2>1, <2>2, <1>1, <1>2
<1> QED BY <1>2, <1>3, <1>4, <1>5, <1>6, EndStep

-----------------------------------------------------------------------------
(* The invariant holds initially. *)
LEMMA InitInductive ==
  ASSUME RebuildsAreGated
  PROVE  Init => Inductive
<1> SUFFICES ASSUME Init PROVE Inductive
  OBVIOUS
<1>1. /\ journal = << >> /\ Len(journal) = 0
      /\ pos = [h \in Handlers |-> 0] /\ rec = [h \in Handlers |-> Empty]
      /\ gate = [p \in Processes |-> FALSE] /\ frame = [c \in Callers |-> Idle]
      /\ deployment \in Deployments /\ budget = deployment.budget
  BY DEF Init
<1>2. budget \in Budget
  BY <1>1, ProjectionAssumption DEF Deployment
<1>3. TypeOK
  BY <1>1, <1>2 DEF TypeOK, Empty
<1>4. StateIsReplay
  BY <1>1, ReplayOfNothing DEF StateIsReplay, Empty
<1>5. NoBatchRefused /\ Exclusive /\ FramesOK
  BY <1>1 DEF NoBatchRefused, Exclusive, FramesOK
<1>6. ResetsAreGated
  BY <1>1 DEF RebuildsAreGated, ResetsAreGated, Alone, Home
<1>7. EventsBounded
  <2>1. budget.events \in 0 .. MaxEvents /\ MaxEvents \in Nat
    BY <1>2, ProjectionAssumption DEF Budget
  <2> QED BY <2>1, <1>1 DEF EventsBounded
<1> QED BY <1>3, <1>4, <1>5, <1>6, <1>7 DEF Inductive

(* Every step keeps the invariant. *)
LEMMA NextInductive == Inductive /\ [Next]_vars => Inductive'
<1> SUFFICES ASSUME Inductive, [Next]_vars PROVE Inductive'
  OBVIOUS
<1>1. ASSUME NEW c \in Callers, NEW rounds \in 1 .. MaxRounds, Drain(c, rounds), UNCHANGED deployment
      PROVE  Inductive'
  <2>1. rounds \in Nat \ {0} /\ << >> \in Seq(Handlers)
    BY ProjectionAssumption
  <2>2. Enter(c, << >>, rounds) /\ budget' = budget /\ budget \in Budget
    BY <1>1 DEF Drain, Inductive, TypeOK
  <2> QED BY <2>1, <2>2, <1>1, EnterStep
<1>2. ASSUME NEW c \in Callers, Rebuild(c), UNCHANGED deployment PROVE Inductive'
  <2>1. PICK resets \in {<<h>> : h \in Handlers} \cup {[h \in Handlers |-> h]} :
            Enter(c, resets, MaxRounds)
    BY <1>2 DEF Rebuild
  <2>2. resets \in Seq(Handlers)
    <3>1. CASE resets \in {<<h>> : h \in Handlers}
      BY <3>1
    <3>2. CASE resets = [h \in Handlers |-> h]
      <4>1. Handlers = 1 .. NumHandlers /\ NumHandlers \in Nat
        BY ProjectionAssumption DEF Handlers
      <4> QED BY <4>1, <3>2
    <3> QED BY <2>1, <3>1, <3>2
  <2>3. budget \in Budget /\ budget.rebuilds > 0 /\ budget' = [budget EXCEPT !.rebuilds = @ - 1]
    BY <1>2 DEF Rebuild, Inductive, TypeOK
  <2>4. budget' \in Budget /\ budget'.events = budget.events
    BY <2>3 DEF Budget
  <2>5. MaxRounds \in Nat \ {0}
    BY ProjectionAssumption
  <2> QED BY <2>1, <2>2, <2>3, <2>4, <2>5, <1>2, EnterStep
<1>3. ASSUME NEW c \in Callers, Step(c), UNCHANGED deployment PROVE Inductive'
  BY <1>3, ResetStep, ReadPositionStep, ReadPageStep, ReduceStep, ReduceFailsStep, ApplyAllStep,
     StatusStep DEF Step
<1>4. CASE UNCHANGED vars
  <2>1. frame' \in [Callers -> {Idle} \cup Busy] /\ gate' \in [Processes -> BOOLEAN]
        /\ \A d \in Callers : frame'[d] # Idle => gate'[Home[d]]
    BY <1>4 DEF vars, Inductive, TypeOK
  <2>2. budget' \in Budget
    BY <1>4 DEF vars, Inductive, TypeOK
  <2>3. \A d \in Callers : frame'[d] \in {Idle, frame[d]}
    BY <1>4 DEF vars
  <2> QED BY <2>1, <2>2, <2>3, <1>4, EndStep DEF vars
<1> QED BY <1>1, <1>2, <1>3, <1>4, RecordStep, CrashStep DEF Next

(* Every read model holds exactly the records of the journal's first       *)
(* pos[h] events, whatever was interrupted, failed or raced, and in one    *)
(* process no batch is refused.  RebuildsAreGated is what the code relies  *)
(* on and does not enforce across processes: ProjectionRebuildRace.cfg     *)
(* shows what happens without it.                                          *)
THEOREM ReadModelsStayExact ==
  ASSUME RebuildsAreGated
  PROVE  Spec => []ReadModelsAreExact
<1>1. Inductive => ReadModelsAreExact
  BY DEF Inductive, ReadModelsAreExact
<1> QED BY <1>1, InitInductive, NextInductive, PTL DEF Spec

(* A step of one operation leaves the locals of the others alone. *)
LEMMA OthersKeepFrame ==
  ASSUME TypeOK, NEW c \in Callers, NEW d \in Callers, d # c, Step(d)
  PROVE  frame'[c] = frame[c]
<1>1. frame \in [Callers -> {Idle} \cup Busy]
  BY DEF TypeOK
<1>2. Return(d) => frame'[c] = frame[c]
  BY <1>1 DEF Return
<1>3. Reset(d) \/ ReadPosition(d) => frame'[c] = frame[c]
  BY <1>1 DEF Reset, ReadPosition
<1>4. ReadPage(d) \/ Reduce(d) => frame'[c] = frame[c]
  BY <1>1 DEF ReadPage, Reduce
<1>5. ApplyAll(d) => frame'[c] = frame[c]
  BY <1>1, <1>2 DEF ApplyAll
<1>6. Status(d) => frame'[c] = frame[c]
  BY <1>1, <1>2 DEF Status
<1> QED BY <1>2, <1>3, <1>4, <1>5, <1>6 DEF Step, ReduceFails

(* A drain or rebuild that stops with rounds to spare has brought every    *)
(* projection past the head it was asked for.                              *)
THEOREM DrainsReachTheirHead ==
  ASSUME RebuildsAreGated
  PROVE  Spec => DrainReachesItsHead
<1> DEFINE Reaches ==
        \A c \in Callers :
           frame[c] # Idle /\ frame[c].pc = "status" /\ frame[c].rounds > 1
                /\ frame'[c] = Idle /\ budget' = budget
           => \A h \in Handlers : pos[h] >= frame[c].asked
<1>1. ASSUME Inductive, Next PROVE Reaches
  <2> SUFFICES ASSUME NEW c \in Callers, frame[c] # Idle, frame[c].pc = "status",
                      frame[c].rounds > 1, frame'[c] = Idle, budget' = budget
               PROVE  \A h \in Handlers : pos[h] >= frame[c].asked
    OBVIOUS
  <2>1. TypeOK /\ frame[c] \in Busy /\ FrameOK(frame[c]) /\ ReachOK(frame[c])
    BY <1>1, CallerFrame DEF Inductive, FramesOK
  <2>2. pos \in [Handlers -> 0 .. Len(journal)] /\ Len(journal) \in Nat
        /\ frame[c].asked \in Nat /\ frame[c].rounds # 1
    BY <2>1, <1>1, JournalBounded, BusyType
  <2>3. Status(c)
    <3>1. \A d \in Callers : d # c => ~ Step(d)
      BY OthersKeepFrame, <2>1
    <3>2. Step(c) => Status(c)
      BY DEF Step, Reset, ReadPosition, ReadPage, Reduce, ReduceFails, ApplyAll, At
    <3>3. \A d \in Callers : \A resets, rounds : ~ Enter(d, resets, rounds)
      <4>1. ASSUME NEW d \in Callers, NEW resets, NEW rounds, Enter(d, resets, rounds) PROVE FALSE
        <5>1. d # c
          BY <4>1 DEF Enter
        <5>2. frame'[c] = frame[c]
          BY <4>1, <5>1, <2>1 DEF Enter, TypeOK
        <5> QED BY <5>2
      <4> QED BY <4>1
    <3>4. \A p \in Processes : ~ Crash(p)
      <4>1. ASSUME NEW p \in Processes, Crash(p) PROVE FALSE
        <5>1. budget \in Budget /\ budget' = [budget EXCEPT !.crashes = @ - 1]
          BY <4>1, <2>1 DEF Crash, TypeOK
        <5>2. budget.crashes \in Nat /\ budget'.crashes = budget.crashes - 1
          BY <5>1 DEF Budget
        <5> QED BY <5>2
      <4> QED BY <4>1
    <3>5. \A e \in Event : ~ Record(e)
      BY DEF Record
    <3> QED BY <1>1, <3>1, <3>2, <3>3, <3>4, <3>5 DEF Next, Drain, Rebuild
  <2>4. CASE Ready
    <3>1. \A h \in Handlers : pos[h] = Len(journal)
      BY <2>4 DEF Ready
    <3> QED BY <3>1, <2>1, <2>2 DEF ReachOK
  <2>5. CASE frame[c].applied = 0
    <3>1. \A h \in Handlers : frame[c].asked <= pos[h]
      BY <2>5, <2>1 DEF ReachOK
    <3> QED BY <3>1, <2>2
  <2>6. CASE ~ Ready /\ frame[c].applied # 0
    <3>1. frame'[c].pc = "position"
      <4>1. frame' = [frame EXCEPT ![c].pc = "position", ![c].rounds = @ - 1,
                                   ![c].handler = 1, ![c].from = 0, ![c].item = 0,
                                   ![c].pages = NoPages, ![c].applied = 0]
        BY <2>2, <2>3, <2>6 DEF Status
      <4>2. frame \in [Callers -> {Idle} \cup Busy]
        BY <2>1 DEF TypeOK
      <4> QED BY <4>1, <4>2, <2>1 DEF Busy
    <3> QED BY <3>1 DEF Idle
  <2> QED BY <2>4, <2>5, <2>6
<1>2. Inductive /\ [Next]_vars => [Reaches]_vars
  BY <1>1
<1> QED BY <1>2, InitInductive, NextInductive, PTL DEF Spec, DrainReachesItsHead
=============================================================================
