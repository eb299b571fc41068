-------------------------- MODULE MemoryIndexProofs --------------------------
(***************************************************************************)
(* Theorems about MemoryIndex, for any number of callers and memories, any *)
(* batch limit and any length of the journal.                              *)
(***************************************************************************)
EXTENDS MemoryIndex, TLAPS

(* One of the first k events is about memory m. *)
About(m, k) == \E s \in 1 .. k : journal[s].mem = m

(* The last of the first k events that is about m is one of them (0: none). *)
LastOf(j, m, k) == Max0({s \in 1 .. k : j[s].mem = m})
LastAbout(m, k) == LastOf(journal, m, k)

LastInRange ==
    \A m \in Memories : \A k \in 0 .. Len(journal) : LastAbout(m, k) \in 0 .. k

ValuesInRange ==
    \A c \in Callers : \A m \in Memories : frame[c].values[m] \in 0 .. Len(journal)

(* The batch a caller works through lies within the journal. *)
Working == {"processed", "apply", "setPosition", "acknowledge"}

Batch(c) ==
    /\ frame[c].first \in Nat \ {0}
    /\ frame[c].last \in frame[c].first .. Len(journal)
    /\ frame[c].item \in frame[c].first .. frame[c].last

BatchesInRange == \A c \in Callers : pc[c] \in Working => Batch(c)

Shape == TypeOK /\ LastInRange /\ ValuesInRange /\ BatchesInRange

-----------------------------------------------------------------------------
(* The last event about m, in any journal j. *)
LEMMA LastOfAny ==
  ASSUME NEW j, NEW k \in Nat, NEW m
  PROVE  /\ j[k + 1].mem = m => LastOf(j, m, k + 1) = k + 1
         /\ j[k + 1].mem # m => LastOf(j, m, k + 1) = LastOf(j, m, k)
<1> DEFINE Old == {s \in 1 .. k : j[s].mem = m}
           New == {s \in 1 .. (k + 1) : j[s].mem = m}
<1>1. ASSUME j[k + 1].mem # m
      PROVE  Old = New
  BY <1>1
<1>2. ASSUME j[k + 1].mem = m
      PROVE  Max0(New) = k + 1
  <2>1. k + 1 \in New /\ New # {} /\ \A y \in New : y \in Nat /\ y <= k + 1
    BY <1>2
  <2> HIDE DEF New
  <2>2. \E x \in New : \A y \in New : x >= y
    BY <2>1
  <2>3. PICK x : x = Max(New)
    OBVIOUS
  <2>4. x \in New /\ \A y \in New : x >= y
    BY <2>2, <2>3 DEF Max
  <2>5. x = k + 1
    BY <2>1, <2>4
  <2> QED BY <2>1, <2>3, <2>5 DEF Max0
<1> QED BY <1>1, <1>2 DEF LastOf

(* No event about m, no document of m. *)
LEMMA CanonicalNone ==
  ASSUME NEW m, NEW k, ~ About(m, k)
  PROVE  Canonical(m, k) = 0
<1>1. {s \in 1 .. k : journal[s].mem = m} = {}
  BY DEF About
<1> QED BY <1>1 DEF Canonical, Max0

(* The document the canonical records call for, one event further. *)
LEMMA CanonicalNext ==
  ASSUME NEW k \in Nat, NEW m
  PROVE  /\ journal[k + 1].mem = m => Canonical(m, k + 1) = DocumentAfter(journal[k + 1], k + 1)
         /\ journal[k + 1].mem # m => Canonical(m, k + 1) = Canonical(m, k)
         /\ About(m, k + 1) <=> About(m, k) \/ journal[k + 1].mem = m
<1>1. About(m, k + 1) <=> About(m, k) \/ journal[k + 1].mem = m
  <2>1. \A s : s \in 1 .. (k + 1) <=> s \in 1 .. k \/ s = k + 1
    OBVIOUS
  <2> QED BY <2>1 DEF About
<1>2. PICK j : j = journal
  OBVIOUS
<1>3. ASSUME journal[k + 1].mem # m
      PROVE  Canonical(m, k + 1) = Canonical(m, k)
  <2>1. LastOf(j, m, k + 1) = LastOf(j, m, k)
    BY <1>2, <1>3, LastOfAny
  <2> QED BY <2>1, <1>2 DEF Canonical, LastOf
<1>4. ASSUME journal[k + 1].mem = m
      PROVE  Canonical(m, k + 1) = DocumentAfter(journal[k + 1], k + 1)
  <2>1. LastOf(j, m, k + 1) = k + 1 /\ k + 1 # 0
    BY <1>2, <1>4, LastOfAny
  <2> QED BY <2>1, <1>2 DEF Canonical, DocumentAfter, LastOf
<1> QED BY <1>1, <1>3, <1>4

(* A new event leaves what the earlier ones call for. *)
LEMMA CanonicalKept ==
  ASSUME TypeOK, LastInRange, NEW e, journal' = Append(journal, e),
         NEW m \in Memories, NEW k \in 0 .. Len(journal)
  PROVE  /\ Canonical(m, k)' = Canonical(m, k)
         /\ LastAbout(m, k)' = LastAbout(m, k)
         /\ About(m, k)' <=> About(m, k)
<1>1. \A s \in 1 .. k : journal'[s] = journal[s]
  BY DEF TypeOK
<1>2. {s \in 1 .. k : journal'[s].mem = m} = {s \in 1 .. k : journal[s].mem = m}
  BY <1>1
<1>3. PICK x : x = LastAbout(m, k)
  OBVIOUS
<1>4. x \in 0 .. k
  BY <1>3 DEF LastInRange
<1>5. LastAbout(m, k)' = x
  BY <1>2, <1>3 DEF LastAbout, LastOf
<1>6. Canonical(m, k) = (IF x # 0 /\ journal[x].put THEN x ELSE 0)
  BY <1>3 DEF Canonical, LastAbout, LastOf
<1>7. Canonical(m, k)' = (IF x # 0 /\ journal'[x].put THEN x ELSE 0)
  BY <1>5 DEF Canonical, LastAbout, LastOf
<1>8. x # 0 => journal'[x] = journal[x]
  BY <1>1, <1>4
<1>9. About(m, k)' <=> About(m, k)
  BY <1>1 DEF About
<1>10. (IF x # 0 /\ journal[x].put THEN x ELSE 0) = (IF x # 0 /\ journal'[x].put THEN x ELSE 0)
  BY <1>8
<1> QED BY <1>3, <1>5, <1>6, <1>7, <1>9, <1>10

LEMMA CanonicalRange ==
  ASSUME LastInRange, NEW m \in Memories, NEW k \in 0 .. Len(journal)
  PROVE  Canonical(m, k) \in 0 .. k
<1>1. PICK x : x = LastAbout(m, k)
  OBVIOUS
<1>2. x \in 0 .. k
  BY <1>1 DEF LastInRange
<1>3. Canonical(m, k) = x \/ Canonical(m, k) = 0
  BY <1>1 DEF Canonical, LastAbout, LastOf
<1> QED BY <1>1, <1>2, <1>3

(* A record of the journal makes every range grow by one. *)
LEMMA JournalGrows ==
  ASSUME TypeOK, NEW e \in Event, journal' = Append(journal, e)
  PROVE  /\ Len(journal) \in Nat
         /\ journal' \in Seq(Event)
         /\ Len(journal') = Len(journal) + 1
         /\ journal'[Len(journal) + 1] = e
         /\ \A i \in 1 .. Len(journal) : journal'[i] = journal[i]
BY DEF TypeOK

-----------------------------------------------------------------------------
(* Any number of callers: what a caller has been through of its batch is   *)
(* marked, and nothing counts as acknowledged while a rebuild replaces the *)
(* index.                                                                  *)
CallerApplied(c) ==
    /\ pc[c] \in {"processed", "apply"} => frame[c].first .. (frame[c].item - 1) \subseteq marks
    /\ pc[c] \in {"setPosition", "acknowledge"} => frame[c].first .. frame[c].last \subseteq marks
    /\ pc[c] \in {"resetRetry", "setZero", "rebuild"} => queuePos = 0

Lossless == Shape /\ AcknowledgedIsApplied /\ \A c \in Callers : CallerApplied(c)

(* One sync at a time: a caller in a batch starts at the queue position    *)
(* and has applied the batch up to the k-th event of the journal.          *)
CallerAt(c, k) ==
    /\ pc[c] \in {"compare", "pending"} => frame[c].from = queuePos
    /\ pc[c] \in Working => frame[c].from = queuePos /\ frame[c].first = queuePos + 1
    /\ pc[c] = "processed" => frame[c].item <= k + 1
    /\ pc[c] = "apply" => frame[c].item = k + 1
    /\ pc[c] \in {"setPosition", "acknowledge"} => frame[c].last <= k
    /\ pc[c] = "acknowledge" => indexPos = frame[c].last
    /\ pc[c] \in {"resetRetry", "setZero", "rebuild"} => queuePos = 0

(* The markers are those of the first k events, and a memory one of them   *)
(* is about has the document they call for.  A rebuild leaves documents    *)
(* whose events are not marked yet: the replay passes over them again.     *)
AppliedTo(k) ==
    /\ marks = 1 .. k
    /\ queuePos <= k
    /\ \A m \in Memories : About(m, k) => docs[m] = Canonical(m, k)
    /\ \A c \in Callers : CallerAt(c, k)

(* No document, in the index or listed for a rebuild, without an event. *)
NothingInvented ==
    \A m \in Memories : ~ About(m, Len(journal)) =>
        docs[m] = 0 /\ \A c \in Callers : frame[c].values[m] = 0

Inductive ==
    /\ Shape
    /\ queuePos <= indexPos
    /\ NothingInvented
    /\ \E k \in 0 .. Len(journal) : AppliedTo(k)

(* What each step keeps, and under which company. *)
Kept ==
    /\ Shape'
    /\ Lossless /\ RebuildsAlone /\ RebuildsAlone' => Lossless'
    /\ Inductive /\ SyncsDoNotOverlap /\ SyncsDoNotOverlap' => Inductive'

(* Caller c goes to l with locals f. *)
Moves(c, l, f) ==
    /\ journal' = journal
    /\ pc' = [pc EXCEPT ![c] = l]
    /\ frame' = [frame EXCEPT ![c] = f]

(* The durable places hold values of their types. *)
PlacesTyped ==
    /\ docs' \in [Memories -> 0 .. Len(journal)]
    /\ marks' \subseteq 1 .. Len(journal)
    /\ indexPos' \in 0 .. Len(journal)
    /\ queuePos' \in 0 .. Len(journal)
    /\ retry' \in {"none", "later", "blocked"}

(* Locals that fit program counter l. *)
Fits(l, f) ==
    /\ \A m \in Memories : f.values[m] \in 0 .. Len(journal)
    /\ l \in Working => /\ f.first \in Nat \ {0}
                        /\ f.last \in f.first .. Len(journal)
                        /\ f.item \in f.first .. f.last

DocsAt(k) == \A m \in Memories : About(m, k) => docs[m] = Canonical(m, k)

LEMMA FrameFields ==
  ASSUME Shape, NEW c \in Callers
  PROVE  /\ frame[c] \in Frame /\ pc[c] \in Pcs
         /\ frame[c].from \in Nat /\ frame[c].first \in Nat /\ frame[c].last \in Nat
         /\ frame[c].item \in Nat /\ frame[c].values \in [Memories -> Nat]
         /\ Fits(pc[c], frame[c])
         /\ Len(journal) \in Nat
<1>1. frame[c] \in Frame /\ pc[c] \in Pcs /\ Len(journal) \in Nat
  BY DEF Shape, TypeOK
<1>2. /\ frame[c].from \in Nat /\ frame[c].first \in Nat /\ frame[c].last \in Nat
      /\ frame[c].item \in Nat /\ frame[c].values \in [Memories -> Nat]
  BY <1>1 DEF Frame
<1>3. Fits(pc[c], frame[c])
  BY DEF Shape, Fits, ValuesInRange, BatchesInRange, Batch
<1> QED BY <1>1, <1>2, <1>3

(* Without a new event the records call for the same documents. *)
LEMMA SameJournal ==
  ASSUME journal' = journal
  PROVE  /\ \A m, k : Canonical(m, k)' = Canonical(m, k)
         /\ \A m, k : About(m, k)' <=> About(m, k)
         /\ LastInRange => LastInRange'
<1>1. \A m, k : Canonical(m, k)' = Canonical(m, k)
  BY DEF Canonical
<1>2. \A m, k : About(m, k)' <=> About(m, k)
  BY DEF About
<1>3. LastInRange => LastInRange'
  BY DEF LastInRange, LastAbout, LastOf
<1> QED BY <1>1, <1>2, <1>3

LEMMA MovesShape ==
  ASSUME Shape, NEW c \in Callers, NEW l \in Pcs, NEW f \in Frame, Moves(c, l, f),
         PlacesTyped, Fits(l, f)
  PROVE  /\ Shape'
         /\ pc'[c] = l /\ frame'[c] = f
         /\ \A d \in Callers \ {c} : pc'[d] = pc[d] /\ frame'[d] = frame[d]
<1>1. TypeOK'
  BY DEF Shape, TypeOK, Moves, PlacesTyped
<1>2. /\ pc'[c] = l /\ frame'[c] = f
      /\ \A d \in Callers \ {c} : pc'[d] = pc[d] /\ frame'[d] = frame[d]
      /\ journal' = journal
  BY DEF Shape, TypeOK, Moves
<1>3. LastInRange'
  BY <1>2, SameJournal DEF Shape
<1>4. ValuesInRange'
  BY <1>2 DEF Shape, ValuesInRange, Fits
<1>5. BatchesInRange'
  BY <1>2 DEF Shape, BatchesInRange, Batch, Fits
<1> QED BY <1>1, <1>2, <1>3, <1>4, <1>5 DEF Shape

(* A step of one caller.  Nobody else is at work beside a rebuild, and     *)
(* nobody at all beside a step of a sync that does not overlap another.    *)
LEMMA MovesKeep ==
  ASSUME Shape, NEW c \in Callers, NEW l \in Pcs, NEW f \in Frame, Moves(c, l, f),
         PlacesTyped, Fits(l, f),
         pc[c] # "idle" \/ l # "idle",
         Lossless /\ RebuildsAlone =>
            /\ AcknowledgedIsApplied' /\ CallerApplied(c)'
            /\ marks \subseteq marks' \/ pc[c] = "rebuild"
            /\ queuePos' = queuePos \/ pc[c] # "idle",
         Inductive =>
            /\ queuePos' <= indexPos' /\ NothingInvented'
            /\ \E k \in 0 .. Len(journal) :
                  marks' = 1 .. k /\ queuePos' <= k /\ DocsAt(k)' /\ CallerAt(c, k)'
  PROVE  Kept
<1>1. /\ Shape'
      /\ pc'[c] = l /\ frame'[c] = f
      /\ \A d \in Callers \ {c} : pc'[d] = pc[d] /\ frame'[d] = frame[d]
      /\ journal' = journal
  BY MovesShape DEF Moves
<1>2. ASSUME Lossless, RebuildsAlone, RebuildsAlone'
      PROVE  Lossless'
  <2>1. ASSUME NEW d \in Callers, d # c
        PROVE  CallerApplied(d)'
    <3>1. CallerApplied(d) /\ pc'[d] = pc[d] /\ frame'[d] = frame[d]
      BY <1>1, <1>2, <2>1 DEF Lossless
    <3>2. CASE pc[c] = "rebuild"
      <4>1. pc[d] = "idle"
        BY <3>2, <2>1, <1>2 DEF RebuildsAlone
      <4> QED BY <4>1, <3>1 DEF CallerApplied
    <3>3. CASE marks \subseteq marks'
      <4>1. pc[d] \in {"resetRetry", "setZero", "rebuild"} => queuePos' = 0
        <5>1. pc[d] \in {"resetRetry", "setZero", "rebuild"} => pc[c] = "idle"
          BY <2>1, <1>2 DEF RebuildsAlone
        <5> QED BY <5>1, <3>1, <1>2 DEF CallerApplied
      <4> QED BY <4>1, <3>1, <3>3 DEF CallerApplied
    <3> QED BY <3>2, <3>3, <1>2
  <2> QED BY <2>1, <1>1, <1>2 DEF Lossless
<1>3. ASSUME Inductive, SyncsDoNotOverlap, SyncsDoNotOverlap'
      PROVE  Inductive'
  <2>1. PICK k \in 0 .. Len(journal) :
           marks' = 1 .. k /\ queuePos' <= k /\ DocsAt(k)' /\ CallerAt(c, k)'
    BY <1>3
  <2>2. ASSUME NEW d \in Callers, d # c
        PROVE  pc'[d] = "idle"
    BY <2>2, <1>1, <1>3 DEF SyncsDoNotOverlap
  <2>3. \A d \in Callers : CallerAt(d, k)'
    <3>1. ASSUME NEW d \in Callers, d # c
          PROVE  CallerAt(d, k)'
      BY <2>2, <3>1 DEF CallerAt, Working
    <3> QED BY <3>1, <2>1
  <2>4. AppliedTo(k)'
    BY <2>1, <2>3 DEF AppliedTo, DocsAt
  <2>5. k \in 0 .. Len(journal')
    BY <1>1
  <2> QED BY <2>4, <2>5, <1>1, <1>3 DEF Inductive
<1> QED BY <1>1, <1>2, <1>3 DEF Kept

(* A step that writes no durable place but the retry state. *)
LEMMA QuietKeeps ==
  ASSUME Shape, NEW c \in Callers, NEW l \in Pcs, NEW f \in Frame, Moves(c, l, f), Fits(l, f),
         UNCHANGED <<docs, marks, indexPos, queuePos>>,
         retry' \in {"none", "later", "blocked"},
         pc[c] # "idle" \/ l # "idle",
         Lossless /\ RebuildsAlone => CallerApplied(c)',
         Inductive => \A m \in Memories : ~ About(m, Len(journal)) => f.values[m] = 0,
         Inductive => \A k \in 0 .. Len(journal) : AppliedTo(k) => CallerAt(c, k)'
  PROVE  Kept
<1>1. PlacesTyped
  BY DEF Shape, TypeOK, PlacesTyped
<1>2. /\ frame'[c] = f /\ journal' = journal
      /\ \A d \in Callers \ {c} : frame'[d] = frame[d]
  BY <1>1, MovesShape DEF Moves
<1>3. Lossless => AcknowledgedIsApplied'
  BY DEF Lossless, AcknowledgedIsApplied
<1>4. ASSUME Inductive
      PROVE  /\ queuePos' <= indexPos' /\ NothingInvented'
             /\ \E k \in 0 .. Len(journal) :
                   marks' = 1 .. k /\ queuePos' <= k /\ DocsAt(k)' /\ CallerAt(c, k)'
  <2>1. queuePos' <= indexPos'
    BY <1>4 DEF Inductive
  <2>2. NothingInvented'
    <3>1. SUFFICES ASSUME NEW m \in Memories, ~ About(m, Len(journal))'
                   PROVE  docs'[m] = 0 /\ \A d \in Callers : frame'[d].values[m] = 0
      BY DEF NothingInvented
    <3>2. ~ About(m, Len(journal))
      BY <3>1, <1>2 DEF About
    <3> QED BY <3>2, <1>2, <1>4 DEF Inductive, NothingInvented
  <2>3. PICK k \in 0 .. Len(journal) : AppliedTo(k)
    BY <1>4 DEF Inductive
  <2>4. DocsAt(k)'
    BY <2>3, <1>2, SameJournal DEF DocsAt, AppliedTo
  <2>5. marks' = 1 .. k /\ queuePos' <= k /\ CallerAt(c, k)'
    BY <2>3, <1>4 DEF AppliedTo
  <2> QED BY <2>1, <2>2, <2>4, <2>5
<1>5. Lossless /\ RebuildsAlone =>
            /\ AcknowledgedIsApplied' /\ CallerApplied(c)'
            /\ marks \subseteq marks' \/ pc[c] = "rebuild"
            /\ queuePos' = queuePos \/ pc[c] # "idle"
  BY <1>3
<1> QED BY <1>1, <1>4, <1>5, MovesKeep

(* Locals that leave values alone. *)
LEMMA SameValues ==
  ASSUME Inductive, NEW c \in Callers
  PROVE  \A m \in Memories : ~ About(m, Len(journal)) => frame[c].values[m] = 0
BY DEF Inductive, NothingInvented

(* A step that keeps the locals. *)
LEMMA SameFrame ==
  ASSUME Shape, NEW c \in Callers, NEW l, Goto(c, l), UNCHANGED <<journal, frame>>
  PROVE  Moves(c, l, frame[c])
BY DEF Shape, TypeOK, Goto, Moves

LEMMA NoFrameType ==
  ASSUME Len(journal) \in Nat
  PROVE  NoFrame \in Frame /\ Fits("idle", NoFrame) /\ NoFrame.values = NoValues
BY DEF NoFrame, Frame, NoValues, Fits, Working

-----------------------------------------------------------------------------
LEMMA StartSyncStep ==
  ASSUME Shape, NEW c \in Callers, StartSync(c)
  PROVE  Kept
<1> DEFINE f == frame[c]
<1>1. Moves(c, "positions", f) /\ "positions" \in Pcs
  BY SameFrame DEF StartSync, Pcs
<1>2. f \in Frame /\ Fits("positions", f)
  BY FrameFields DEF Fits, Working
<1>3. UNCHANGED <<docs, marks, indexPos, queuePos, retry>>
  BY DEF StartSync, index, queue
<1>4. pc'[c] = "positions" /\ retry' \in {"none", "later", "blocked"}
  BY <1>1, <1>3 DEF Moves, Shape, TypeOK
<1>5. CallerApplied(c)' /\ \A k : CallerAt(c, k)'
  BY <1>4 DEF CallerApplied, CallerAt, Working
<1> HIDE DEF f
<1>6. Inductive => \A m \in Memories : ~ About(m, Len(journal)) => f.values[m] = 0
  BY SameValues DEF f
<1> QED BY <1>1, <1>2, <1>3, <1>4, <1>5, <1>6, QuietKeeps

LEMMA PositionsStep ==
  ASSUME Shape, NEW c \in Callers, Positions(c)
  PROVE  Kept
<1> DEFINE f == [frame[c] EXCEPT !.from = queuePos]
<1>1. queuePos \in Nat /\ pc[c] = "positions"
  BY DEF Shape, TypeOK, Positions
<1>2. /\ f \in Frame /\ f.values = frame[c].values /\ f.from = queuePos
  BY <1>1, FrameFields DEF Frame
<1>3. Moves(c, "compare", f) /\ "compare" \in Pcs
  BY DEF Moves, Positions, Goto, Shape, TypeOK, Pcs
<1> HIDE DEF f
<1>4. Fits("compare", f)
  BY <1>2, FrameFields DEF Fits, Working
<1>5. UNCHANGED <<docs, marks, indexPos, queuePos, retry>>
  BY DEF Positions, index, queue
<1>6. pc'[c] = "compare" /\ frame'[c] = f /\ retry' \in {"none", "later", "blocked"}
  BY <1>3, <1>5 DEF Moves, Shape, TypeOK
<1>7. CallerApplied(c)' /\ \A k : CallerAt(c, k)'
  BY <1>2, <1>5, <1>6 DEF CallerApplied, CallerAt, Working
<1>8. Inductive => \A m \in Memories : ~ About(m, Len(journal)) => f.values[m] = 0
  BY <1>2, SameValues
<1> QED BY <1>1, <1>2, <1>3, <1>4, <1>5, <1>6, <1>7, <1>8, QuietKeeps

LEMMA CompareStep ==
  ASSUME Shape, NEW c \in Callers, Compare(c)
  PROVE  Kept
<1> DEFINE f == frame[c]
           l == IF indexPos < frame[c].from THEN "unverified" ELSE "pending"
<1>1. /\ pc[c] = "compare" /\ Goto(c, l)
      /\ UNCHANGED <<journal, docs, marks, indexPos, queuePos, retry, frame>>
  BY DEF Compare, index, queue
<1>2. l \in Pcs /\ l \in {"unverified", "pending"}
  BY DEF Pcs
<1> HIDE DEF l
<1>3. Moves(c, l, f)
  BY <1>1, SameFrame
<1>4. f \in Frame /\ Fits(l, f)
  BY <1>2, FrameFields DEF Fits, Working
<1>5. pc'[c] = l /\ frame'[c] = f /\ retry' \in {"none", "later", "blocked"}
  BY <1>1, <1>3 DEF Moves, Shape, TypeOK
<1>6. CallerApplied(c)'
  BY <1>2, <1>5 DEF CallerApplied
<1>7. \A k \in 0 .. Len(journal) : AppliedTo(k) => CallerAt(c, k)'
  BY <1>1, <1>2, <1>5 DEF AppliedTo, CallerAt, Working
<1>8. Inductive => \A m \in Memories : ~ About(m, Len(journal)) => f.values[m] = 0
  BY SameValues
<1> HIDE DEF f
<1> QED BY <1>1, <1>2, <1>3, <1>4, <1>5, <1>6, <1>7, <1>8, QuietKeeps

LEMMA MinOfTwo ==
  ASSUME NEW a \in Nat, NEW b \in Nat
  PROVE  /\ Min({a, b}) \in {a, b} /\ Min({a, b}) <= a /\ Min({a, b}) <= b
<1>1. \E x \in {a, b} : \A y \in {a, b} : x <= y
  OBVIOUS
<1> QED BY <1>1 DEF Min

LEMMA PendingStep ==
  ASSUME Shape, NEW c \in Callers, Pending(c)
  PROVE  Kept
<1>1. PICK last : last = Min({Len(journal), queuePos + Limit})
  OBVIOUS
<1>2. /\ queuePos \in Nat /\ queuePos <= Len(journal) /\ Len(journal) \in Nat
      /\ queuePos + Limit \in Nat /\ queuePos + Limit > queuePos
      /\ pc[c] = "pending"
  BY MemoryIndexAssumption DEF Shape, TypeOK, Pending
<1>3. last \in Nat /\ queuePos <= last /\ last <= Len(journal)
  BY <1>1, <1>2, MinOfTwo
<1> DEFINE f == [frame[c] EXCEPT !.first = queuePos + 1, !.last = last, !.item = queuePos + 1]
           l == IF last = queuePos THEN "clear" ELSE "processed"
<1>4. /\ f \in Frame /\ f.values = frame[c].values /\ f.from = frame[c].from
      /\ f.first = queuePos + 1 /\ f.last = last /\ f.item = queuePos + 1
  <2>1. PICK g \in Frame : g = frame[c]
    BY FrameFields
  <2>2. f = [g EXCEPT !.first = queuePos + 1, !.last = last, !.item = queuePos + 1]
    BY <2>1
  <2>3. PICK q \in Nat : q = queuePos + 1
    BY <1>2
  <2> QED BY <2>1, <2>2, <2>3, <1>3 DEF Frame
<1>5. l \in Pcs /\ l \in {"clear", "processed"} /\ (l = "processed" => last # queuePos)
  BY DEF Pcs
<1>6. Moves(c, l, f)
  BY <1>1 DEF Moves, Pending, Goto, Shape, TypeOK
<1> HIDE DEF f, l
<1>7. Fits(l, f)
  BY <1>2, <1>3, <1>4, <1>5, FrameFields DEF Fits, Working
<1>8. UNCHANGED <<docs, marks, indexPos, queuePos, retry>>
  BY DEF Pending, index, queue
<1>9. pc'[c] = l /\ frame'[c] = f /\ retry' \in {"none", "later", "blocked"}
  BY <1>6, <1>8 DEF Moves, Shape, TypeOK
<1>10. CallerApplied(c)'
  <2>1. f.first .. (f.item - 1) = {}
    BY <1>2, <1>4
  <2> QED BY <2>1, <1>5, <1>9 DEF CallerApplied
<1>11. ASSUME Inductive, NEW k \in 0 .. Len(journal), AppliedTo(k)
       PROVE  CallerAt(c, k)'
  <2>1. frame[c].from = queuePos /\ queuePos <= k
    BY <1>2, <1>11 DEF AppliedTo, CallerAt
  <2> QED BY <2>1, <1>2, <1>4, <1>5, <1>8, <1>9 DEF CallerAt, Working
<1>12. Inductive => \A m \in Memories : ~ About(m, Len(journal)) => f.values[m] = 0
  BY <1>4, SameValues
<1> QED BY <1>2, <1>4, <1>5, <1>6, <1>7, <1>8, <1>9, <1>10, <1>11, <1>12, QuietKeeps

(* The step after an item. *)
LEMMA AfterItemMoves ==
  ASSUME Shape, NEW c \in Callers, AfterItem(c), UNCHANGED journal, pc[c] \in Working
  PROVE  \E l \in {"setPosition", "processed"}, f \in Frame :
            /\ Moves(c, l, f) /\ Fits(l, f)
            /\ f.values = frame[c].values /\ f.from = frame[c].from
            /\ f.first = frame[c].first /\ f.last = frame[c].last
            /\ l = "setPosition" => frame[c].item = frame[c].last /\ f.item = frame[c].item
            /\ l = "processed" => f.item = frame[c].item + 1
<1>1. /\ frame[c] \in Frame /\ Fits(pc[c], frame[c])
      /\ frame[c].first \in Nat /\ frame[c].last \in Nat /\ frame[c].item \in Nat
      /\ Len(journal) \in Nat
  BY FrameFields
<1>2. CASE frame[c].item = frame[c].last
  <2>1. Moves(c, "setPosition", frame[c])
    BY <1>2, SameFrame DEF AfterItem
  <2>2. Fits("setPosition", frame[c])
    BY <1>1 DEF Fits, Working
  <2> QED BY <2>1, <2>2, <1>1, <1>2
<1>3. CASE frame[c].item # frame[c].last
  <2> DEFINE f == [frame[c] EXCEPT !.item = @ + 1]
  <2>1. /\ f \in Frame /\ f.values = frame[c].values /\ f.from = frame[c].from
        /\ f.first = frame[c].first /\ f.last = frame[c].last /\ f.item = frame[c].item + 1
    BY <1>1 DEF Frame
  <2>2. Moves(c, "processed", f)
    BY <1>3 DEF AfterItem, Moves, Goto, Shape, TypeOK
  <2> HIDE DEF f
  <2>3. Fits("processed", f)
    BY <1>1, <1>3, <2>1 DEF Fits, Working
  <2> QED BY <2>1, <2>2, <2>3
<1> QED BY <1>2, <1>3

(* A marked item is passed over: with one sync at a time it is one of the  *)
(* first k events, and an unmarked one is the next.                        *)
LEMMA ProcessedStep ==
  ASSUME Shape, NEW c \in Callers, Processed(c)
  PROVE  Kept
<1>1. /\ pc[c] = "processed" /\ UNCHANGED <<journal, docs, marks, indexPos, queuePos, retry>>
      /\ Fits("processed", frame[c])
      /\ frame[c].first \in Nat /\ frame[c].last \in Nat /\ frame[c].item \in Nat
      /\ retry' \in {"none", "later", "blocked"}
  <2>1. pc[c] = "processed" /\ UNCHANGED <<journal, docs, marks, indexPos, queuePos, retry>>
    BY DEF Processed, index, queue
  <2> QED BY <2>1, FrameFields DEF Shape, TypeOK
<1>2. CASE IsProcessed(frame[c].item)
  <2>1. AfterItem(c)
    BY <1>2 DEF Processed
  <2>2. PICK l \in {"setPosition", "processed"}, f \in Frame :
            /\ Moves(c, l, f) /\ Fits(l, f)
            /\ f.values = frame[c].values /\ f.from = frame[c].from
            /\ f.first = frame[c].first /\ f.last = frame[c].last
            /\ l = "setPosition" => frame[c].item = frame[c].last /\ f.item = frame[c].item
            /\ l = "processed" => f.item = frame[c].item + 1
    BY <1>1, <2>1, AfterItemMoves DEF Working
  <2>3. l \in Pcs
    BY DEF Pcs
  <2>4. pc'[c] = l /\ frame'[c] = f
    BY <2>2 DEF Moves, Shape, TypeOK
  <2>5. ASSUME Lossless
        PROVE  CallerApplied(c)'
    <3>1. frame[c].first .. (frame[c].item - 1) \subseteq marks /\ frame[c].item \in marks
      BY <1>1, <1>2, <2>5 DEF Lossless, CallerApplied, IsProcessed
    <3>2. frame[c].first .. frame[c].item \subseteq marks
      BY <3>1, <1>1
    <3>3. CASE l = "setPosition"
      <4>1. f.first .. f.last \subseteq marks
        BY <3>2, <3>3, <2>2
      <4> QED BY <4>1, <3>3, <2>4, <1>1 DEF CallerApplied
    <3>4. CASE l = "processed"
      <4>1. f.first .. (f.item - 1) \subseteq marks
        BY <3>2, <3>4, <2>2, <1>1
      <4> QED BY <4>1, <3>4, <2>4, <1>1 DEF CallerApplied
    <3> QED BY <3>3, <3>4
  <2>6. ASSUME Inductive, NEW k \in 0 .. Len(journal), AppliedTo(k)
        PROVE  CallerAt(c, k)'
    <3>1. frame[c].from = queuePos /\ frame[c].first = queuePos + 1
      BY <1>1, <2>6 DEF AppliedTo, CallerAt, Working
    <3>2. frame[c].item <= k
      BY <1>1, <1>2, <2>6 DEF AppliedTo, IsProcessed
    <3>3. CASE l = "setPosition"
      BY <3>1, <3>2, <3>3, <2>2, <2>4, <1>1 DEF CallerAt, Working
    <3>4. CASE l = "processed"
      <4>1. f.item <= k + 1
        BY <3>2, <3>4, <2>2, <1>1
      <4> QED BY <4>1, <3>1, <3>4, <2>2, <2>4, <1>1 DEF CallerAt, Working
    <3> QED BY <3>3, <3>4
  <2>7. Inductive => \A m \in Memories : ~ About(m, Len(journal)) => f.values[m] = 0
    BY <2>2, SameValues
  <2> QED BY <1>1, <2>2, <2>3, <2>5, <2>6, <2>7, QuietKeeps
<1>3. CASE ~ IsProcessed(frame[c].item)
  <2> DEFINE f == frame[c]
  <2>1. Moves(c, "apply", f) /\ "apply" \in Pcs
    BY <1>1, <1>3, SameFrame DEF Processed, Pcs
  <2>2. f \in Frame /\ Fits("apply", f)
    BY <1>1, FrameFields DEF Fits, Working
  <2>3. pc'[c] = "apply" /\ frame'[c] = f
    BY <2>1 DEF Moves, Shape, TypeOK
  <2>4. Lossless => CallerApplied(c)'
    BY <1>1, <2>3 DEF Lossless, CallerApplied
  <2>5. ASSUME Inductive, NEW k \in 0 .. Len(journal), AppliedTo(k)
        PROVE  CallerAt(c, k)'
    <3>1. f.from = queuePos /\ f.first = queuePos + 1 /\ f.item <= k + 1
      BY <1>1, <2>5 DEF AppliedTo, CallerAt, Working
    <3>2. f.item \notin 1 .. k
      BY <1>3, <2>5 DEF AppliedTo, IsProcessed
    <3>3. f.item = k + 1
      BY <3>1, <3>2, <1>1 DEF Fits, Working
    <3> QED BY <3>1, <3>3, <2>3, <1>1 DEF CallerAt, Working
  <2>6. Inductive => \A m \in Memories : ~ About(m, Len(journal)) => f.values[m] = 0
    BY SameValues
  <2> HIDE DEF f
  <2> QED BY <1>1, <2>1, <2>2, <2>4, <2>5, <2>6, QuietKeeps
<1> QED BY <1>2, <1>3

(* Applying an item marks it; with one sync at a time it is the next event, *)
(* and the index then shows one event more.                                *)
LEMMA ApplyStep ==
  ASSUME Shape, NEW c \in Callers, Apply(c)
  PROVE  Kept
<1>1. PICK s \in Nat : s = frame[c].item
  BY FrameFields
<1>2. PICK e : e = journal[s]
  OBVIOUS
<1>3. /\ pc[c] = "apply" /\ UNCHANGED <<journal, indexPos, queuePos, retry>>
      /\ docs' = [docs EXCEPT ![e.mem] = DocumentAfter(e, s)]
      /\ marks' = marks \cup {s}
      /\ AfterItem(c)
  BY <1>1, <1>2 DEF Apply, queue
<1>4. /\ Fits("apply", frame[c])
      /\ frame[c].first \in Nat /\ frame[c].last \in Nat /\ frame[c].item \in Nat
      /\ Len(journal) \in Nat /\ journal \in Seq(Event)
  BY <1>3, FrameFields DEF Shape, TypeOK
<1>5. s \in 1 .. Len(journal)
  BY <1>1, <1>4 DEF Fits, Working
<1>6. e \in Event
  BY <1>2, <1>4, <1>5
<1>7. e.mem \in Memories /\ DocumentAfter(e, s) \in 0 .. Len(journal)
  BY <1>5, <1>6, <1>4 DEF Event, DocumentAfter
<1>8. PlacesTyped
  BY <1>3, <1>5, <1>7 DEF PlacesTyped, Shape, TypeOK
<1>9. PICK l \in {"setPosition", "processed"}, f \in Frame :
            /\ Moves(c, l, f) /\ Fits(l, f)
            /\ f.values = frame[c].values /\ f.from = frame[c].from
            /\ f.first = frame[c].first /\ f.last = frame[c].last
            /\ l = "setPosition" => frame[c].item = frame[c].last /\ f.item = frame[c].item
            /\ l = "processed" => f.item = frame[c].item + 1
  BY <1>3, AfterItemMoves DEF Working
<1>10. l \in Pcs
  BY DEF Pcs
<1>11. /\ pc'[c] = l /\ frame'[c] = f
       /\ \A d \in Callers \ {c} : frame'[d] = frame[d]
  BY <1>8, <1>9, <1>10, MovesShape
<1>12. ASSUME Lossless
       PROVE  AcknowledgedIsApplied' /\ CallerApplied(c)'
  <2>1. AcknowledgedIsApplied'
    BY <1>3, <1>12 DEF Lossless, AcknowledgedIsApplied
  <2>2. frame[c].first .. (s - 1) \subseteq marks
    BY <1>1, <1>3, <1>12 DEF Lossless, CallerApplied
  <2>3. frame[c].first .. s \subseteq marks'
    BY <2>2, <1>1, <1>3, <1>4
  <2>4. CASE l = "setPosition"
    <3>1. f.first .. f.last \subseteq marks'
      BY <2>3, <2>4, <1>1, <1>9
    <3> QED BY <3>1, <2>1, <2>4, <1>11 DEF CallerApplied
  <2>5. CASE l = "processed"
    <3>1. f.first .. (f.item - 1) \subseteq marks'
      BY <2>3, <2>5, <1>1, <1>9
    <3> QED BY <3>1, <2>1, <2>5, <1>11 DEF CallerApplied
  <2> QED BY <2>4, <2>5
<1>13. ASSUME Inductive
       PROVE  /\ queuePos' <= indexPos' /\ NothingInvented'
              /\ \E k \in 0 .. Len(journal) :
                    marks' = 1 .. k /\ queuePos' <= k /\ DocsAt(k)' /\ CallerAt(c, k)'
  <2>1. queuePos' <= indexPos'
    BY <1>3, <1>13 DEF Inductive
  <2>2. PICK k \in 0 .. Len(journal) : AppliedTo(k)
    BY <1>13 DEF Inductive
  <2>3. s = k + 1 /\ frame[c].from = queuePos /\ frame[c].first = queuePos + 1
    BY <2>2, <1>1, <1>3 DEF AppliedTo, CallerAt, Working
  <2>4. k \in Nat /\ s \in 0 .. Len(journal)
    BY <2>3, <1>5
  <2>5. \A m \in Memories : docs'[m] = IF m = e.mem THEN DocumentAfter(e, s) ELSE docs[m]
    BY <1>3, <1>7 DEF Shape, TypeOK
  <2>6. NothingInvented'
    <3>1. SUFFICES ASSUME NEW m \in Memories, ~ About(m, Len(journal))'
                   PROVE  docs'[m] = 0 /\ \A d \in Callers : frame'[d].values[m] = 0
      BY DEF NothingInvented
    <3>2. ~ About(m, Len(journal))
      BY <3>1, <1>3 DEF About
    <3>3. m # e.mem
      BY <3>2, <1>2, <1>5 DEF About
    <3> QED BY <3>2, <3>3, <2>5, <1>9, <1>11, <1>13 DEF Inductive, NothingInvented
  <2>7. marks' = 1 .. s
    <3>1. marks' = 1 .. k \cup {k + 1}
      BY <2>2, <2>3, <1>3 DEF AppliedTo
    <3> QED BY <3>1, <2>3, <2>4
  <2>8. queuePos' <= s
    <3>1. queuePos <= k /\ queuePos \in Nat
      BY <2>2 DEF AppliedTo, Shape, TypeOK
    <3> QED BY <3>1, <2>3, <2>4, <1>3
  <2>9. DocsAt(s)'
    <3>1. SUFFICES ASSUME NEW m \in Memories, About(m, s)
                   PROVE  docs'[m] = Canonical(m, s)
      BY <1>3, SameJournal DEF DocsAt
    <3>2. CASE m = e.mem
      <4>1. Canonical(m, s) = DocumentAfter(e, s)
        BY <3>2, <2>3, <2>4, <1>2, CanonicalNext
      <4> QED BY <4>1, <3>2, <2>5
    <3>3. CASE m # e.mem
      <4>1. Canonical(m, s) = Canonical(m, k) /\ About(m, k)
        BY <3>1, <3>3, <2>3, <2>4, <1>2, CanonicalNext
      <4>2. docs[m] = Canonical(m, k)
        BY <4>1, <2>2 DEF AppliedTo
      <4> QED BY <4>1, <4>2, <3>3, <2>5
    <3> QED BY <3>2, <3>3
  <2>10. CallerAt(c, s)'
    <3>1. CASE l = "setPosition"
      BY <3>1, <2>3, <1>1, <1>3, <1>9, <1>11 DEF CallerAt, Working
    <3>2. CASE l = "processed"
      BY <3>2, <2>3, <1>1, <1>3, <1>9, <1>11 DEF CallerAt, Working
    <3> QED BY <3>1, <3>2
  <2> QED BY <2>1, <2>4, <2>6, <2>7, <2>8, <2>9, <2>10
<1>14. /\ marks \subseteq marks' /\ queuePos' = queuePos /\ pc[c] # "idle"
  BY <1>3
<1> QED BY <1>8, <1>9, <1>10, <1>12, <1>13, <1>14, MovesKeep

(* A step that moves positions and leaves the documents and markers. *)
LEMMA PositionsKeep ==
  ASSUME Shape, NEW c \in Callers, NEW l \in Pcs, NEW f \in Frame, Moves(c, l, f), Fits(l, f),
         UNCHANGED <<docs, marks>>, PlacesTyped, pc[c] # "idle", f.values = frame[c].values,
         Lossless /\ RebuildsAlone => AcknowledgedIsApplied' /\ CallerApplied(c)',
         Inductive => queuePos' <= indexPos',
         Inductive => \A k \in 0 .. Len(journal) :
                         AppliedTo(k) => queuePos' <= k /\ CallerAt(c, k)'
  PROVE  Kept
<1>1. /\ frame'[c] = f /\ journal' = journal
      /\ \A d \in Callers \ {c} : frame'[d] = frame[d]
  BY MovesShape DEF Moves
<1>2. ASSUME Inductive
      PROVE  /\ queuePos' <= indexPos' /\ NothingInvented'
             /\ \E k \in 0 .. Len(journal) :
                   marks' = 1 .. k /\ queuePos' <= k /\ DocsAt(k)' /\ CallerAt(c, k)'
  <2>1. NothingInvented'
    <3>1. SUFFICES ASSUME NEW m \in Memories, ~ About(m, Len(journal))'
                   PROVE  docs'[m] = 0 /\ \A d \in Callers : frame'[d].values[m] = 0
      BY DEF NothingInvented
    <3>2. ~ About(m, Len(journal))
      BY <3>1, <1>1 DEF About
    <3> QED BY <3>2, <1>1, <1>2 DEF Inductive, NothingInvented
  <2>2. PICK k \in 0 .. Len(journal) : AppliedTo(k)
    BY <1>2 DEF Inductive
  <2>3. DocsAt(k)'
    BY <2>2, <1>1, SameJournal DEF DocsAt, AppliedTo
  <2>4. marks' = 1 .. k
    BY <2>2 DEF AppliedTo
  <2> QED BY <1>2, <2>1, <2>2, <2>3, <2>4
<1>3. marks \subseteq marks'
  OBVIOUS
<1> QED BY <1>2, <1>3, MovesKeep

LEMMA SetPositionStep ==
  ASSUME Shape, NEW c \in Callers, SetPosition(c)
  PROVE  Kept
<1> DEFINE f == frame[c]
<1>1. /\ pc[c] = "setPosition" /\ UNCHANGED <<journal, docs, marks, queuePos, retry, frame>>
      /\ indexPos' = f.last
  BY DEF SetPosition, queue
<1>2. /\ f \in Frame /\ Fits("setPosition", f) /\ Len(journal) \in Nat
      /\ f.first \in Nat /\ f.last \in Nat /\ f.item \in Nat /\ queuePos \in Nat
  BY <1>1, FrameFields DEF Shape, TypeOK
<1>3. Moves(c, "acknowledge", f) /\ "acknowledge" \in Pcs
  BY <1>1, SameFrame DEF SetPosition, Pcs
<1>4. Fits("acknowledge", f)
  BY <1>2 DEF Fits, Working
<1>5. f.last \in f.first .. Len(journal)
  BY <1>2 DEF Fits, Working
<1>6. PlacesTyped
  BY <1>1, <1>2, <1>5 DEF PlacesTyped, Shape, TypeOK
<1>7. pc'[c] = "acknowledge" /\ frame'[c] = f
  BY <1>3 DEF Moves, Shape, TypeOK
<1>8. Lossless => AcknowledgedIsApplied' /\ CallerApplied(c)'
  BY <1>1, <1>7 DEF Lossless, AcknowledgedIsApplied, CallerApplied
<1>9. ASSUME Inductive, NEW k \in 0 .. Len(journal), AppliedTo(k)
      PROVE  queuePos' <= k /\ CallerAt(c, k)' /\ queuePos' <= indexPos'
  <2>1. f.from = queuePos /\ f.first = queuePos + 1 /\ f.last <= k /\ queuePos <= k
    BY <1>1, <1>9 DEF AppliedTo, CallerAt, Working
  <2>2. CallerAt(c, k)'
    BY <2>1, <1>1, <1>7 DEF CallerAt, Working
  <2> QED BY <2>1, <2>2, <1>1, <1>2, <1>5
<1>10. Inductive => queuePos' <= indexPos'
  BY <1>9 DEF Inductive
<1> HIDE DEF f
<1> QED BY <1>1, <1>2, <1>3, <1>4, <1>6, <1>8, <1>9, <1>10, PositionsKeep DEF f

(* A step to idle or to a failure claims nothing of the places. *)
LEMMA NothingClaimed ==
  ASSUME NEW c \in Callers, pc'[c] \in {"idle", "failed", "unverified", "clear", "positions", "reset"}
  PROVE  CallerApplied(c)' /\ \A k : CallerAt(c, k)'
BY DEF CallerApplied, CallerAt, Working

(* The batch that starts where the queue stands is acknowledged: it is     *)
(* marked to its last event.                                               *)
LEMMA AcknowledgeStep ==
  ASSUME Shape, NEW c \in Callers, Acknowledge(c)
  PROVE  Kept
<1>1. PICK g \in Frame : g = frame[c]
  BY FrameFields
<1>2. /\ pc[c] = "acknowledge" /\ UNCHANGED <<journal, docs, marks, indexPos, retry>>
  BY DEF Acknowledge, index
<1>3. /\ Fits("acknowledge", g) /\ Len(journal) \in Nat
      /\ g.from \in Nat /\ g.first \in Nat /\ g.last \in Nat /\ g.item \in Nat
      /\ queuePos \in Nat /\ indexPos \in Nat
  BY <1>1, <1>2, FrameFields DEF Shape, TypeOK
<1>4. g.last \in g.first .. Len(journal) /\ g.first > 0
  BY <1>3 DEF Fits, Working
<1>5. CASE queuePos = g.from /\ g.first = g.from + 1
  <2> DEFINE f == [g EXCEPT !.from = g.last]
             l == IF g.last - g.first + 1 < Limit THEN "clear" ELSE "pending"
  <2>1. /\ f \in Frame /\ f.values = g.values /\ f.from = g.last
    BY <1>3 DEF Frame
  <2>2. l \in Pcs /\ l \in {"clear", "pending"}
    BY DEF Pcs
  <2>3. queuePos' = g.last /\ frame' = [frame EXCEPT ![c].from = g.last] /\ Goto(c, l)
    BY <1>1, <1>5 DEF Acknowledge
  <2>4. Moves(c, l, f)
    BY <2>3, <1>1, <1>2 DEF Moves, Goto, Shape, TypeOK
  <2> HIDE DEF f, l
  <2>5. Fits(l, f)
    BY <2>1, <2>2, <1>1, FrameFields DEF Fits, Working
  <2>6. PlacesTyped
    BY <1>2, <1>3, <1>4, <2>3 DEF PlacesTyped, Shape, TypeOK
  <2>7. pc'[c] = l /\ frame'[c] = f
    BY <2>4 DEF Moves, Shape, TypeOK
  <2>8. ASSUME Lossless
        PROVE  AcknowledgedIsApplied' /\ CallerApplied(c)'
    <3>1. 1 .. queuePos \subseteq marks /\ g.first .. g.last \subseteq marks
      BY <1>1, <1>2, <2>8 DEF Lossless, AcknowledgedIsApplied, CallerApplied
    <3>2. \A x \in 1 .. g.last : x \in 1 .. queuePos \/ x \in g.first .. g.last
      BY <1>3, <1>5
    <3>3. 1 .. g.last \subseteq marks
      BY <3>1, <3>2
    <3>4. AcknowledgedIsApplied'
      BY <3>3, <2>3, <1>2 DEF AcknowledgedIsApplied
    <3>5. CallerApplied(c)'
      BY <2>2, <2>7 DEF CallerApplied
    <3> QED BY <3>4, <3>5
  <2>9. ASSUME Inductive, NEW k \in 0 .. Len(journal), AppliedTo(k)
        PROVE  queuePos' <= k /\ CallerAt(c, k)' /\ queuePos' <= indexPos'
    <3>1. g.last <= k /\ indexPos = g.last
      BY <1>1, <1>2, <2>9 DEF AppliedTo, CallerAt
    <3>2. CallerAt(c, k)'
      BY <2>1, <2>2, <2>3, <2>7 DEF CallerAt, Working
    <3> QED BY <3>1, <3>2, <2>3, <1>2, <1>3
  <2>10. Inductive => queuePos' <= indexPos'
    BY <2>9 DEF Inductive
  <2> QED BY <1>1, <1>2, <2>1, <2>2, <2>4, <2>5, <2>6, <2>8, <2>9, <2>10, PositionsKeep
<1>6. CASE ~ (queuePos = g.from /\ g.first = g.from + 1)
  <2>1. UNCHANGED <<queuePos, frame>> /\ Goto(c, "failed") /\ "failed" \in Pcs
    BY <1>1, <1>6 DEF Acknowledge, Pcs
  <2>2. Moves(c, "failed", g)
    BY <2>1, <1>1, <1>2, SameFrame
  <2>3. Fits("failed", g)
    BY <1>3 DEF Fits, Working
  <2>4. pc'[c] = "failed" /\ retry' \in {"none", "later", "blocked"}
    BY <2>2, <1>2 DEF Moves, Shape, TypeOK
  <2>5. CallerApplied(c)' /\ \A k : CallerAt(c, k)'
    BY <2>4, NothingClaimed
  <2>6. Inductive => \A m \in Memories : ~ About(m, Len(journal)) => g.values[m] = 0
    BY <1>1, SameValues
  <2> QED BY <1>2, <2>1, <2>2, <2>3, <2>4, <2>5, <2>6, QuietKeeps
<1> QED BY <1>5, <1>6

(* The end of a call. *)
LEMMA ReturnKeeps ==
  ASSUME Shape, NEW c \in Callers, Return(c), pc[c] # "idle",
         UNCHANGED <<journal, docs, marks, indexPos, queuePos>>,
         retry' \in {"none", "later", "blocked"}
  PROVE  Kept
<1>1. NoFrame \in Frame /\ Fits("idle", NoFrame) /\ NoFrame.values = NoValues
  BY NoFrameType DEF Shape, TypeOK
<1>2. Moves(c, "idle", NoFrame) /\ "idle" \in Pcs
  BY DEF Return, Goto, Moves, Pcs
<1>3. pc'[c] = "idle"
  BY <1>2 DEF Moves, Shape, TypeOK
<1>4. CallerApplied(c)' /\ \A k : CallerAt(c, k)'
  BY <1>3, NothingClaimed
<1>5. \A m \in Memories : NoFrame.values[m] = 0
  BY <1>1 DEF NoValues
<1> QED BY <1>1, <1>2, <1>4, <1>5, QuietKeeps

LEMMA ClearStep ==
  ASSUME Shape, NEW c \in Callers, Clear(c)
  PROVE  Kept
BY ReturnKeeps DEF Clear, index

LEMMA FailedStep ==
  ASSUME Shape, NEW c \in Callers, Failed(c)
  PROVE  Kept
<1>1. retry' \in {"none", "later", "blocked"}
  BY DEF Failed, Shape, TypeOK
<1> QED BY <1>1, ReturnKeeps DEF Failed, index

LEMMA FaultStep ==
  ASSUME Shape, NEW c \in Callers, Fault(c)
  PROVE  Kept
<1> DEFINE f == frame[c]
<1>0. PICK l \in {"failed", "unverified"} : Goto(c, l)
  BY DEF Fault
<1>1. /\ pc[c] # "idle"
      /\ UNCHANGED <<journal, docs, marks, indexPos, queuePos, retry, frame>>
      /\ Goto(c, l) /\ l \in Pcs
  BY <1>0 DEF Fault, index, queue, Pcs
<1>2. Moves(c, l, f)
  BY <1>1, SameFrame
<1>3. f \in Frame /\ Fits(l, f)
  BY FrameFields DEF Fits, Working
<1>4. pc'[c] = l /\ retry' \in {"none", "later", "blocked"}
  BY <1>1, <1>2 DEF Moves, Shape, TypeOK
<1>5. CallerApplied(c)' /\ \A k : CallerAt(c, k)'
  BY <1>4, NothingClaimed
<1>6. Inductive => \A m \in Memories : ~ About(m, Len(journal)) => f.values[m] = 0
  BY SameValues
<1> HIDE DEF f
<1> QED BY <1>1, <1>2, <1>3, <1>4, <1>5, <1>6, QuietKeeps

-----------------------------------------------------------------------------
(* The listing names events of the journal, and no document for a memory   *)
(* no event is about.                                                      *)
LEMMA StartRebuildStep ==
  ASSUME Shape, NEW c \in Callers, StartRebuild(c)
  PROVE  Kept
<1> DEFINE v == [m \in Memories |-> Canonical(m, Len(journal))]
           f == [NoFrame EXCEPT !.rebuild = TRUE, !.values = v]
<1>1. /\ pc[c] = "idle" /\ UNCHANGED <<journal, docs, marks, indexPos, queuePos, retry>>
      /\ frame' = [frame EXCEPT ![c] = f] /\ Goto(c, "reset") /\ "reset" \in Pcs
  BY DEF StartRebuild, index, queue, Pcs
<1>2. Len(journal) \in Nat
  BY DEF Shape, TypeOK
<1>3. \A m \in Memories : v[m] = Canonical(m, Len(journal)) /\ v[m] \in 0 .. Len(journal)
  <2>1. ASSUME NEW m \in Memories
        PROVE  Canonical(m, Len(journal)) \in 0 .. Len(journal)
    BY <1>2, CanonicalRange DEF Shape
  <2> QED BY <2>1
<1>4. v \in [Memories -> Nat]
  BY <1>3
<1> HIDE DEF v
<1>5. f \in Frame /\ f.values = v
  <2>1. NoFrame \in Frame
    BY <1>2, NoFrameType
  <2> QED BY <2>1, <1>4 DEF Frame
<1>6. Moves(c, "reset", f)
  BY <1>1 DEF Moves, Goto
<1> HIDE DEF f
<1>7. Fits("reset", f)
  BY <1>3, <1>5 DEF Fits, Working
<1>8. pc'[c] = "reset" /\ retry' \in {"none", "later", "blocked"}
  BY <1>1, <1>6 DEF Moves, Shape, TypeOK
<1>9. CallerApplied(c)' /\ \A k : CallerAt(c, k)'
  BY <1>8, NothingClaimed
<1>10. \A m \in Memories : ~ About(m, Len(journal)) => f.values[m] = 0
  BY <1>3, <1>5, CanonicalNone
<1> QED BY <1>1, <1>5, <1>6, <1>7, <1>8, <1>9, <1>10, QuietKeeps

(* A queue at zero has acknowledged nothing. *)
LEMMA ZeroQueue ==
  ASSUME queuePos' = 0
  PROVE  AcknowledgedIsApplied'
BY DEF AcknowledgedIsApplied

LEMMA ResetStep ==
  ASSUME Shape, NEW c \in Callers, Reset(c)
  PROVE  Kept
<1> DEFINE f == frame[c]
<1>1. /\ pc[c] = "reset" /\ UNCHANGED <<journal, docs, marks, indexPos, retry, frame>>
      /\ queuePos' = 0 /\ Goto(c, "resetRetry") /\ "resetRetry" \in Pcs
  BY DEF Reset, index, Pcs
<1>2. Moves(c, "resetRetry", f)
  BY <1>1, SameFrame
<1>3. f \in Frame /\ Fits("resetRetry", f) /\ Len(journal) \in Nat
  BY FrameFields DEF Fits, Working
<1>4. PlacesTyped
  BY <1>1, <1>3 DEF PlacesTyped, Shape, TypeOK
<1>5. pc'[c] = "resetRetry"
  BY <1>2 DEF Moves, Shape, TypeOK
<1>6. AcknowledgedIsApplied' /\ CallerApplied(c)' /\ \A k : CallerAt(c, k)'
  BY <1>1, <1>5, ZeroQueue DEF CallerApplied, CallerAt, Working
<1>7. queuePos' <= indexPos' /\ \A k \in 0 .. Len(journal) : queuePos' <= k
  BY <1>1, <1>3 DEF Shape, TypeOK
<1> HIDE DEF f
<1> QED BY <1>1, <1>2, <1>3, <1>4, <1>6, <1>7, PositionsKeep DEF f

LEMMA ResetRetryStep ==
  ASSUME Shape, NEW c \in Callers, ResetRetry(c)
  PROVE  Kept
<1> DEFINE f == frame[c]
<1>1. /\ pc[c] = "resetRetry" /\ UNCHANGED <<journal, docs, marks, indexPos, queuePos, frame>>
      /\ retry' = "none" /\ Goto(c, "setZero") /\ "setZero" \in Pcs
  BY DEF ResetRetry, index, Pcs
<1>2. Moves(c, "setZero", f)
  BY <1>1, SameFrame
<1>3. f \in Frame /\ Fits("setZero", f)
  BY FrameFields DEF Fits, Working
<1>4. pc'[c] = "setZero"
  BY <1>2 DEF Moves, Shape, TypeOK
<1>5. Lossless => CallerApplied(c)'
  BY <1>1, <1>4 DEF Lossless, CallerApplied
<1>6. \A k \in 0 .. Len(journal) : AppliedTo(k) => CallerAt(c, k)'
  BY <1>1, <1>4 DEF AppliedTo, CallerAt, Working
<1>7. Inductive => \A m \in Memories : ~ About(m, Len(journal)) => f.values[m] = 0
  BY SameValues
<1> HIDE DEF f
<1> QED BY <1>1, <1>2, <1>3, <1>5, <1>6, <1>7, QuietKeeps

(* The queue is at zero already when the index position goes to zero. *)
LEMMA SetZeroStep ==
  ASSUME Shape, NEW c \in Callers, SetZero(c)
  PROVE  Kept
<1> DEFINE f == frame[c]
<1>1. /\ pc[c] = "setZero" /\ UNCHANGED <<journal, docs, marks, queuePos, retry, frame>>
      /\ indexPos' = 0 /\ Goto(c, "rebuild") /\ "rebuild" \in Pcs
  BY DEF SetZero, queue, Pcs
<1>2. Moves(c, "rebuild", f)
  BY <1>1, SameFrame
<1>3. f \in Frame /\ Fits("rebuild", f) /\ Len(journal) \in Nat
  BY FrameFields DEF Fits, Working
<1>4. PlacesTyped
  BY <1>1, <1>3 DEF PlacesTyped, Shape, TypeOK
<1>5. pc'[c] = "rebuild"
  BY <1>2 DEF Moves, Shape, TypeOK
<1>6. Lossless => AcknowledgedIsApplied' /\ CallerApplied(c)'
  BY <1>1, <1>5 DEF Lossless, AcknowledgedIsApplied, CallerApplied
<1>7. ASSUME NEW k \in 0 .. Len(journal), AppliedTo(k)
      PROVE  queuePos' <= k /\ CallerAt(c, k)' /\ queuePos' <= indexPos'
  <2>1. queuePos = 0
    BY <1>1, <1>7 DEF AppliedTo, CallerAt
  <2>2. CallerAt(c, k)'
    BY <2>1, <1>1, <1>5 DEF CallerAt, Working
  <2> QED BY <2>1, <2>2, <1>1
<1>8. Inductive => queuePos' <= indexPos'
  BY <1>7 DEF Inductive
<1> HIDE DEF f
<1> QED BY <1>1, <1>2, <1>3, <1>4, <1>6, <1>7, <1>8, PositionsKeep DEF f

(* The replaced index has no markers: everything is replayed, over the     *)
(* documents listed.                                                       *)
LEMMA RebuildStep ==
  ASSUME Shape, NEW c \in Callers, Rebuild(c)
  PROVE  Kept
<1> DEFINE f == frame[c]
<1>1. /\ pc[c] = "rebuild" /\ UNCHANGED <<journal, queuePos, retry, frame>>
      /\ docs' = f.values /\ marks' = {} /\ indexPos' = 0
      /\ Goto(c, "positions") /\ "positions" \in Pcs
  BY DEF Rebuild, queue, Pcs
<1>2. Moves(c, "positions", f)
  BY <1>1, SameFrame
<1>3. /\ f \in Frame /\ Fits("positions", f) /\ Len(journal) \in Nat
      /\ f.values \in [Memories -> Nat]
  BY FrameFields DEF Fits, Working
<1>4. PlacesTyped
  <2>1. docs' \in [Memories -> 0 .. Len(journal)]
    BY <1>1, <1>3 DEF Fits
  <2> QED BY <2>1, <1>1, <1>3 DEF PlacesTyped, Shape, TypeOK
<1>5. pc'[c] = "positions"
  BY <1>2 DEF Moves, Shape, TypeOK
<1>6. CallerApplied(c)' /\ \A k : CallerAt(c, k)'
  BY <1>5, NothingClaimed
<1>7. Lossless => AcknowledgedIsApplied'
  <2>1. Lossless => queuePos' = 0
    BY <1>1 DEF Lossless, CallerApplied
  <2> QED BY <2>1, ZeroQueue
<1>8. ASSUME Inductive
      PROVE  /\ queuePos' <= indexPos' /\ NothingInvented'
             /\ \E k \in 0 .. Len(journal) :
                   marks' = 1 .. k /\ queuePos' <= k /\ DocsAt(k)' /\ CallerAt(c, k)'
  <2>1. PICK k \in 0 .. Len(journal) : AppliedTo(k)
    BY <1>8 DEF Inductive
  <2>2. queuePos' = 0
    BY <2>1, <1>1 DEF AppliedTo, CallerAt
  <2>3. NothingInvented'
    <3>1. SUFFICES ASSUME NEW m \in Memories, ~ About(m, Len(journal))'
                   PROVE  docs'[m] = 0 /\ \A d \in Callers : frame'[d].values[m] = 0
      BY DEF NothingInvented
    <3>2. ~ About(m, Len(journal))
      BY <3>1, <1>1 DEF About
    <3> QED BY <3>2, <1>1, <1>8 DEF Inductive, NothingInvented
  <2>4. marks' = 1 .. 0 /\ 0 \in 0 .. Len(journal)
    BY <1>1, <1>3
  <2>5. DocsAt(0)'
    BY DEF DocsAt, About
  <2>6. queuePos' <= 0 /\ queuePos' <= indexPos'
    BY <2>2, <1>1
  <2> QED BY <2>3, <2>4, <2>5, <2>6, <1>6
<1>9. queuePos' = queuePos
  BY <1>1
<1> HIDE DEF f
<1> QED BY <1>1, <1>2, <1>3, <1>4, <1>6, <1>7, <1>8, <1>9, MovesKeep

-----------------------------------------------------------------------------
(* A new event changes nothing that is claimed of the earlier ones. *)
LEMMA RecordStep ==
  ASSUME Shape, NEW m0 \in Memories, NEW put \in BOOLEAN, Record(m0, put)
  PROVE  Kept
<1>1. PICK e \in Event : e = [mem |-> m0, put |-> put]
  BY DEF Event
<1>2. /\ journal' = Append(journal, e)
      /\ UNCHANGED <<docs, marks, indexPos, queuePos, retry, pc, frame>>
  BY <1>1 DEF Record, index, queue
<1>3. /\ Len(journal) \in Nat /\ journal' \in Seq(Event) /\ Len(journal') = Len(journal) + 1
      /\ journal'[Len(journal) + 1] = e
      /\ \A i \in 1 .. Len(journal) : journal'[i] = journal[i]
  BY <1>2, JournalGrows DEF Shape
<1>4. PICK n \in Nat : n = Len(journal)
  BY <1>3
<1>5. Len(journal') = n + 1 /\ n + 1 \in Nat
  BY <1>3, <1>4
<1>6. ASSUME NEW m \in Memories, NEW k \in 0 .. n
      PROVE  /\ Canonical(m, k)' = Canonical(m, k)
             /\ LastAbout(m, k)' = LastAbout(m, k)
             /\ About(m, k)' <=> About(m, k)
  BY <1>2, <1>4, CanonicalKept DEF Shape
<1>7. TypeOK'
  <2>1. \A x \in 0 .. n : x \in 0 .. n + 1
    OBVIOUS
  <2>2. docs' \in [Memories -> 0 .. n + 1]
    BY <2>1, <1>2, <1>4 DEF Shape, TypeOK
  <2>3. marks' \subseteq 1 .. n + 1
    BY <1>2, <1>4 DEF Shape, TypeOK
  <2>4. indexPos' \in 0 .. n + 1 /\ queuePos' \in 0 .. n + 1
    BY <2>1, <1>2, <1>4 DEF Shape, TypeOK
  <2> QED BY <2>2, <2>3, <2>4, <1>2, <1>3, <1>5 DEF Shape, TypeOK
<1>8. LastInRange'
  <2>1. SUFFICES ASSUME NEW m \in Memories, NEW k \in 0 .. n + 1
                 PROVE  LastAbout(m, k)' \in 0 .. k
    BY <1>5 DEF LastInRange
  <2>2. CASE k \in 0 .. n
    <3>1. LastAbout(m, k) \in 0 .. k
      BY <2>2, <1>4 DEF Shape, LastInRange
    <3> QED BY <3>1, <2>2, <1>6
  <2>3. CASE k = n + 1
    <3>1. PICK j : j = journal'
      OBVIOUS
    <3>2. LastAbout(m, k)' = n + 1 \/ LastAbout(m, k)' = LastAbout(m, n)'
      <4>1. LastOf(j, m, n + 1) = n + 1 \/ LastOf(j, m, n + 1) = LastOf(j, m, n)
        BY LastOfAny
      <4> QED BY <4>1, <3>1, <2>3 DEF LastAbout
    <3>3. LastAbout(m, n)' = LastAbout(m, n) /\ LastAbout(m, n) \in 0 .. n
      BY <1>4, <1>6 DEF Shape, LastInRange
    <3> QED BY <3>2, <3>3, <2>3
  <2> QED BY <2>2, <2>3
<1>9. ValuesInRange' /\ BatchesInRange'
  <2>1. ValuesInRange'
    <3>1. \A c \in Callers : \A m \in Memories : frame[c].values[m] \in 0 .. n
      BY <1>4 DEF Shape, ValuesInRange
    <3>2. \A x \in 0 .. n : x \in 0 .. n + 1
      OBVIOUS
    <3> QED BY <3>1, <3>2, <1>2, <1>5 DEF ValuesInRange
  <2>2. BatchesInRange'
    <3>1. SUFFICES ASSUME NEW c \in Callers, pc[c] \in Working
                   PROVE  Batch(c)'
      BY <1>2 DEF BatchesInRange
    <3>2. Batch(c)
      BY <3>1 DEF Shape, BatchesInRange
    <3>3. frame[c].last \in frame[c].first .. n + 1
      BY <3>2, <1>4 DEF Batch
    <3> QED BY <3>2, <3>3, <1>2, <1>5 DEF Batch
  <2> QED BY <2>1, <2>2
<1>10. Shape'
  BY <1>7, <1>8, <1>9 DEF Shape
<1>11. Lossless => Lossless'
  BY <1>2, <1>10 DEF Lossless, AcknowledgedIsApplied, CallerApplied
<1>12. ASSUME Inductive
       PROVE  Inductive'
  <2>1. PICK k \in 0 .. n : AppliedTo(k)
    BY <1>4, <1>12 DEF Inductive
  <2>2. AppliedTo(k)'
    <3>1. ASSUME NEW c \in Callers
          PROVE  CallerAt(c, k)'
      BY <2>1, <1>2 DEF AppliedTo, CallerAt
    <3>2. \A m \in Memories : About(m, k)' => docs'[m] = Canonical(m, k)'
      BY <2>1, <1>2, <1>6 DEF AppliedTo
    <3> QED BY <3>1, <3>2, <2>1, <1>2 DEF AppliedTo
  <2>3. NothingInvented'
    <3>1. SUFFICES ASSUME NEW m \in Memories, ~ About(m, Len(journal))'
                   PROVE  docs'[m] = 0 /\ \A d \in Callers : frame'[d].values[m] = 0
      BY DEF NothingInvented
    <3>2. ~ About(m, Len(journal))
      BY <3>1, <1>3 DEF About
    <3> QED BY <3>2, <1>2, <1>12 DEF Inductive, NothingInvented
  <2>4. queuePos' <= indexPos' /\ k \in 0 .. Len(journal')
    BY <1>2, <1>5, <1>12 DEF Inductive
  <2> QED BY <2>2, <2>3, <2>4, <1>10 DEF Inductive
<1> QED BY <1>10, <1>11, <1>12 DEF Kept

(* A crash forgets every call and leaves the durable places. *)
LEMMA CrashStep ==
  ASSUME Shape, Crash
  PROVE  Kept
<1>1. /\ UNCHANGED <<journal, docs, marks, indexPos, queuePos, retry>>
      /\ pc' = [c \in Callers |-> "idle"] /\ frame' = [c \in Callers |-> NoFrame]
  BY DEF Crash, index, queue
<1>2. NoFrame \in Frame /\ Fits("idle", NoFrame) /\ NoFrame.values = NoValues
  BY NoFrameType DEF Shape, TypeOK
<1>3. \A c \in Callers : pc'[c] = "idle" /\ frame'[c] = NoFrame
  BY <1>1
<1>4. TypeOK'
  BY <1>1, <1>2 DEF Shape, TypeOK, Pcs
<1>5. LastInRange'
  BY <1>1, SameJournal DEF Shape
<1>6. ValuesInRange' /\ BatchesInRange'
  BY <1>1, <1>2, <1>3 DEF ValuesInRange, BatchesInRange, Fits, Working
<1>7. Shape'
  BY <1>4, <1>5, <1>6 DEF Shape
<1>8. \A c \in Callers : CallerApplied(c)' /\ \A k : CallerAt(c, k)'
  BY <1>3, NothingClaimed
<1>9. Lossless => Lossless'
  BY <1>1, <1>7, <1>8 DEF Lossless, AcknowledgedIsApplied
<1>10. ASSUME Inductive
       PROVE  Inductive'
  <2>1. PICK k \in 0 .. Len(journal) : AppliedTo(k)
    BY <1>10 DEF Inductive
  <2>2. AppliedTo(k)'
    BY <2>1, <1>1, <1>8, SameJournal DEF AppliedTo
  <2>3. NothingInvented'
    <3>1. SUFFICES ASSUME NEW m \in Memories, ~ About(m, Len(journal))'
                   PROVE  docs'[m] = 0 /\ \A d \in Callers : frame'[d].values[m] = 0
      BY DEF NothingInvented
    <3>2. ~ About(m, Len(journal))
      BY <3>1, <1>1 DEF About
    <3> QED BY <3>2, <1>1, <1>2, <1>3, <1>10 DEF Inductive, NothingInvented, NoValues
  <2> QED BY <2>2, <2>3, <1>1, <1>7, <1>10 DEF Inductive
<1> QED BY <1>7, <1>9, <1>10 DEF Kept

LEMMA StutterStep ==
  ASSUME Shape, UNCHANGED vars
  PROVE  Kept
<1>1. UNCHANGED <<journal, docs, marks, indexPos, queuePos, retry, pc, frame>>
  BY DEF vars
<1>2. Shape'
  <2>1. LastInRange'
    BY <1>1, SameJournal DEF Shape
  <2> QED BY <2>1, <1>1 DEF Shape, TypeOK, ValuesInRange, BatchesInRange, Batch
<1>3. Lossless => Lossless'
  BY <1>1, <1>2 DEF Lossless, AcknowledgedIsApplied, CallerApplied
<1>4. ASSUME Inductive
      PROVE  Inductive'
  <2>1. PICK k \in 0 .. Len(journal) : AppliedTo(k)
    BY <1>4 DEF Inductive
  <2>2. \A c \in Callers : CallerAt(c, k)'
    BY <2>1, <1>1 DEF AppliedTo, CallerAt
  <2>3. AppliedTo(k)'
    BY <2>1, <2>2, <1>1, SameJournal DEF AppliedTo
  <2>4. NothingInvented'
    BY <1>1, <1>4 DEF Inductive, NothingInvented, About
  <2> QED BY <2>3, <2>4, <1>1, <1>2, <1>4 DEF Inductive
<1> QED BY <1>2, <1>3, <1>4 DEF Kept

LEMMA NextKeeps == Shape /\ [Next]_vars => Kept
<1> SUFFICES ASSUME Shape, [Next]_vars PROVE Kept
  OBVIOUS
<1>1. ASSUME NEW m \in Memories, NEW put \in BOOLEAN, Record(m, put)
      PROVE  Kept
  BY <1>1, RecordStep
<1>2. ASSUME NEW c \in Callers, StartSync(c) \/ StartRebuild(c) \/ SyncStep(c) \/ Fault(c)
      PROVE  Kept
  <2>1. CASE SyncStep(c)
    BY <2>1, PositionsStep, CompareStep, PendingStep, ProcessedStep, ApplyStep, SetPositionStep,
       AcknowledgeStep, ClearStep, FailedStep, ResetStep, ResetRetryStep, SetZeroStep,
       RebuildStep DEF SyncStep
  <2> QED BY <2>1, <1>2, StartSyncStep, StartRebuildStep, FaultStep
<1>3. CASE Crash
  BY <1>3, CrashStep
<1>4. CASE UNCHANGED vars
  BY <1>4, StutterStep
<1> QED BY <1>1, <1>2, <1>3, <1>4 DEF Next

LEMMA InitKeeps == Init => Shape /\ Lossless /\ Inductive
<1> SUFFICES ASSUME Init PROVE Shape /\ Lossless /\ Inductive
  OBVIOUS
<1>1. /\ journal = << >> /\ Len(journal) = 0 /\ docs = NoValues /\ marks = {}
      /\ indexPos = 0 /\ queuePos = 0
      /\ \A c \in Callers : pc[c] = "idle" /\ frame[c] = NoFrame
  BY DEF Init
<1>2. NoFrame \in Frame /\ NoFrame.values = NoValues
  BY <1>1, NoFrameType
<1>3. \A m, k : k \in 0 .. Len(journal) => ~ About(m, k)
  BY <1>1 DEF About
<1>4. TypeOK
  BY <1>1, <1>2 DEF Init, TypeOK, Pcs, NoValues
<1>5. LastInRange
  <2>1. SUFFICES ASSUME NEW m \in Memories, NEW k \in 0 .. 0
                 PROVE  LastAbout(m, k) \in 0 .. k
    BY <1>1 DEF LastInRange
  <2>2. {s \in 1 .. k : journal[s].mem = m} = {}
    OBVIOUS
  <2> QED BY <2>2 DEF LastAbout, LastOf, Max0
<1>6. ValuesInRange /\ BatchesInRange
  BY <1>1, <1>2 DEF ValuesInRange, BatchesInRange, Working, NoValues
<1>7. Shape
  BY <1>4, <1>5, <1>6 DEF Shape
<1>8. Lossless
  BY <1>1, <1>7 DEF Lossless, AcknowledgedIsApplied, CallerApplied
<1>9. AppliedTo(0)
  <2>1. \A c \in Callers : CallerAt(c, 0)
    BY <1>1 DEF CallerAt, Working
  <2>2. marks = 1 .. 0 /\ queuePos <= 0
    BY <1>1
  <2>3. \A m \in Memories : ~ About(m, 0)
    BY DEF About
  <2> QED BY <2>1, <2>2, <2>3 DEF AppliedTo
<1>10. NothingInvented
  BY <1>1, <1>2 DEF NothingInvented, NoValues
<1>11. 0 \in 0 .. Len(journal) /\ queuePos <= indexPos
  BY <1>1
<1> QED BY <1>7, <1>8, <1>9, <1>10, <1>11 DEF Inductive

-----------------------------------------------------------------------------
(* A caught-up index that was replayed to k shows every memory as the      *)
(* journal has it.                                                         *)
LEMMA InductiveFollows == Inductive => IndexFollowsQueue
<1> SUFFICES ASSUME Inductive PROVE IndexFollowsQueue
  OBVIOUS
<1>1. TypeOK /\ Len(journal) \in Nat
  BY DEF Inductive, Shape, TypeOK
<1>2. CaughtUpIsCurrent
  <2>1. SUFFICES ASSUME queuePos = Len(journal), NEW m \in Memories
                 PROVE  docs[m] = Canonical(m, Len(journal))
    BY DEF CaughtUpIsCurrent
  <2>2. PICK k \in 0 .. Len(journal) : AppliedTo(k)
    BY DEF Inductive
  <2>3. k = Len(journal)
    <3>1. queuePos <= k
      BY <2>2 DEF AppliedTo
    <3> QED BY <3>1, <2>1, <1>1
  <2>4. CASE About(m, Len(journal))
    BY <2>2, <2>3, <2>4 DEF AppliedTo
  <2>5. CASE ~ About(m, Len(journal))
    BY <2>5, CanonicalNone DEF Inductive, NothingInvented
  <2> QED BY <2>4, <2>5
<1>3. IndexNotBehindQueue
  BY <1>1 DEF Inductive, IndexNotBehindQueue, TypeOK
<1> QED BY <1>1, <1>2, <1>3 DEF IndexFollowsQueue

(* However many callers overlap, what the callers keep stays in range.     *)
THEOREM TypeCorrect == Spec => []TypeOK
<1>1. Shape /\ [Next]_vars => Shape'
  BY NextKeeps DEF Kept
<1>2. Init => Shape
  BY InitKeeps
<1>3. Shape => TypeOK
  BY DEF Shape
<1> QED BY <1>1, <1>2, <1>3, PTL DEF Spec

(* Any number of callers may synchronise and rebuild, as long as they do   *)
(* not overlap: the index is what the acknowledged journal calls for, and  *)
(* no sync of MemoryService finds it behind the queue.                     *)
THEOREM IndexesFollowTheQueue == Spec => SeparateSyncsFollowQueue
<1>1. Shape /\ Inductive /\ SyncsDoNotOverlap /\ SyncsDoNotOverlap' /\ [Next]_vars
        => Shape' /\ Inductive'
  BY NextKeeps DEF Kept
<1>2. Init => Shape /\ Inductive
  BY InitKeeps
<1> QED BY <1>1, <1>2, InductiveFollows, PTL DEF Spec, SeparateSyncsFollowQueue

(* One caller never overlaps itself. *)
THEOREM OneCallerFollowsTheQueue ==
  ASSUME \A c, d \in Callers : c = d
  PROVE  Spec => []IndexFollowsQueue
<1>1. SyncsDoNotOverlap
  BY DEF SyncsDoNotOverlap
<1> QED BY <1>1, IndexesFollowTheQueue, PTL DEF SeparateSyncsFollowQueue

(* Syncs that overlap may leave a stale document, but none of them lets    *)
(* the queue go past an event the index has not taken (sync_one,           *)
(* acknowledge_batch), unless it runs inside a rebuild.                    *)
THEOREM NothingIsLost == Spec => OverlappingSyncsLoseNothing
<1>1. Shape /\ Lossless /\ RebuildsAlone /\ RebuildsAlone' /\ [Next]_vars => Shape' /\ Lossless'
  BY NextKeeps DEF Kept
<1>2. Init => Shape /\ Lossless
  BY InitKeeps
<1>3. Lossless => AcknowledgedIsApplied
  BY DEF Lossless
<1> QED BY <1>1, <1>2, <1>3, PTL DEF Spec, OverlappingSyncsLoseNothing
=============================================================================
