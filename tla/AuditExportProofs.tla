-------------------------- MODULE AuditExportProofs --------------------------
(***************************************************************************)
(* Theorems about AuditExport, for any number of tasks and events, any     *)
(* batch limit and any number of failures, crashes and resets.             *)
(***************************************************************************)
EXTENDS AuditExport, Integers, TLAPS

(* Whoever drains or resets holds the maintenance lock. *)
LockHeld == \A c \in Callers : pc[c] # "idle" => lock = c

(* A drain has rounds left until its last status. *)
RoundsLeft ==
    \A c \in Callers : pc[c] \notin {"idle", "resetting"} => frame[c].rounds > 0

(* The items f .. n have been delivered or need no delivery. *)
DoneFrom(f, n) ==
    \A j \in f..n : journal[j] = "app" => j \in delivered

(* The batch a drain works on begins right after the durable position, and *)
(* what it has passed of it is done with.                                  *)
BatchOf(c) ==
    /\ pc[c] \in {"export", "exporting", "failed", "unknown"} =>
         /\ frame[c].first = position + 1
         /\ frame[c].first <= frame[c].item /\ frame[c].item <= frame[c].last
         /\ frame[c].last <= Len(journal)
         /\ DoneFrom(frame[c].first, frame[c].item - 1)
    /\ pc[c] \in {"position", "acknowledge"} =>
         /\ frame[c].first = position + 1
         /\ frame[c].last <= Len(journal)
         /\ DoneFrom(frame[c].first, frame[c].last)

BatchInPlace == \A c \in Callers : BatchOf(c)

(* A recorded unknown outcome is the retry state, which keeps the gate     *)
(* closed, and nobody has passed the gate.                                 *)
RecordedIsBlocking ==
    recorded # {} =>
        /\ recorded = {retry.seq} /\ ~retry.retryable /\ retry.seq > position
        /\ \A c \in Callers : pc[c] \in {"idle", "gate", "resetting"}

Inductive ==
    /\ TypeOK
    /\ LockHeld
    /\ RoundsLeft
    /\ position <= Len(journal)
    /\ BatchInPlace
    /\ NothingSkipped
    /\ RecordedIsBlocking

-----------------------------------------------------------------------------
(* Type correctness: first where the tasks are, then what they keep. *)

ControlOK ==
    /\ lock \in Callers \cup {NoCaller}
    /\ pc \in [Callers -> Pcs]
    /\ frame \in [Callers -> Frame]

LEMMA TypeInit == Init => TypeOK
BY BatchAssumption, BoundsAssumption
   DEF Init, TypeOK, NoRetry, NoFrame, Frame, Pcs

(* Spending from a bound keeps the bounds natural numbers. *)
LEMMA SpendType ==
  ASSUME TypeOK, NEW b \in {"app", "failures", "crashes", "resets"}, Spend(b)
  PROVE  budget' \in [{"app", "failures", "crashes", "resets"} -> Nat]
BY DEF TypeOK, Spend

(* Going on somewhere else with the same locals keeps the control typed. *)
LEMMA StayType ==
  ASSUME TypeOK, NEW c \in Callers, NEW l \in Pcs, Stay(c, l)
  PROVE  ControlOK'
BY DEF TypeOK, ControlOK, Stay, Goto

(* Going on somewhere else with new locals keeps the control typed. *)
LEMMA MoveType ==
  ASSUME TypeOK, NEW c \in Callers, NEW l \in Pcs, Goto(c, l), NEW f \in Frame,
         frame' = [frame EXCEPT ![c] = f], lock' \in Callers \cup {NoCaller}
  PROVE  ControlOK'
BY DEF TypeOK, ControlOK, Goto

(* Returning to the caller keeps the control typed. *)
LEMMA ReturnType ==
  ASSUME TypeOK, NEW c \in Callers, Return(c)
  PROVE  ControlOK'
BY DEF TypeOK, ControlOK, Return, Goto, NoFrame, Frame, Pcs

(* The locals of a task are natural numbers. *)
LEMMA FrameType ==
  ASSUME TypeOK, NEW c \in Callers
  PROVE  /\ frame[c] \in Frame
         /\ frame[c].rounds \in Nat /\ frame[c].first \in Nat
         /\ frame[c].last \in Nat /\ frame[c].item \in Nat
         /\ frame[c].from \in Nat /\ Item(c) \in Nat
BY DEF TypeOK, Frame, Item

(* The causes of the events stay the two there are. *)
LEMMA JournalType ==
  ASSUME TypeOK
  PROVE  /\ Append(journal, "app") \in Seq({"app", "own"})
         /\ Append(journal, "own") \in Seq({"app", "own"})
         /\ Len(journal) \in Nat
BY DEF TypeOK

(* The next item of the batch, or the end of it. *)
LEMMA NextItemType ==
  ASSUME TypeOK, NEW c \in Callers, NextItem(c)
  PROVE  ControlOK'
<1>1. [frame[c] EXCEPT !.item = @ + 1] \in Frame
  BY FrameType DEF Frame
<1>2. frame' = [frame EXCEPT ![c] = [frame[c] EXCEPT !.item = @ + 1]]
  BY FrameType DEF NextItem, TypeOK
<1>3. lock' \in Callers \cup {NoCaller}
  BY DEF NextItem, TypeOK
<1>4. Goto(c, "export") \/ Goto(c, "position")
  BY DEF NextItem
<1> QED BY <1>1, <1>2, <1>3, <1>4, MoveType DEF Pcs

(* Every action of a task keeps its control typed. *)
LEMMA ControlStep ==
  ASSUME TypeOK, RoundsLeft, NEW c \in Callers, CallerNext(c)
  PROVE  ControlOK'
<1>0. lock \in Callers \cup {NoCaller} /\ c \in Callers \cup {NoCaller}
  BY DEF TypeOK
<1>1. CASE Drain(c)
  <2>1. [frame[c] EXCEPT !.rounds = MaxRounds] \in Frame
    BY FrameType, BatchAssumption DEF Frame
  <2>2. frame' = [frame EXCEPT ![c] = [frame[c] EXCEPT !.rounds = MaxRounds]]
    BY <1>1 DEF Drain, TypeOK
  <2> QED BY <1>0, <1>1, <2>1, <2>2, MoveType DEF Drain, Pcs
<1>2. CASE ResetPosition(c)
  BY <1>0, <1>2 DEF ControlOK, ResetPosition, Goto, Pcs, TypeOK
<1>3. CASE Return(c)
  BY <1>3, ReturnType
<1>4. CASE NextItem(c)
  BY <1>4, NextItemType
<1>5. ASSUME NEW l \in Pcs, Stay(c, l) PROVE ControlOK'
  BY <1>5, StayType
<1>6. CASE Pending(c) /\ ~Return(c)
  <2> DEFINE f == [frame[c] EXCEPT !.first = position + 1,
                     !.item = position + 1,
                     !.last = Lesser(position + Limit, Len(journal))]
  <2>1. Lesser(position + Limit, Len(journal)) \in Nat /\ position + 1 \in Nat
    BY JournalType, BatchAssumption DEF Lesser, TypeOK
  <2>2. f \in Frame
    BY <2>1, FrameType DEF Frame
  <2>3. frame' = [frame EXCEPT ![c] = f]
    BY <1>6, FrameType DEF Pending, TypeOK, Frame
  <2>4. Goto(c, "export") /\ lock' = lock
    BY <1>6 DEF Pending
  <2> HIDE DEF f
  <2> QED BY <1>0, <2>2, <2>3, <2>4, MoveType DEF Pcs
<1>7. CASE ReadPosition(c)
  <2>1. [frame[c] EXCEPT !.from = position] \in Frame
    BY FrameType DEF Frame, TypeOK
  <2>2. frame' = [frame EXCEPT ![c] = [frame[c] EXCEPT !.from = position]]
    BY <1>7 DEF ReadPosition, TypeOK
  <2> QED BY <1>0, <1>7, <2>1, <2>2, MoveType DEF ReadPosition, Pcs
<1>8. CASE Status(c) /\ ~Return(c)
  <2> DEFINE f == [NoFrame EXCEPT !.rounds = frame[c].rounds - 1]
  <2>1. frame[c].rounds - 1 \in Nat
    BY <1>8, FrameType DEF Status, RoundsLeft
  <2>2. f \in Frame
    BY <2>1 DEF Frame, NoFrame
  <2>3. frame' = [frame EXCEPT ![c] = f] /\ Goto(c, "gate") /\ lock' = lock
    BY <1>8 DEF Status
  <2> HIDE DEF f
  <2> QED BY <1>0, <2>2, <2>3, MoveType DEF Pcs
<1>9. \/ Drain(c) \/ ResetPosition(c) \/ Return(c) \/ NextItem(c)
      \/ \E l \in Pcs : Stay(c, l)
      \/ Pending(c) /\ ~Return(c)
      \/ ReadPosition(c)
      \/ Status(c) /\ ~Return(c)
  <2>1. CASE RetryGate(c) \/ ExportCall(c) \/ ExportRefused(c)
               \/ ExportFails(c) \/ ExportUnknown(c)
    BY <2>1 DEF RetryGate, ExportCall, ExportRefused, ExportFails,
                ExportUnknown, Pcs
  <2>2. CASE Acknowledge(c) \/ ClearFailure(c)
    BY <2>2 DEF Acknowledge, ClearFailure, Pcs
  <2>3. CASE SkipOwn(c) \/ ExportOk(c) \/ RecordFailure(c) \/ ResetRetry(c)
               \/ StoreFails(c)
    BY <2>3 DEF SkipOwn, ExportOk, RecordFailure, ResetRetry, StoreFails
  <2> QED BY <2>1, <2>2, <2>3 DEF CallerNext, Proceed
<1> QED BY <1>1, <1>2, <1>3, <1>4, <1>5, <1>6, <1>7, <1>8, <1>9

(* What a task keeps beside its control. *)
DataOK ==
    /\ journal \in Seq({"app", "own"})
    /\ position \in Nat
    /\ retry \in [seq: Nat, attempts: Nat, retryable: BOOLEAN]
    /\ retryPos \in Nat
    /\ due \in BOOLEAN
    /\ delivered \subseteq Nat /\ unknown \subseteq Nat /\ recorded \subseteq Nat
    /\ budget \in [{"app", "failures", "crashes", "resets"} -> Nat]

(* Every action of a task keeps the types. *)
LEMMA TypeCaller ==
  ASSUME TypeOK, RoundsLeft, NEW c \in Callers, CallerNext(c)
  PROVE  TypeOK'
<1> SUFFICES DataOK'
  BY ControlStep DEF TypeOK, DataOK, ControlOK
<1>0. DataOK /\ Item(c) \in Nat /\ frame[c].last \in Nat
  BY FrameType DEF TypeOK, DataOK
<1>1. ASSUME UNCHANGED <<durable, ghosts>>, budget' = budget PROVE DataOK'
  BY <1>0, <1>1 DEF DataOK, durable, ghosts
<1>2. CASE Drain(c) \/ RetryGate(c) \/ Pending(c) \/ SkipOwn(c)
             \/ ReadPosition(c) \/ Status(c)
  BY <1>1, <1>2 DEF Drain, RetryGate, Pending, SkipOwn, ReadPosition, Status
<1>3. CASE ResetPosition(c)
  BY <1>0, <1>3, SpendType DEF DataOK, ResetPosition, ghosts
<1>4. CASE ResetRetry(c)
  BY <1>0, <1>4 DEF DataOK, ResetRetry, NoRetry
<1>5. CASE ExportCall(c)
  BY <1>0, <1>5, JournalType DEF DataOK, ExportCall, ghosts
<1>6. CASE ExportOk(c)
  BY <1>0, <1>6, JournalType DEF DataOK, ExportOk
<1>7. CASE ExportRefused(c) \/ StoreFails(c)
  BY <1>0, <1>7, SpendType DEF DataOK, ExportRefused, StoreFails, durable, ghosts
<1>8. CASE ExportFails(c)
  BY <1>0, <1>8, SpendType, JournalType DEF DataOK, ExportFails, ghosts
<1>9. CASE ExportUnknown(c)
  BY <1>0, <1>9, SpendType, JournalType DEF DataOK, ExportUnknown
<1>10. CASE RecordFailure(c)
  <2>1. FailureState(c, pc[c] = "failed")
          \in [seq: Nat, attempts: Nat, retryable: BOOLEAN]
    BY <1>0 DEF DataOK, FailureState
  <2>2. CASE IsNext(c)
    <3>1. retry' \in [seq: Nat, attempts: Nat, retryable: BOOLEAN]
      BY <1>10, <2>1, <2>2 DEF RecordFailure
    <3>2. retryPos' \in Nat /\ due' \in BOOLEAN /\ recorded' \subseteq Nat
      <4>1. /\ retryPos' = retryPos + 1
            /\ recorded' = recorded \/ recorded' = recorded \cup {Item(c)}
        BY <1>10, <2>2, Zenon DEF RecordFailure
      <4>2. due' \in BOOLEAN
        BY <1>10, <2>2, Zenon DEF RecordFailure
      <4>3. retryPos' \in Nat
        BY <1>0, <4>1 DEF DataOK
      <4>4. recorded' \subseteq Nat
        <5>1. recorded \subseteq Nat /\ Item(c) \in Nat
          BY <1>0 DEF DataOK
        <5>2. recorded \cup {Item(c)} \subseteq Nat
          BY <5>1
        <5> QED BY <4>1, <5>1, <5>2
      <4> QED BY <4>2, <4>3, <4>4
    <3> QED BY <1>0, <1>10, <3>1, <3>2 DEF DataOK, RecordFailure
  <2>3. CASE ~IsNext(c)
    BY <1>0, <1>10, <2>3 DEF DataOK, RecordFailure
  <2> QED BY <2>2, <2>3
<1>11. CASE Acknowledge(c)
  BY <1>0, <1>11 DEF DataOK, Acknowledge, ghosts
<1>12. CASE ClearFailure(c)
  BY <1>0, <1>12 DEF DataOK, ClearFailure, NoRetry, ghosts
<1> QED
  BY <1>2, <1>3, <1>4, <1>5, <1>6, <1>7, <1>8, <1>9, <1>10, <1>11, <1>12
     DEF CallerNext, Proceed

(* Every step keeps the types. *)
LEMMA TypeStep ==
  ASSUME TypeOK, RoundsLeft, [Next]_vars
  PROVE  TypeOK'
<1>1. ASSUME NEW c \in Callers, CallerNext(c) PROVE TypeOK'
  BY <1>1, TypeCaller
<1>2. CASE AppEvent
  BY <1>2, SpendType, JournalType DEF TypeOK, AppEvent, ghosts
<1>3. CASE Elapse
  BY <1>3 DEF TypeOK, Elapse, ghosts
<1>4. CASE Crash
  <2>1. \A c \in Callers : Item(c) \in Nat
    BY FrameType
  <2>2. delivered' \subseteq Nat
    BY <1>4, <2>1 DEF TypeOK, Crash
  <2>3. budget' \in [{"app", "failures", "crashes", "resets"} -> Nat]
    BY <1>4, SpendType DEF Crash
  <2>4. ControlOK'
    BY <1>4 DEF Crash, ControlOK, NoFrame, Frame, Pcs
  <2> QED BY <1>4, <2>2, <2>3, <2>4 DEF TypeOK, ControlOK, Crash, durable
<1>5. CASE UNCHANGED vars
  BY <1>5 DEF TypeOK, vars
<1> QED BY <1>1, <1>2, <1>3, <1>4, <1>5 DEF Next

-----------------------------------------------------------------------------
(* The lock, the batch and the position. *)

(* The journal and what was delivered only grow. *)
Grows ==
    /\ Len(journal) <= Len(journal')
    /\ \A j \in 1..Len(journal) : journal'[j] = journal[j]
    /\ delivered \subseteq delivered'

LEMMA StepGrows ==
  ASSUME TypeOK, [Next]_vars
  PROVE  Grows
<1>1. \A e \in {"app", "own"} :
        /\ Len(journal) <= Len(Append(journal, e))
        /\ \A j \in 1..Len(journal) : Append(journal, e)[j] = journal[j]
  BY DEF TypeOK
<1>2. Len(journal) <= Len(journal)
  BY JournalType
<1>3. journal' \in {journal} \cup {Append(journal, e) : e \in {"app", "own"}}
  <2>1. ASSUME NEW c \in Callers, CallerNext(c)
        PROVE  journal' = journal \/ journal' = Append(journal, "own")
    BY <2>1 DEF CallerNext, Proceed, RetryGate, Pending, SkipOwn, ExportCall,
                ExportRefused, ExportOk, ExportFails, ExportUnknown,
                RecordFailure, ReadPosition, Acknowledge, ClearFailure, Status,
                ResetRetry, Drain, ResetPosition, StoreFails, durable
  <2>2. AppEvent => journal' = Append(journal, "app")
    BY DEF AppEvent
  <2>3. Elapse \/ Crash \/ UNCHANGED vars => journal' = journal
    BY DEF Elapse, Crash, durable, vars
  <2> QED BY <2>1, <2>2, <2>3 DEF Next
<1>4. delivered \subseteq delivered'
  <2>1. ASSUME NEW c \in Callers, CallerNext(c)
        PROVE  delivered \subseteq delivered'
    BY <2>1 DEF CallerNext, Proceed, RetryGate, Pending, SkipOwn, ExportCall,
                ExportRefused, ExportOk, ExportFails, ExportUnknown,
                RecordFailure, ReadPosition, Acknowledge, ClearFailure, Status,
                ResetRetry, Drain, ResetPosition, StoreFails, ghosts
  <2>2. AppEvent \/ Elapse \/ Crash \/ UNCHANGED vars => delivered \subseteq delivered'
    BY DEF AppEvent, Elapse, Crash, vars, ghosts
  <2> QED BY <2>1, <2>2 DEF Next
<1> QED BY <1>1, <1>2, <1>3, <1>4 DEF Grows

(* What is done with stays so. *)
LEMMA DoneStays ==
  ASSUME TypeOK, Grows, NEW f \in Nat \ {0}, NEW n \in Int,
         n <= Len(journal), DoneFrom(f, n)
  PROVE  \A j \in f..n : journal'[j] = "app" => j \in delivered'
<1>1. SUFFICES ASSUME NEW j \in f..n, journal'[j] = "app"
               PROVE  j \in delivered'
  OBVIOUS
<1>2. j \in 1..Len(journal)
  BY JournalType
<1> QED BY <1>1, <1>2 DEF Grows, DoneFrom

(* A task acts alone: the others are idle and stay so. *)
LEMMA OthersIdle ==
  ASSUME TypeOK, LockHeld, NEW c \in Callers, CallerNext(c),
         NEW d \in Callers, d # c
  PROVE  pc[d] = "idle" /\ pc'[d] = "idle"
<1>1. lock = c \/ lock = NoCaller
  <2>1. CASE pc[c] # "idle"
    BY <2>1 DEF LockHeld
  <2>2. CASE pc[c] = "idle"
    BY <2>2 DEF CallerNext, Proceed, RetryGate, Pending, SkipOwn, ExportCall,
                ExportRefused, ExportOk, ExportFails, ExportUnknown,
                RecordFailure, ReadPosition, Acknowledge, ClearFailure, Status,
                ResetRetry, Drain, ResetPosition, StoreFails, LockFree
  <2> QED BY <2>1, <2>2
<1>2. pc[d] = "idle"
  BY <1>1, CallersAssumption DEF LockHeld
<1>3. \E l \in Pcs : Goto(c, l)
  <2>1. CASE Drain(c) \/ ResetPosition(c) \/ ReadPosition(c) \/ Pending(c)
               \/ Status(c) \/ RetryGate(c)
    BY <2>1 DEF Drain, ResetPosition, ReadPosition, Pending, Status, RetryGate,
                Return, Stay, Pcs
  <2>2. CASE ResetRetry(c) \/ RecordFailure(c) \/ StoreFails(c) \/ SkipOwn(c)
               \/ ExportOk(c)
    BY <2>2 DEF ResetRetry, RecordFailure, StoreFails, SkipOwn, ExportOk,
                NextItem, Return, Pcs
  <2>3. CASE ExportCall(c) \/ ExportRefused(c) \/ ExportFails(c)
               \/ ExportUnknown(c) \/ Acknowledge(c) \/ ClearFailure(c)
    BY <2>3 DEF ExportCall, ExportRefused, ExportFails, ExportUnknown,
                Acknowledge, ClearFailure, Return, Stay, Pcs
  <2> QED BY <2>1, <2>2, <2>3 DEF CallerNext, Proceed
<1> QED BY <1>2, <1>3 DEF Goto, TypeOK

(* A task works on its batch where it is one of these. *)
Working == {"export", "exporting", "failed", "unknown"}

(* Appending to the journal, failing and waiting leave the batch in place. *)
LEMMA BatchKept ==
  ASSUME TypeOK, TypeOK', Grows, NEW c \in Callers, BatchOf(c),
         position' = position, frame'[c] = frame[c],
         pc[c] \in Working, pc'[c] \in Working
  PROVE  BatchOf(c)'
<1> DEFINE f == frame[c].first
           n == frame[c].item - 1
<1>0. Len(journal) \in Nat /\ Len(journal') \in Nat /\ position \in Nat
  BY DEF TypeOK
<1>1. /\ f = position + 1 /\ f <= frame[c].item
      /\ frame[c].item <= frame[c].last /\ frame[c].last <= Len(journal)
      /\ DoneFrom(f, n)
  BY DEF BatchOf, Working
<1>2. /\ f \in Nat \ {0} /\ n \in Int /\ n <= Len(journal)
      /\ frame[c].last \in Nat
  BY <1>0, <1>1, FrameType
<1>3. \A j \in f..n : journal'[j] = "app" => j \in delivered'
  BY <1>1, <1>2, DoneStays
<1>4. frame'[c].last <= Len(journal')
  BY <1>1, <1>2 DEF Grows
<1> QED BY <1>1, <1>3, <1>4 DEF BatchOf, DoneFrom, Working

(* Going on to the next item when this one is done with. *)
LEMMA BatchAdvances ==
  ASSUME TypeOK, TypeOK', Grows, NEW c \in Callers, BatchOf(c),
         position' = position, pc[c] \in Working, NextItem(c),
         journal[Item(c)] = "app" => Item(c) \in delivered'
  PROVE  BatchOf(c)'
<1> DEFINE f == frame[c].first
           i == frame[c].item
           l == frame[c].last
<1>0. Len(journal) \in Nat /\ Len(journal') \in Nat /\ position \in Nat
  BY DEF TypeOK
<1>1. /\ f = position + 1 /\ f <= i /\ i <= l /\ l <= Len(journal)
      /\ DoneFrom(f, i - 1)
  BY DEF BatchOf, Working
<1>2. /\ f \in Nat \ {0} /\ i \in Nat /\ l \in Nat
      /\ i - 1 \in Int /\ i - 1 <= Len(journal)
  BY <1>0, <1>1, FrameType
<1>3. /\ frame'[c].first = f /\ frame'[c].last = l /\ frame'[c].item = i + 1
      /\ pc'[c] = IF i < l THEN "export" ELSE "position"
  BY DEF NextItem, Goto, Item, TypeOK, Frame
<1>4. \A j \in f..i : journal'[j] = "app" => j \in delivered'
  <2>1. \A j \in f..(i - 1) : journal'[j] = "app" => j \in delivered'
    BY <1>1, <1>2, DoneStays
  <2>2. journal'[i] = "app" => i \in delivered'
    BY <1>0, <1>1, <1>2 DEF Grows, Item
  <2> QED BY <1>2, <2>1, <2>2
<1>5. l <= Len(journal')
  BY <1>0, <1>1, <1>2 DEF Grows
<1>6. CASE i < l
  <2>1. (i + 1) - 1 = i /\ f <= i + 1 /\ i + 1 <= l
    BY <1>1, <1>2, <1>6
  <2> QED BY <1>1, <1>3, <1>4, <1>5, <1>6, <2>1 DEF BatchOf, DoneFrom
<1>7. CASE ~(i < l)
  <2>1. i = l
    BY <1>1, <1>2, <1>7
  <2> QED BY <1>1, <1>3, <1>4, <1>5, <1>7, <2>1 DEF BatchOf, DoneFrom
<1> QED BY <1>6, <1>7

(* What the steps of a task show of the task itself. *)
Orderly(c) ==
    /\ pc[c] # "idle" => lock = c
    /\ pc[c] \notin {"idle", "resetting"} => frame[c].rounds > 0
    /\ BatchOf(c)

(* A task that is nowhere in a batch has nothing to keep in place. *)
LEMMA NoBatch ==
  ASSUME NEW c \in Callers,
         pc'[c] \in {"idle", "gate", "pending", "clear", "status", "resetting"}
  PROVE  BatchOf(c)'
BY DEF BatchOf

(* Returning ends the batch and lets go of the lock. *)
LEMMA ReturnOrderly ==
  ASSUME TypeOK, NEW c \in Callers, Return(c)
  PROVE  pc'[c] = "idle" /\ Orderly(c)'
<1>1. pc'[c] = "idle"
  BY DEF Return, Goto, TypeOK
<1> QED BY <1>1, NoBatch DEF Orderly

(* Every action of a task leaves the task orderly. *)
LEMMA OrderlyStep ==
  ASSUME TypeOK, TypeOK', Grows, NEW c \in Callers, CallerNext(c), Orderly(c),
         position <= Len(journal)
  PROVE  Orderly(c)'
<1>1. CASE Return(c)
  BY <1>1, ReturnOrderly
<1>2. CASE Drain(c)
  <2>1. pc'[c] = "gate" /\ lock' = c /\ frame'[c].rounds = MaxRounds
    BY <1>2 DEF Drain, Goto, TypeOK, Frame
  <2> QED BY <2>1, NoBatch, BatchAssumption DEF Orderly
<1>3. CASE ResetPosition(c)
  <2>1. pc'[c] = "resetting" /\ lock' = c
    BY <1>3 DEF ResetPosition, Goto, TypeOK
  <2> QED BY <2>1, NoBatch DEF Orderly
<1>4. CASE (RetryGate(c) \/ ClearFailure(c)) /\ ~Return(c)
  <2>1. /\ pc'[c] \in {"pending", "status"} /\ pc[c] \in {"gate", "clear"}
        /\ lock' = lock /\ frame' = frame
    BY <1>4 DEF RetryGate, ClearFailure, Stay, Goto, TypeOK
  <2> QED BY <2>1, NoBatch DEF Orderly
<1>5. CASE Pending(c) /\ ~Return(c)
  <2>1. /\ pc'[c] = "export" /\ pc[c] = "pending" /\ lock' = lock
        /\ position < Len(journal)
        /\ position' = position /\ journal' = journal
    BY <1>5 DEF Pending, Goto, TypeOK, durable
  <2>2. /\ frame'[c].rounds = frame[c].rounds
        /\ frame'[c].first = position + 1 /\ frame'[c].item = position + 1
        /\ frame'[c].last = Lesser(position + Limit, Len(journal))
    <3>1. frame' = [frame EXCEPT
              ![c].first = position + 1, ![c].item = position + 1,
              ![c].last = Lesser(position + Limit, Len(journal))]
      BY <1>5 DEF Pending
    <3>2. frame \in [Callers -> Frame]
      BY DEF TypeOK
    <3> QED BY <3>1, <3>2 DEF Frame
  <2>3. /\ position + 1 <= Lesser(position + Limit, Len(journal))
        /\ Lesser(position + Limit, Len(journal)) <= Len(journal)
    <3>1. position \in Nat /\ Len(journal) \in Nat /\ Limit \in Nat /\ Limit > 0
      BY BatchAssumption DEF TypeOK
    <3> QED BY <2>1, <3>1 DEF Lesser
  <2>4. (position + 1)..((position + 1) - 1) = {}
    BY DEF TypeOK
  <2>5. BatchOf(c)'
    BY <2>1, <2>2, <2>3, <2>4 DEF BatchOf, DoneFrom, TypeOK
  <2> QED BY <2>1, <2>2, <2>5 DEF Orderly
<1>6. CASE SkipOwn(c) \/ ExportOk(c)
  <2>1. /\ pc[c] \in Working /\ NextItem(c) /\ position' = position
        /\ (journal[Item(c)] = "app" => Item(c) \in delivered')
    BY <1>6 DEF SkipOwn, ExportOk, Working, Skips, durable
  <2>2. BatchOf(c)'
    BY <2>1, BatchAdvances DEF Orderly
  <2>3. lock' = lock /\ frame'[c].rounds = frame[c].rounds
    BY <2>1 DEF NextItem, TypeOK, Frame
  <2> QED BY <2>1, <2>2, <2>3 DEF Orderly, Working
<1>7. CASE ExportCall(c) \/ ExportRefused(c) \/ ExportFails(c)
             \/ ExportUnknown(c)
  <2>1. /\ pc[c] \in Working /\ pc'[c] \in Working
        /\ lock' = lock /\ frame' = frame /\ position' = position
    BY <1>7 DEF ExportCall, ExportRefused, ExportFails, ExportUnknown, Stay,
                Goto, TypeOK, Working, durable
  <2>2. BatchOf(c)'
    BY <2>1, BatchKept DEF Orderly
  <2> QED BY <2>1, <2>2 DEF Orderly, Working
<1>8. CASE ReadPosition(c)
  <2>1. /\ pc[c] = "position" /\ pc'[c] = "acknowledge" /\ lock' = lock
        /\ position' = position /\ journal' = journal /\ delivered' = delivered
    BY <1>8 DEF ReadPosition, Goto, TypeOK, durable, ghosts
  <2>2. /\ frame'[c].first = frame[c].first /\ frame'[c].last = frame[c].last
        /\ frame'[c].rounds = frame[c].rounds
    BY <1>8 DEF ReadPosition, TypeOK, Frame
  <2> QED BY <2>1, <2>2 DEF Orderly, BatchOf, DoneFrom
<1>9. CASE Acknowledge(c) /\ ~Return(c)
  <2>1. /\ pc[c] = "acknowledge" /\ pc'[c] = "clear" /\ lock' = lock
        /\ frame' = frame
    BY <1>9 DEF Acknowledge, Stay, Goto, TypeOK
  <2> QED BY <2>1, NoBatch DEF Orderly
<1>10. CASE Status(c) /\ ~Return(c)
  <2>1. /\ pc[c] = "status" /\ pc'[c] = "gate" /\ lock' = lock
        /\ frame[c].rounds # 1
    BY <1>10 DEF Status, Goto, TypeOK
  <2>2. frame'[c].rounds = frame[c].rounds - 1
    BY <1>10 DEF Status, TypeOK, NoFrame
  <2>3. frame'[c].rounds > 0
    BY <2>1, <2>2, FrameType DEF Orderly
  <2> QED BY <2>1, <2>3, NoBatch DEF Orderly
<1>11. CASE ResetRetry(c) \/ RecordFailure(c) \/ StoreFails(c)
  BY <1>1, <1>11 DEF ResetRetry, RecordFailure, StoreFails
<1> QED
  BY <1>1, <1>2, <1>3, <1>4, <1>5, <1>6, <1>7, <1>8, <1>9, <1>10, <1>11
     DEF CallerNext, Proceed

(* The position stays, starts again, or passes a batch that is done with. *)
LEMMA PositionStep ==
  ASSUME TypeOK, TypeOK', Grows, NEW c \in Callers, CallerNext(c), Orderly(c),
         position <= Len(journal), NothingSkipped
  PROVE  position' <= Len(journal') /\ NothingSkipped'
<1>0. /\ Len(journal) \in Nat /\ Len(journal') \in Nat
      /\ position \in Nat /\ position' \in Nat
  BY DEF TypeOK
<1>1. /\ position' <= Len(journal)
      /\ \A j \in 1..position' : journal[j] = "app" => j \in delivered
  <2>1. CASE Acknowledge(c) /\ ~Return(c)
    <3>1. pc[c] = "acknowledge" /\ position' = frame[c].last
      BY <2>1 DEF Acknowledge
    <3>2. /\ frame[c].first = position + 1 /\ frame[c].last <= Len(journal)
          /\ \A j \in frame[c].first..frame[c].last :
               journal[j] = "app" => j \in delivered
      BY <3>1 DEF Orderly, BatchOf, DoneFrom
    <3> QED BY <1>0, <3>1, <3>2 DEF NothingSkipped
  <2>2. CASE Acknowledge(c) /\ Return(c)
    BY <2>2 DEF Acknowledge, NothingSkipped, Return, Stay, Goto, TypeOK
  <2>3. CASE ResetPosition(c)
    BY <1>0, <2>3 DEF ResetPosition
  <2>4. CASE position' = position
    BY <2>4 DEF NothingSkipped
  <2>5. CallerNext(c) => Acknowledge(c) \/ ResetPosition(c) \/ position' = position
    BY DEF CallerNext, Proceed, RetryGate, Pending, SkipOwn, ExportCall,
           ExportRefused, ExportOk, ExportFails, ExportUnknown, RecordFailure,
           ReadPosition, ClearFailure, Status, ResetRetry, Drain, StoreFails,
           durable
  <2> QED BY <2>1, <2>2, <2>3, <2>4, <2>5
<1> QED BY <1>0, <1>1 DEF NothingSkipped, Grows

(* The steps of the environment leave a task that goes on orderly. *)
LEMMA OrderlyStays ==
  ASSUME TypeOK, TypeOK', Grows, NEW c \in Callers, Orderly(c),
         position' = position, lock' = lock, pc' = pc, frame' = frame
  PROVE  Orderly(c)'
<1>1. CASE pc[c] \in Working
  BY <1>1, BatchKept DEF Orderly
<1>2. CASE pc[c] \in {"position", "acknowledge"}
  <2>0. Len(journal) \in Nat /\ Len(journal') \in Nat /\ position \in Nat
    BY DEF TypeOK
  <2>1. frame[c].first \in Nat /\ frame[c].last \in Nat
    BY FrameType
  <2>2. /\ frame[c].first = position + 1 /\ frame[c].last <= Len(journal)
        /\ DoneFrom(frame[c].first, frame[c].last)
    BY <1>2 DEF Orderly, BatchOf
  <2>3. \A j \in frame[c].first..frame[c].last :
          journal'[j] = "app" => j \in delivered'
    <3>1. frame[c].first \in Nat \ {0} /\ frame[c].last \in Int
      BY <2>0, <2>1, <2>2
    <3> QED BY <2>2, <3>1, DoneStays
  <2>4. frame[c].last <= Len(journal')
    BY <2>0, <2>1, <2>2 DEF Grows
  <2> QED BY <1>2, <2>2, <2>3, <2>4 DEF Orderly, BatchOf, DoneFrom
<1>3. CASE pc[c] \notin Working \cup {"position", "acknowledge"}
  BY <1>3, NoBatch DEF Orderly, TypeOK, Pcs, Working
<1> QED BY <1>1, <1>2, <1>3

(* A recorded unknown outcome goes on blocking. *)
LEMMA RecordedStep ==
  ASSUME TypeOK, TypeOK', LockHeld, RecordedIsBlocking,
         NEW c \in Callers, CallerNext(c)
  PROVE  RecordedIsBlocking'
<1>1. \A d \in Callers \ {c} : pc'[d] = "idle"
  BY OthersIdle
<1>2. position \in Nat /\ retry.seq \in Nat /\ Item(c) \in Nat
  BY FrameType DEF TypeOK
<1>3. CASE recorded # {}
  <2>1. /\ recorded = {retry.seq} /\ ~retry.retryable /\ retry.seq > position
        /\ pc[c] \in {"idle", "gate", "resetting"}
    BY <1>3 DEF RecordedIsBlocking
  <2>2. ~GateOpen
    BY <2>1 DEF GateOpen, RetryState
  <2>3. CASE ResetRetry(c)
    BY <2>3 DEF ResetRetry, RecordedIsBlocking
  <2>4. CASE Drain(c) \/ ResetPosition(c) \/ RetryGate(c) \/ StoreFails(c)
    <3>1. recorded' = recorded /\ retry' = retry
      BY <2>4 DEF Drain, ResetPosition, RetryGate, StoreFails, durable, ghosts
    <3>2. position' = position \/ position' = 0
      BY <2>4 DEF Drain, ResetPosition, RetryGate, StoreFails, durable
    <3>3. pc'[c] \in {"idle", "gate", "resetting"}
      BY <2>2, <2>4 DEF Drain, ResetPosition, RetryGate, StoreFails, Return,
                         Goto, TypeOK
    <3>4. retry.seq > position'
      BY <1>2, <2>1, <3>2
    <3> QED BY <1>1, <2>1, <3>1, <3>3, <3>4 DEF RecordedIsBlocking
  <2>5. ResetRetry(c) \/ Drain(c) \/ ResetPosition(c) \/ RetryGate(c)
          \/ StoreFails(c)
    BY <2>1 DEF CallerNext, Proceed, Pending, SkipOwn, ExportCall,
                ExportRefused, ExportOk, ExportFails, ExportUnknown,
                RecordFailure, ReadPosition, Acknowledge, ClearFailure, Status
  <2> QED BY <2>3, <2>4, <2>5
<1>4. CASE recorded = {}
  <2>1. CASE RecordFailure(c) /\ IsNext(c) /\ pc[c] = "unknown"
    <3>1. recorded' = {Item(c)}
      BY <1>4, <2>1, Zenon DEF RecordFailure
    <3>2. retry' = FailureState(c, FALSE)
      <4>1. (pc[c] = "failed") = FALSE
        BY <2>1
      <4>2. retry' = FailureState(c, pc[c] = "failed")
        BY <2>1, Zenon DEF RecordFailure
      <4> QED BY <4>1, <4>2, Zenon
    <3>3. retry'.seq = Item(c) /\ retry'.retryable = FALSE
      BY <3>2 DEF FailureState
    <3>4. retry'.seq > position' /\ pc'[c] = "idle"
      <4>1. position' = position /\ Return(c)
        BY <2>1, Zenon DEF RecordFailure
      <4>2. pc'[c] = "idle"
        BY <4>1 DEF Return, Goto, TypeOK
      <4>3. Item(c) = position + 1
        BY <2>1 DEF IsNext
      <4> QED BY <1>2, <3>3, <4>1, <4>2, <4>3
    <3> QED BY <1>1, <3>1, <3>3, <3>4 DEF RecordedIsBlocking
  <2>2. CASE RecordFailure(c) /\ ~(IsNext(c) /\ pc[c] = "unknown")
    <3>1. recorded' = {}
      BY <1>4, <2>2, Zenon DEF RecordFailure
    <3> QED BY <3>1 DEF RecordedIsBlocking
  <2>3. CASE ~RecordFailure(c)
    <3>1. recorded' = {}
      BY <1>4, <2>3 DEF CallerNext, Proceed, RetryGate, Pending, SkipOwn,
           ExportCall, ExportRefused, ExportOk, ExportFails, ExportUnknown,
           ReadPosition, Acknowledge, ClearFailure, Status, ResetRetry, Drain,
           ResetPosition, StoreFails, ghosts
    <3> QED BY <3>1 DEF RecordedIsBlocking
  <2> QED BY <2>1, <2>2, <2>3
<1> QED BY <1>3, <1>4

-----------------------------------------------------------------------------
(* The invariant. *)

(* The invariant in terms of the single tasks. *)
LEMMA AllOrderly ==
  (LockHeld /\ RoundsLeft /\ BatchInPlace) <=> \A c \in Callers : Orderly(c)
BY DEF LockHeld, RoundsLeft, BatchInPlace, Orderly

LEMMA InductiveInit == Init => Inductive
<1> SUFFICES ASSUME Init PROVE Inductive
  OBVIOUS
<1>1. TypeOK
  BY TypeInit
<1>2. \A c \in Callers : pc[c] = "idle"
  BY DEF Init
<1>3. LockHeld /\ RoundsLeft /\ BatchInPlace
  BY <1>2 DEF LockHeld, RoundsLeft, BatchInPlace, BatchOf
<1>4. position <= Len(journal) /\ NothingSkipped /\ RecordedIsBlocking
  BY DEF Init, NothingSkipped, RecordedIsBlocking
<1> QED BY <1>1, <1>3, <1>4 DEF Inductive

LEMMA InductiveStep == Inductive /\ [Next]_vars => Inductive'
<1> SUFFICES ASSUME Inductive, [Next]_vars PROVE Inductive'
  OBVIOUS
<1>1. TypeOK /\ TypeOK' /\ Grows
  BY TypeStep, StepGrows DEF Inductive
<1>2. /\ LockHeld /\ position <= Len(journal) /\ NothingSkipped
      /\ RecordedIsBlocking /\ \A c \in Callers : Orderly(c)
  BY AllOrderly DEF Inductive
<1>3. SUFFICES /\ \A c \in Callers : Orderly(c)'
               /\ position' <= Len(journal') /\ NothingSkipped'
               /\ RecordedIsBlocking'
  <2>1. (\A c \in Callers : Orderly(c)') =>
          LockHeld' /\ RoundsLeft' /\ BatchInPlace'
    BY DEF LockHeld, RoundsLeft, BatchInPlace, Orderly
  <2> QED BY <1>1, <2>1 DEF Inductive
<1>4. ASSUME NEW c \in Callers, CallerNext(c)
      PROVE  /\ \A d \in Callers : Orderly(d)'
             /\ position' <= Len(journal') /\ NothingSkipped'
             /\ RecordedIsBlocking'
  <2>1. Orderly(c)'
    BY <1>1, <1>2, <1>4, OrderlyStep
  <2>2. ASSUME NEW d \in Callers, d # c PROVE Orderly(d)'
    <3>1. pc'[d] = "idle"
      BY <1>1, <1>2, <1>4, <2>2, OthersIdle
    <3> QED BY <3>1, NoBatch DEF Orderly
  <2>3. position' <= Len(journal') /\ NothingSkipped'
    BY <1>1, <1>2, <1>4, PositionStep
  <2>4. RecordedIsBlocking'
    BY <1>1, <1>2, <1>4, RecordedStep
  <2> QED BY <2>1, <2>2, <2>3, <2>4
<1>5. ASSUME AppEvent \/ Elapse \/ Crash \/ UNCHANGED vars
      PROVE  /\ \A d \in Callers : Orderly(d)'
             /\ position' <= Len(journal') /\ NothingSkipped'
             /\ RecordedIsBlocking'
  <2>1. /\ position' = position /\ retry' = retry /\ recorded' = recorded
        /\ \/ lock' = lock /\ pc' = pc /\ frame' = frame
           \/ \A d \in Callers : pc'[d] = "idle"
    BY <1>5 DEF AppEvent, Elapse, Crash, vars, ghosts, durable
  <2>2. \A d \in Callers : Orderly(d)'
    <3>1. CASE lock' = lock /\ pc' = pc /\ frame' = frame
      BY <1>1, <1>2, <2>1, <3>1, OrderlyStays
    <3>2. CASE \A d \in Callers : pc'[d] = "idle"
      BY <3>2, NoBatch DEF Orderly
    <3> QED BY <2>1, <3>1, <3>2
  <2>3. position' <= Len(journal') /\ NothingSkipped'
    <3>1. /\ Len(journal) \in Nat /\ Len(journal') \in Nat
          /\ position \in Nat
      BY <1>1 DEF TypeOK
    <3> QED BY <1>1, <1>2, <2>1, <3>1 DEF NothingSkipped, Grows
  <2>4. RecordedIsBlocking'
    BY <1>2, <2>1 DEF RecordedIsBlocking
  <2> QED BY <2>2, <2>3, <2>4
<1> QED BY <1>4, <1>5 DEF Next

(* Every reachable state satisfies the invariant. *)
THEOREM Invariance == Spec => []Inductive
BY InductiveInit, InductiveStep, PTL DEF Spec

(* Every variable keeps its type: in particular the round budget of a      *)
(* drain never goes below zero, since its last status ends it.             *)
THEOREM TypeCorrect == Spec => []TypeOK
<1>1. Inductive => TypeOK
  BY DEF Inductive
<1> QED BY <1>1, Invariance, PTL

(* No application event is behind the durable position of the export       *)
(* without having reached the destination, for any number of tasks, any    *)
(* batch limit and any failures, crashes and resets.                       *)
THEOREM AtLeastOnce == Spec => []DeliveredAtLeastOnce
<1>1. Inductive => DeliveredAtLeastOnce
  BY DEF Inductive, DeliveredAtLeastOnce
<1> QED BY <1>1, Invariance, PTL

(* No task exports an item whose unknown outcome was recorded before a     *)
(* reset has gone through, whoever drains, fails, crashes or resets.       *)
THEOREM UnknownBlocks == Spec => []RecordedUnknownBlocks
<1>1. Inductive => RecordedUnknownBlocks
  <2> SUFFICES ASSUME Inductive, NEW c \in Callers, pc[c] = "exporting"
               PROVE  Item(c) \notin recorded
    BY DEF RecordedUnknownBlocks
  <2>1. recorded = {}
    BY DEF Inductive, RecordedIsBlocking
  <2> QED BY <2>1
<1> QED BY <1>1, Invariance, PTL
=============================================================================
