------------------------- MODULE EffectGatewayProofs -------------------------
(***************************************************************************)
(* Theorems about EffectGateway, for any number of requests and owners,    *)
(* with or without streaming, command contexts, risk reviews and leases    *)
(* that expire, and any number of chunks and pending recoveries.           *)
(***************************************************************************)
EXTENDS EffectGateway, FiniteSetTheorems, SequenceTheorems, TLAPS

Closing == Terminal \cup {"effect.denied"}

Early == {"idle", "prepare", "decide", "decided", "asking"}

Late == {"executing", "chunkDecide", "chunkDecided", "deliver", "outcome",
         "finish", "postDecide", "postAllowed", "release"}

Ended == {"finish", "postDecide", "postAllowed", "release"}

Started(r) == Has(log[r], {"effect.started"})

(* At most the one message m waits to be appended. *)
Only(q, m) == Len(q) <= 1 /\ \A i \in 1..Len(q) : q[i] = m

InTodo(r, k) == \E i \in 1..Len(todo[r]) : todo[r][i] = <<"main", k>>

(* What waits to be appended to the effect's own stream, by where the call *)
(* goes on afterwards: only what it says last closes the effect.           *)
ScriptOK(r) ==
    /\ pc[r] \in {"idle", "launch", "outcome", "finish"} => todo[r] = <<>>
    /\ pc[r] = "prepare" => Only(todo[r], <<"main", "effect.requested">>)
    /\ pc[r] = "decide" => Only(todo[r], <<"main", "approval.granted">>)
    /\ pc[r] = "decided" => outcome[r] # "none" /\ Only(todo[r], <<"main", Decided[outcome[r]]>>)
    /\ pc[r] = "started" => Only(todo[r], <<"main", "effect.started">>)
    /\ pc[r] = "deliver" => Only(todo[r], <<"main", "effect.chunk_released">>)
    /\ pc[r] = "release" => Only(todo[r], <<"main", "effect.completed">>)
    /\ pc[r] \in {"chunkDecided", "postAllowed"} => Only(todo[r], <<"post", Decided.Allow>>)
    /\ pc[r] \in {"executing", "chunkDecide", "postDecide"} =>
         \A i \in 1..Len(todo[r]) : todo[r][i][1] = "post"
    /\ pc[r] = "asking" =>
         \A i \in 1..Len(todo[r]) : todo[r][i][2] \notin Closing \cup {"effect.started"}
    /\ pc[r] = "returned" =>
         \A i \in 1..Len(todo[r]) : todo[r][i][1] = "main" =>
             /\ todo[r][i][2] \notin {"effect.started", "effect.completed"}
             /\ todo[r][i][2] \in Closing => i = Len(todo[r])

(* Where the call is, against what its stream says and the adapter did. *)
PhaseOK(r) ==
    /\ pc[r] = "idle" => log[r] = <<>>
    /\ pc[r] \in Early \cup {"started", "launch"} => invoked[r] = 0
    /\ pc[r] \in Early => ~Started(r)
    /\ pc[r] = "started" => (Started(r) <=> todo[r] = <<>>)
    /\ pc[r] \in Late \cup {"launch"} => Started(r)
    /\ pc[r] \in Late => invoked[r] = 1
    /\ invoked[r] \in {0, 1}
    /\ invoked[r] = 1 => Started(r)
    /\ Has(log[r], {"effect.denied"}) \/ InTodo(r, "effect.denied") =>
         pc[r] = "returned" /\ invoked[r] = 0 /\ ~Started(r)
    /\ Has(log[r], {"effect.completed"}) => out[r] = "ok" /\ pc[r] \in {"release", "returned"}
    /\ pc[r] \in Ended => out[r] = "ok"

(* Every decision of s that required approval is answered by a grant not   *)
(* after n.                                                                *)
Answered(s, n) ==
    \A j \in 1..Len(s) : s[j] = Decided.RequireApproval =>
        \E k \in j..n : s[k] = "approval.granted"

Authorized(s) ==
    \A i \in 1..Len(s) : s[i] = "effect.started" =>
        /\ i > 1 /\ s[i - 1] = Decided.Allow
        /\ \A j \in 1..i : s[j] = Decided.RequireApproval =>
             \E k \in j..(i - 2) : s[k] = "approval.granted"

LastIs(s, k) == Len(s) > 0 /\ s[Len(s)] = k

(* What has been decided and granted on the way to effect.started. *)
AuthOK(r) ==
    /\ Authorized(log[r])
    /\ pc[r] = "prepare" => Answered(log[r], Len(log[r]))
    /\ pc[r] = "decide" /\ todo[r] = <<>> => Answered(log[r], Len(log[r]))
    /\ pc[r] = "decided" /\ todo[r] # <<>> => Answered(log[r], Len(log[r]))
    /\ pc[r] = "decided" /\ todo[r] = <<>> =>
         /\ LastIs(log[r], Decided[outcome[r]])
         /\ outcome[r] # "RequireApproval" => Answered(log[r], Len(log[r]) - 1)
    /\ pc[r] = "started" /\ todo[r] # <<>> =>
         /\ LastIs(log[r], Decided.Allow)
         /\ Answered(log[r], Len(log[r]) - 1)

(* What the streams hold before output is handed on. *)
EvidenceOK(r) ==
    /\ delivered[r] <= Count(log[r], "effect.chunk_released")
    /\ needPost[r] => delivered[r] <= Count(postLog[r], Decided.Allow)
    /\ pc[r] \in Early \cup {"started", "launch"} => delivered[r] = 0
    /\ pc[r] \in {"chunkDecide", "chunkDecided"} => needPost[r]
    /\ pc[r] = "chunkDecided" /\ todo[r] = <<>> =>
         delivered[r] + 1 <= Count(postLog[r], Decided.Allow)
    /\ pc[r] = "deliver" =>
         /\ needPost[r] => delivered[r] + 1 <= Count(postLog[r], Decided.Allow)
         /\ todo[r] = <<>> => delivered[r] + 1 <= Count(log[r], "effect.chunk_released")
    /\ pc[r] = "outcome" /\ r \in Streaming /\ out[r] = "ok" => delivered[r] > 0
    /\ pc[r] = "finish" /\ r \in Streaming => delivered[r] > 0
    /\ pc[r] = "postAllowed" /\ todo[r] = <<>> => Has(postLog[r], {Decided.Allow})
    /\ pc[r] = "release" =>
         /\ needPost[r] => Has(postLog[r], {Decided.Allow})
         /\ todo[r] = <<>> => LastIs(log[r], "effect.completed")
    /\ result[r] = "released" =>
         /\ pc[r] = "returned" /\ todo[r] = <<>>
         /\ LastIs(log[r], "effect.completed")
         /\ needPost[r] => Has(postLog[r], {Decided.Allow})

(* A closed effect's call has nothing more to say, as long as it owns the  *)
(* journal, and what closed it is its last event.                          *)
CloseOK(r) ==
    /\ \A i \in 1..Len(log[r]) : log[r][i] \in Closing => i = Len(log[r])
    /\ (Has(log[r], Closing) /\ Owned(r)) => todo[r] = <<>> /\ pc[r] \in {"release", "returned"}

CallOK(r) == ScriptOK(r) /\ PhaseOK(r) /\ AuthOK(r) /\ EvidenceOK(r) /\ CloseOK(r)

(* The journal is owned by the newest incarnation or by nobody, and a call *)
(* is executed by an incarnation that has finished its recovery.           *)
OwnersOK ==
    /\ lease # 0 => lease = gens
    /\ \A r \in Requests :
         /\ owner[r] <= gens
         /\ owner[r] = 0 <=> pc[r] = "idle"
         /\ owner[r] # 0 => runtime[owner[r]] \in {"open", "stopped"}

(* An owner that closes has found exactly what is still open; one that     *)
(* serves has left nothing open but its own.                               *)
RecoveryOK ==
    \A g \in 1..MaxGen : FenceOK(g) =>
        /\ runtime[g] = "closing" => \A r \in Requests :
             PendingEffect(log[r]) <=> <<r, Len(log[r])>> \in pending[g]
        /\ runtime[g] = "open" => \A r \in Requests :
             owner[r] # g => ~PendingEffect(log[r])

Inductive ==
    /\ TypeOK
    /\ OwnersOK
    /\ RecoveryOK
    /\ \A r \in Requests : CallOK(r)

-----------------------------------------------------------------------------
(* Kinds of events. *)

LEMMA KindFacts ==
  /\ DOMAIN Decided = {"Allow", "RequireApproval", "Deny"}
  /\ Decided.Allow \notin Closing \cup {"effect.started", "approval.granted", "effect.chunk_released",
                                        Decided.RequireApproval, Decided.Deny}
  /\ Decided.RequireApproval \notin Closing \cup {"effect.started", "approval.granted",
                                                  "effect.chunk_released", Decided.Deny}
  /\ Decided.Deny \notin Closing \cup {"effect.started", "approval.granted", "effect.chunk_released"}
  /\ \A o \in DOMAIN Decided : Decided[o] \in MainKinds /\ Decided[o] \in PostKinds
  /\ \A o \in DOMAIN Decided : Decided[o] \notin Closing \cup {"effect.started", "effect.requested"}
  /\ \A o \in DOMAIN Decided \ {"RequireApproval"} : Decided[o] # Decided.RequireApproval
BY DEF Decided, Closing, Terminal, MainKinds, PostKinds

(* What an append does to the questions asked of a stream. *)
LEMMA AppendFacts ==
  ASSUME NEW S, NEW s \in Seq(S), NEW x \in S
  PROVE  /\ Append(s, x) \in Seq(S)
         /\ Len(Append(s, x)) = Len(s) + 1
         /\ Append(s, x)[Len(s) + 1] = x
         /\ \A i \in 1..Len(s) : Append(s, x)[i] = s[i]
         /\ \A i \in 1..(Len(s) + 1) : i = Len(s) + 1 \/ i \in 1..Len(s)
         /\ Len(s) \in Nat
         /\ LastIs(Append(s, x), x)
BY DEF LastIs

LEMMA HasAppend ==
  ASSUME NEW S, NEW s \in Seq(S), NEW x \in S, NEW K
  PROVE  Has(Append(s, x), K) <=> (Has(s, K) \/ x \in K)
<1>1. ASSUME Has(Append(s, x), K)
      PROVE  Has(s, K) \/ x \in K
  BY <1>1, AppendFacts DEF Has
<1>2. ASSUME Has(s, K)
      PROVE  Has(Append(s, x), K)
  <2>1. PICK i \in 1..Len(s) : s[i] \in K
    BY <1>2 DEF Has
  <2>2. i \in 1..Len(Append(s, x)) /\ Append(s, x)[i] \in K
    BY <2>1, AppendFacts
  <2> QED BY <2>2 DEF Has
<1>3. ASSUME x \in K
      PROVE  Has(Append(s, x), K)
  <2>1. Len(s) + 1 \in 1..Len(Append(s, x)) /\ Append(s, x)[Len(s) + 1] \in K
    BY <1>3, AppendFacts
  <2> QED BY <2>1 DEF Has
<1> QED BY <1>1, <1>2, <1>3

LEMMA CountAppend ==
  ASSUME NEW S, NEW s \in Seq(S), NEW x \in S, NEW k
  PROVE  /\ Count(s, k) \in Nat /\ Count(Append(s, x), k) \in Nat
         /\ Count(Append(s, x), k) >= Count(s, k)
         /\ x = k => Count(Append(s, x), k) = Count(s, k) + 1
<1> DEFINE A == {i \in 1..Len(s) : s[i] = k}
           B == {i \in 1..Len(Append(s, x)) : Append(s, x)[i] = k}
<1>1. IsFiniteSet(A)
  <2>1. Len(s) \in Nat /\ IsFiniteSet(1..Len(s))
    BY FS_Interval
  <2> QED BY <2>1, FS_Subset
<1>2. x = k => B = A \cup {Len(s) + 1}
  BY AppendFacts
<1>3. x # k => B = A
  BY AppendFacts
<1>4. Len(s) + 1 \notin A
  OBVIOUS
<1>5. Cardinality(A) \in Nat
  BY <1>1, FS_CardinalityType
<1>6. x = k => Cardinality(B) = Cardinality(A) + 1
  BY <1>1, <1>2, <1>4, FS_AddElement
<1>7. Cardinality(A) = Count(s, k) /\ Cardinality(B) = Count(Append(s, x), k)
  BY DEF Count
<1>8. x # k => Cardinality(B) = Cardinality(A)
  BY <1>3
<1> HIDE DEF A, B
<1> QED BY <1>5, <1>6, <1>7, <1>8

LEMMA CountNat ==
  ASSUME NEW S, NEW s \in Seq(S), NEW k
  PROVE  Count(s, k) \in Nat
<1>1. Len(s) \in Nat /\ IsFiniteSet(1..Len(s))
  BY FS_Interval
<1>2. IsFiniteSet({i \in 1..Len(s) : s[i] = k})
  BY <1>1, FS_Subset
<1> QED BY <1>2, FS_CardinalityType DEF Count

LEMMA CountHas ==
  ASSUME NEW s, NEW k, Count(s, k) \in Nat, Count(s, k) >= 1
  PROVE  Has(s, {k})
<1>1. CASE {i \in 1..Len(s) : s[i] = k} = {}
  <2>1. Count(s, k) = 0
    BY <1>1, FS_EmptySet DEF Count
  <2> QED BY <2>1
<1>2. CASE {i \in 1..Len(s) : s[i] = k} # {}
  BY <1>2 DEF Has
<1> QED BY <1>1, <1>2

(* An effect recovery finds open is started and not closed at all. *)
LEMMA PendingIsOpen ==
  ASSUME NEW r \in Requests, CallOK(r), log[r] \in Seq(MainKinds), PendingEffect(log[r])
  PROVE  Started(r) /\ ~Has(log[r], Closing) /\ log[r] # <<>>
<1>1. Len(log[r]) \in Nat
  OBVIOUS
<1>2. PICK i \in 1..Len(log[r]) :
        log[r][i] = "effect.started" /\ \A j \in (i + 1)..Len(log[r]) : log[r][j] \notin Terminal
  BY DEF PendingEffect
<1>3. Started(r) /\ log[r] # <<>>
  BY <1>1, <1>2 DEF Started, Has
<1>4. ASSUME NEW j \in 1..Len(log[r]), log[r][j] \in Closing
      PROVE  FALSE
  <2>1. j = Len(log[r])
    BY <1>4 DEF CallOK, CloseOK
  <2>2. log[r][j] # "effect.started"
    BY <1>4 DEF Closing, Terminal
  <2>3. j \in (i + 1)..Len(log[r])
    BY <1>1, <1>2, <2>1, <2>2
  <2>4. log[r][j] = "effect.denied"
    BY <1>2, <1>4, <2>3 DEF Closing
  <2>5. Has(log[r], {"effect.denied"})
    BY <2>4 DEF Has
  <2> QED BY <1>3, <2>5 DEF CallOK, PhaseOK
<1> QED BY <1>3, <1>4 DEF Has

(* What is started and not closed is what recovery finds. *)
LEMMA OpenIsPending ==
  ASSUME NEW s, OpenEffect(s)
  PROVE  PendingEffect(s)
<1>1. PICK i \in 1..Len(s) : s[i] = "effect.started"
  BY DEF OpenEffect, Has
<1>2. \A j \in 1..Len(s) : s[j] \notin Terminal
  BY DEF OpenEffect, Has
<1>3. \A j \in (i + 1)..Len(s) : j \in 1..Len(s)
  BY <1>1
<1> QED BY <1>1, <1>2, <1>3 DEF PendingEffect

-----------------------------------------------------------------------------
(* What steps leave alone. *)

(* The variables of call q that its invariant speaks of. *)
Same(q) ==
    /\ pc'[q] = pc[q] /\ todo'[q] = todo[q] /\ outcome'[q] = outcome[q]
    /\ needPost'[q] = needPost[q] /\ out'[q] = out[q] /\ result'[q] = result[q]
    /\ invoked'[q] = invoked[q] /\ delivered'[q] = delivered[q]

LEMMA Frame ==
  ASSUME NEW q \in Requests, CallOK(q), Same(q), log'[q] = log[q], postLog'[q] = postLog[q],
         Owned(q)' => Owned(q) \/ log[q] = <<>>
  PROVE  CallOK(q)'
<1>1. ScriptOK(q)'
  BY DEF CallOK, ScriptOK, Same, Only
<1>2. PhaseOK(q)'
  BY DEF CallOK, PhaseOK, Same, Started, InTodo
<1>3. AuthOK(q)'
  BY DEF CallOK, AuthOK, Same
<1>4. EvidenceOK(q)'
  BY DEF CallOK, EvidenceOK, Same
<1>5. CloseOK(q)'
  <2>1. log[q] = <<>> => ~Has(log[q], Closing)
    BY DEF Has
  <2> QED BY <2>1 DEF CallOK, CloseOK, Same
<1> QED BY <1>1, <1>2, <1>3, <1>4, <1>5 DEF CallOK

(* A step inside the call r, between its appends. *)
LEMMA CallStep ==
  ASSUME NEW r \in Requests, Inductive, TypeOK', CallOK(r)', pc[r] # "idle", pc'[r] # "idle",
         UNCHANGED <<journalState, owner>>, \A q \in Requests \ {r} : Same(q)
  PROVE  Inductive'
<1>1. ASSUME NEW q \in Requests, q # r
      PROVE  CallOK(q)'
  BY <1>1, Frame DEF Inductive, journalState, Owned, FenceOK
<1>2. OwnersOK'
  BY DEF Inductive, OwnersOK, journalState, Same
<1>3. RecoveryOK'
  BY DEF Inductive, RecoveryOK, journalState, FenceOK
<1> QED BY <1>1, <1>2, <1>3 DEF Inductive

(* A call that goes on is not closed, as far as its owner goes. *)
LEMMA StaysUnclosed ==
  ASSUME NEW r \in Requests, CallOK(r), UNCHANGED <<log, lease, owner>>,
         pc[r] \notin {"release", "returned"} \/ todo[r] # <<>>
  PROVE  CloseOK(r)'
BY DEF CallOK, CloseOK, Owned, FenceOK

(* What Say and SayPost leave to be appended. *)
LEMMA SayFacts ==
  ASSUME TypeOK, NEW r \in Requests, NEW kinds \in Seq(MainKinds), NEW l \in Pcs, Say(r, kinds, l)
  PROVE  /\ todo' \in [Requests -> Seq(Message)] /\ pc' \in [Requests -> Pcs] /\ pc'[r] = l
         /\ Len(todo'[r]) = Len(kinds)
         /\ \A i \in 1..Len(kinds) : todo'[r][i] = <<"main", kinds[i]>>
         /\ \A q \in Requests \ {r} : pc'[q] = pc[q] /\ todo'[q] = todo[q]
<1> DEFINE t == [i \in 1..Len(kinds) |-> <<"main", kinds[i]>>]
<1>1. Len(kinds) \in Nat
  OBVIOUS
<1>2. \A i \in 1..Len(kinds) : <<"main", kinds[i]>> \in Message
  BY DEF Message
<1>3. t \in Seq(Message) /\ Len(t) = Len(kinds)
  BY <1>1, <1>2
<1>4. todo' = [todo EXCEPT ![r] = t] /\ pc' = [pc EXCEPT ![r] = l]
  BY DEF Say, Goto
<1>5. \A i \in 1..Len(kinds) : t[i] = <<"main", kinds[i]>>
  OBVIOUS
<1> HIDE DEF t
<1> QED BY <1>3, <1>4, <1>5 DEF TypeOK

LEMMA SayPostFacts ==
  ASSUME TypeOK, NEW r \in Requests, NEW kinds \in Seq(PostKinds), NEW l \in Pcs, SayPost(r, kinds, l)
  PROVE  /\ todo' \in [Requests -> Seq(Message)] /\ pc' \in [Requests -> Pcs] /\ pc'[r] = l
         /\ Len(todo'[r]) = Len(kinds)
         /\ \A i \in 1..Len(kinds) : todo'[r][i] = <<"post", kinds[i]>>
         /\ \A q \in Requests \ {r} : pc'[q] = pc[q] /\ todo'[q] = todo[q]
<1> DEFINE t == [i \in 1..Len(kinds) |-> <<"post", kinds[i]>>]
<1>1. Len(kinds) \in Nat
  OBVIOUS
<1>2. \A i \in 1..Len(kinds) : <<"post", kinds[i]>> \in Message
  BY DEF Message
<1>3. t \in Seq(Message) /\ Len(t) = Len(kinds)
  BY <1>1, <1>2
<1>4. todo' = [todo EXCEPT ![r] = t] /\ pc' = [pc EXCEPT ![r] = l]
  BY DEF SayPost, Goto
<1>5. \A i \in 1..Len(kinds) : t[i] = <<"post", kinds[i]>>
  OBVIOUS
<1> HIDE DEF t
<1> QED BY <1>3, <1>4, <1>5 DEF TypeOK

(* One event to be appended to the effect's own stream. *)
LEMMA SayOne ==
  ASSUME TypeOK, NEW r \in Requests, NEW k \in MainKinds, NEW l \in Pcs, Say(r, <<k>>, l)
  PROVE  /\ todo' \in [Requests -> Seq(Message)] /\ pc' \in [Requests -> Pcs] /\ pc'[r] = l
         /\ todo'[r] # <<>> /\ Only(todo'[r], <<"main", k>>)
         /\ \A i \in 1..Len(todo'[r]) : todo'[r][i] = <<"main", k>> /\ i = Len(todo'[r])
         /\ \A q \in Requests \ {r} : pc'[q] = pc[q] /\ todo'[q] = todo[q]
<1>1. <<k>> \in Seq(MainKinds) /\ Len(<<k>>) = 1 /\ <<k>>[1] = k
  OBVIOUS
<1>2. /\ todo' \in [Requests -> Seq(Message)] /\ pc' \in [Requests -> Pcs] /\ pc'[r] = l
      /\ Len(todo'[r]) = 1
      /\ \A i \in 1..1 : todo'[r][i] = <<"main", <<k>>[i]>>
      /\ \A q \in Requests \ {r} : pc'[q] = pc[q] /\ todo'[q] = todo[q]
  BY <1>1, SayFacts
<1>3. todo'[r][1] = <<"main", k>>
  BY <1>1, <1>2
<1>4. \A i \in 1..1 : i = 1
  OBVIOUS
<1>5. todo'[r] # <<>>
  <2>1. todo'[r] = <<>> => Len(todo'[r]) = 0
    OBVIOUS
  <2> QED BY <1>2, <2>1
<1>6. \A i \in 1..Len(todo'[r]) : todo'[r][i] = <<"main", k>> /\ i = Len(todo'[r])
  BY <1>2, <1>3, <1>4
<1>7. Only(todo'[r], <<"main", k>>)
  BY <1>2, <1>6 DEF Only
<1> QED BY <1>2, <1>5, <1>6, <1>7

LEMMA SayPostOne ==
  ASSUME TypeOK, NEW r \in Requests, NEW k \in PostKinds, NEW l \in Pcs, SayPost(r, <<k>>, l)
  PROVE  /\ todo' \in [Requests -> Seq(Message)] /\ pc' \in [Requests -> Pcs] /\ pc'[r] = l
         /\ todo'[r] # <<>> /\ Only(todo'[r], <<"post", k>>)
         /\ \A i \in 1..Len(todo'[r]) : todo'[r][i] = <<"post", k>>
         /\ \A q \in Requests \ {r} : pc'[q] = pc[q] /\ todo'[q] = todo[q]
<1>1. <<k>> \in Seq(PostKinds) /\ Len(<<k>>) = 1 /\ <<k>>[1] = k
  OBVIOUS
<1>2. /\ todo' \in [Requests -> Seq(Message)] /\ pc' \in [Requests -> Pcs] /\ pc'[r] = l
      /\ Len(todo'[r]) = 1
      /\ \A i \in 1..1 : todo'[r][i] = <<"post", <<k>>[i]>>
      /\ \A q \in Requests \ {r} : pc'[q] = pc[q] /\ todo'[q] = todo[q]
  BY <1>1, SayPostFacts
<1>3. todo'[r][1] = <<"post", k>>
  BY <1>1, <1>2
<1>4. \A i \in 1..1 : i = 1
  OBVIOUS
<1>5. todo'[r] # <<>>
  <2>1. todo'[r] = <<>> => Len(todo'[r]) = 0
    OBVIOUS
  <2> QED BY <1>2, <2>1
<1>6. \A i \in 1..Len(todo'[r]) : todo'[r][i] = <<"post", k>>
  BY <1>2, <1>3, <1>4
<1>7. Only(todo'[r], <<"post", k>>)
  BY <1>2, <1>6 DEF Only
<1> QED BY <1>2, <1>5, <1>6, <1>7

-----------------------------------------------------------------------------
(* The steps of a call. *)

(* A call returns, with at most what closes it still to be appended. *)
LEMMA Returning ==
  ASSUME NEW r \in Requests, CallOK(r), UNCHANGED <<log, postLog, lease, owner>>,
         (pc[r] # "idle" /\ pc[r] \notin {"release", "returned"}) \/ todo[r] # <<>>,
         pc'[r] = "returned", result'[r] # "released", invoked'[r] = invoked[r],
         delivered'[r] = delivered[r], needPost'[r] = needPost[r], out'[r] = out[r],
         \A i \in 1..Len(todo'[r]) : todo'[r][i][1] = "main" =>
             /\ todo'[r][i][2] \notin {"effect.started", "effect.completed"}
             /\ todo'[r][i][2] \in Closing => i = Len(todo'[r]),
         \A i \in 1..Len(todo'[r]) : todo'[r][i] = <<"main", "effect.denied">> =>
             invoked[r] = 0 /\ ~Started(r)
  PROVE  CallOK(r)'
<1>1. ScriptOK(r)'
  BY DEF ScriptOK
<1>2. PhaseOK(r)'
  BY DEF CallOK, PhaseOK, Started, InTodo, Early, Late, Ended
<1>3. AuthOK(r)'
  BY DEF CallOK, AuthOK
<1>4. EvidenceOK(r)'
  BY DEF CallOK, EvidenceOK, Early
<1>5. CloseOK(r)'
  BY StaysUnclosed
<1> QED BY <1>1, <1>2, <1>3, <1>4, <1>5 DEF CallOK

(* The types of the variables a step of a call leaves alone. *)
LEMMA TypeKept ==
  ASSUME TypeOK, UNCHANGED journalState, owner' = owner,
         pc' \in [Requests -> Pcs], todo' \in [Requests -> Seq(Message)],
         tail' \in [Requests -> Nat], outcome' \in [Requests -> {"none"} \cup DOMAIN Decided],
         needPost' \in [Requests -> BOOLEAN], approved' \in [Requests -> BOOLEAN],
         auto' \in [Requests -> BOOLEAN],
         failure' \in [Requests -> {"none", "failed", "unknown", "denied"}],
         chunks' \in [Requests -> Nat],
         out' \in [Requests -> {"none", "ok", "rejected", "failed", "unknown", "denied"}],
         result' \in [Requests -> {"none", "error", "denied", "unknown", "released"}],
         invoked' \in [Requests -> Nat], delivered' \in [Requests -> Nat]
  PROVE  TypeOK'
BY DEF TypeOK, journalState

(* The variables that a step that ends the call leaves alone. *)
Rest == <<journalState, owner, tail, outcome, needPost, approved, auto, failure, chunks, out,
          invoked, delivered>>

LEMMA ReturnStep ==
  ASSUME Inductive, NEW r \in Requests, NEW v \in {"error", "denied", "unknown"},
         pc[r] \notin {"idle", "release", "returned"}, Result(r, v), UNCHANGED Rest,
         todo' \in [Requests -> Seq(Message)], pc' \in [Requests -> Pcs], pc'[r] = "returned",
         \A q \in Requests \ {r} : pc'[q] = pc[q] /\ todo'[q] = todo[q],
         \A i \in 1..Len(todo'[r]) : todo'[r][i][1] = "main" =>
             /\ todo'[r][i][2] \notin {"effect.started", "effect.completed"}
             /\ todo'[r][i][2] \in Closing => i = Len(todo'[r])
             /\ todo'[r][i][2] = "effect.denied" => pc[r] \in Early
  PROVE  Inductive'
<1>1. TypeOK /\ CallOK(r)
  BY DEF Inductive
<1>2. /\ result'[r] = v /\ \A q \in Requests \ {r} : result'[q] = result[q]
      /\ result' \in [Requests -> {"none", "error", "denied", "unknown", "released"}]
  BY <1>1 DEF Result, TypeOK
<1>3. TypeOK'
  BY <1>1, <1>2, TypeKept DEF Rest, TypeOK
<1>4. \A i \in 1..Len(todo'[r]) : todo'[r][i] = <<"main", "effect.denied">> =>
          invoked[r] = 0 /\ ~Started(r)
  <2>1. pc[r] \in Early => invoked[r] = 0 /\ ~Started(r)
    BY <1>1 DEF CallOK, PhaseOK
  <2> QED BY <2>1
<1>5. CallOK(r)'
  BY <1>1, <1>2, <1>4, Returning DEF Rest, journalState
<1>6. \A q \in Requests \ {r} : Same(q)
  BY <1>2 DEF Rest, Same
<1>7. UNCHANGED <<journalState, owner>>
  BY DEF Rest
<1> QED BY <1>3, <1>5, <1>6, <1>7, CallStep

LEMMA ReturnSaying ==
  ASSUME Inductive, NEW r \in Requests, NEW v \in {"error", "denied", "unknown"},
         pc[r] \notin {"idle", "release", "returned"}, Result(r, v), UNCHANGED Rest,
         NEW kinds \in Seq(MainKinds), Say(r, kinds, "returned"),
         \A i \in 1..Len(kinds) :
             /\ kinds[i] \notin {"effect.started", "effect.completed"}
             /\ kinds[i] \in Closing => i = Len(kinds)
             /\ kinds[i] = "effect.denied" => pc[r] \in Early
  PROVE  Inductive'
<1>1. TypeOK /\ "returned" \in Pcs
  BY DEF Inductive, Pcs
<1>2. /\ todo' \in [Requests -> Seq(Message)] /\ pc' \in [Requests -> Pcs] /\ pc'[r] = "returned"
      /\ Len(todo'[r]) = Len(kinds)
      /\ \A i \in 1..Len(kinds) : todo'[r][i] = <<"main", kinds[i]>>
      /\ \A q \in Requests \ {r} : pc'[q] = pc[q] /\ todo'[q] = todo[q]
  BY <1>1, SayFacts
<1>3. \A i \in 1..Len(todo'[r]) : todo'[r][i][2] = kinds[i]
  BY <1>2
<1> QED BY <1>2, <1>3, ReturnStep

LEMMA ReturnSayingOne ==
  ASSUME Inductive, NEW r \in Requests, NEW v \in {"error", "denied", "unknown"},
         pc[r] \notin {"idle", "release", "returned"}, Result(r, v), UNCHANGED Rest,
         NEW k \in MainKinds, Say(r, <<k>>, "returned"), k \notin {"effect.started", "effect.completed"},
         k = "effect.denied" => pc[r] \in Early
  PROVE  Inductive'
<1>1. <<k>> \in Seq(MainKinds) /\ Len(<<k>>) = 1 /\ \A i \in 1..1 : i = 1 /\ <<k>>[i] = k
  OBVIOUS
<1> QED BY <1>1, ReturnSaying

LEMMA ReturnSayingPost ==
  ASSUME Inductive, NEW r \in Requests, NEW v \in {"error", "denied", "unknown"},
         pc[r] \notin {"idle", "release", "returned"}, Result(r, v), UNCHANGED Rest,
         NEW kinds \in Seq(PostKinds), SayPost(r, kinds, "returned")
  PROVE  Inductive'
<1>1. TypeOK /\ "returned" \in Pcs
  BY DEF Inductive, Pcs
<1>2. /\ todo' \in [Requests -> Seq(Message)] /\ pc' \in [Requests -> Pcs] /\ pc'[r] = "returned"
      /\ Len(todo'[r]) = Len(kinds)
      /\ \A i \in 1..Len(kinds) : todo'[r][i] = <<"post", kinds[i]>>
      /\ \A q \in Requests \ {r} : pc'[q] = pc[q] /\ todo'[q] = todo[q]
  BY <1>1, SayPostFacts
<1>3. \A i \in 1..Len(todo'[r]) : todo'[r][i][1] # "main"
  BY <1>2
<1> QED BY <1>2, <1>3, ReturnStep

LEMMA ReturnSilently ==
  ASSUME Inductive, NEW r \in Requests, NEW v \in {"error", "denied", "unknown"},
         pc[r] \notin {"idle", "release", "returned"}, Result(r, v), UNCHANGED Rest,
         todo[r] = <<>>, Goto(r, "returned"), UNCHANGED todo
  PROVE  Inductive'
<1>1. TypeOK
  BY DEF Inductive
<1>2. /\ todo' \in [Requests -> Seq(Message)] /\ pc' \in [Requests -> Pcs] /\ pc'[r] = "returned"
      /\ todo'[r] = <<>>
      /\ \A q \in Requests \ {r} : pc'[q] = pc[q] /\ todo'[q] = todo[q]
  BY <1>1 DEF TypeOK, Goto, Pcs
<1>3. \A i \in 1..Len(todo'[r]) : FALSE
  BY <1>2
<1> QED BY <1>2, <1>3, ReturnStep

LEMMA PrepareStep ==
  ASSUME Inductive, NEW r \in Requests, Prepare(r)
  PROVE  Inductive'
<1>1. TypeOK /\ CallOK(r) /\ pc[r] = "prepare" /\ todo[r] = <<>> /\ UNCHANGED Rest
  BY DEF Inductive, Prepare, At, Rest
<1>2. CASE Goto(r, "decide") /\ UNCHANGED <<todo, result>>
  <2>1. TypeOK' /\ pc'[r] = "decide" /\ \A q \in Requests \ {r} : Same(q)
    BY <1>1, <1>2 DEF Rest, TypeOK, journalState, Goto, Pcs, Same
  <2>2. ScriptOK(r)'
    BY <1>1, <1>2, <2>1 DEF ScriptOK, Only
  <2>3. PhaseOK(r)'
    BY <1>1, <1>2, <2>1 DEF CallOK, PhaseOK, Rest, journalState, Started, InTodo, Early, Late, Ended
  <2>4. AuthOK(r)'
    BY <1>1, <1>2, <2>1 DEF CallOK, AuthOK, Rest, journalState
  <2>5. EvidenceOK(r)'
    BY <1>1, <1>2, <2>1 DEF CallOK, EvidenceOK, Rest, journalState, Early
  <2>6. CloseOK(r)'
    BY <1>1, StaysUnclosed DEF Rest, journalState
  <2> QED BY <1>1, <2>1, <2>2, <2>3, <2>4, <2>5, <2>6, CallStep DEF CallOK, Rest
<1>3. CASE Say(r, <<"effect.denied">>, "returned") /\ Result(r, "error")
  <2>1. "effect.denied" \in MainKinds
    BY DEF MainKinds
  <2> QED BY <1>1, <1>3, <2>1, ReturnSayingOne DEF Early
<1> QED BY <1>2, <1>3 DEF Prepare

LEMMA DecideStep ==
  ASSUME Inductive, NEW r \in Requests, Decide(r)
  PROVE  Inductive'
<1>1. TypeOK /\ CallOK(r) /\ pc[r] = "decide" /\ todo[r] = <<>>
  BY DEF Inductive, Decide, At
<1>2. CASE Say(r, PolicyFailure, "returned") /\ Result(r, "error") /\ UNCHANGED <<outcome, needPost>>
  <2>1. /\ PolicyFailure \in Seq(MainKinds) /\ Len(PolicyFailure) = 2
        /\ PolicyFailure[1] = "policy.error"
    BY DEF MainKinds, PolicyFailure
  <2>2. PolicyFailure[2] = "effect.denied" /\ "policy.error" \notin Closing
    BY DEF PolicyFailure, Closing, Terminal
  <2>3. UNCHANGED Rest
    BY <1>2 DEF Decide, Rest
  <2>4. \A i \in 1..Len(PolicyFailure) : i = 1 \/ i = 2
    BY <2>1
  <2> QED BY <1>1, <1>2, <2>1, <2>2, <2>3, <2>4, ReturnSaying DEF Early
<1>3. ASSUME NEW o \in DOMAIN Decided, NEW p \in BOOLEAN,
             outcome' = [outcome EXCEPT ![r] = o], needPost' = [needPost EXCEPT ![r] = p],
             Say(r, <<Decided[o]>>, "decided"), UNCHANGED result
      PROVE  Inductive'
  <2>1. Decided[o] \in MainKinds /\ "decided" \in Pcs
    BY KindFacts DEF Pcs
  <2>2. /\ todo' \in [Requests -> Seq(Message)] /\ pc' \in [Requests -> Pcs] /\ pc'[r] = "decided"
        /\ todo'[r] # <<>> /\ Only(todo'[r], <<"main", Decided[o]>>)
        /\ \A i \in 1..Len(todo'[r]) : todo'[r][i] = <<"main", Decided[o]>>
        /\ \A q \in Requests \ {r} : pc'[q] = pc[q] /\ todo'[q] = todo[q]
    BY <1>1, <1>3, <2>1, SayOne
  <2>3. /\ outcome'[r] = o /\ needPost'[r] = p
        /\ outcome' \in [Requests -> {"none"} \cup DOMAIN Decided] /\ needPost' \in [Requests -> BOOLEAN]
        /\ \A q \in Requests \ {r} : outcome'[q] = outcome[q] /\ needPost'[q] = needPost[q]
    BY <1>1, <1>3 DEF TypeOK
  <2>4. TypeOK' /\ \A q \in Requests \ {r} : Same(q)
    BY <1>1, <1>3, <2>2, <2>3, TypeKept DEF Decide, TypeOK, Same
  <2>5. ScriptOK(r)'
    <3>1. o # "none"
      BY KindFacts
    <3> QED BY <2>2, <2>3, <3>1 DEF ScriptOK
  <2>6. PhaseOK(r)'
    <3>1. <<"main", Decided[o]>> # <<"main", "effect.denied">>
      BY KindFacts DEF Closing
    <3>2. ~InTodo(r, "effect.denied")'
      BY <2>2, <3>1 DEF InTodo
    <3> QED BY <1>1, <1>3, <2>2, <3>2 DEF CallOK, PhaseOK, Decide, journalState, Started, Early, Late, Ended
  <2>7. AuthOK(r)'
    BY <1>1, <2>2 DEF CallOK, AuthOK, Decide, journalState
  <2>8. EvidenceOK(r)'
    <3>1. Count(postLog[r], Decided.Allow) \in Nat
      <4>1. postLog[r] \in Seq(PostKinds)
        BY <1>1 DEF TypeOK
      <4> QED BY <4>1, CountNat
    <3> QED BY <1>1, <1>3, <2>2, <3>1 DEF CallOK, EvidenceOK, Decide, journalState, Early
  <2>9. CloseOK(r)'
    BY <1>1, StaysUnclosed DEF Decide, journalState
  <2> QED BY <1>1, <2>2, <2>4, <2>5, <2>6, <2>7, <2>8, <2>9, CallStep DEF CallOK, Decide
<1> QED BY <1>2, <1>3 DEF Decide

LEMMA ApproveStep ==
  ASSUME Inductive, NEW r \in Requests, Approve(r)
  PROVE  Inductive'
<1>1. TypeOK /\ CallOK(r) /\ pc[r] = "asking" /\ todo[r] = <<>>
  BY DEF Inductive, Approve, At, Rest
<1>2. Inductive'
  <2>1. "approval.granted" \in MainKinds /\ "decide" \in Pcs
    BY DEF MainKinds, Pcs
  <2>2. /\ todo' \in [Requests -> Seq(Message)] /\ pc' \in [Requests -> Pcs] /\ pc'[r] = "decide"
        /\ todo'[r] # <<>> /\ Only(todo'[r], <<"main", "approval.granted">>)
        /\ \A i \in 1..Len(todo'[r]) : todo'[r][i] = <<"main", "approval.granted">>
        /\ \A q \in Requests \ {r} : pc'[q] = pc[q] /\ todo'[q] = todo[q]
    BY <1>1, <2>1, SayOne DEF Approve
  <2>3. /\ approved' \in [Requests -> BOOLEAN]
        /\ \A q \in Requests \ {r} : approved'[q] = approved[q]
    BY <1>1 DEF Approve, TypeOK, SinkFails, Result
  <2>4. TypeOK' /\ \A q \in Requests \ {r} : Same(q)
    BY <1>1, <2>2, <2>3, TypeKept DEF Approve, TypeOK, Same
  <2>5. ScriptOK(r)'
    BY <1>1, <2>2, <2>3 DEF ScriptOK, Approve
  <2>6. ~InTodo(r, "effect.denied")'
    BY <2>2 DEF InTodo, Closing
  <2>7. PhaseOK(r)'
    BY <1>1, <2>2, <2>3, <2>6 DEF CallOK, PhaseOK, Approve, journalState, Started, Early, Late, Ended
  <2>8. AuthOK(r)'
    BY <1>1, <2>2, <2>3 DEF CallOK, AuthOK, Approve, journalState
  <2>9. EvidenceOK(r)'
    BY <1>1, <2>2, <2>3 DEF CallOK, EvidenceOK, Approve, journalState, Early
  <2>10. CloseOK(r)'
    BY <1>1, StaysUnclosed DEF Approve, journalState
  <2> QED BY <1>1, <2>2, <2>4, <2>5, <2>7, <2>8, <2>9, <2>10, CallStep DEF CallOK, Approve
<1> QED BY <1>2

LEMMA DenyStep ==
  ASSUME Inductive, NEW r \in Requests, Deny(r)
  PROVE  Inductive'
<1>1. TypeOK /\ CallOK(r) /\ pc[r] = "decided" /\ todo[r] = <<>>
  BY DEF Inductive, Deny, At, Rest
<1>2. "effect.denied" \in MainKinds /\ Result(r, "denied") /\ UNCHANGED Rest
  BY DEF MainKinds, Deny, Rest
<1> QED BY <1>1, <1>2, ReturnSayingOne DEF Early, Deny

LEMMA DisapproveStep ==
  ASSUME Inductive, NEW r \in Requests, Disapprove(r)
  PROVE  Inductive'
<1>1. TypeOK /\ CallOK(r) /\ pc[r] = "asking" /\ todo[r] = <<>>
  BY DEF Inductive, Disapprove, At, Rest
<1>2. Result(r, "error") /\ UNCHANGED Rest
  BY DEF Disapprove, Rest
<1>3. ASSUME NEW k \in {"approval.denied", "approval.error"}, Say(r, <<k, "effect.denied">>, "returned")
      PROVE  Inductive'
  <2>1. /\ <<k, "effect.denied">> \in Seq(MainKinds) /\ Len(<<k, "effect.denied">>) = 2
        /\ <<k, "effect.denied">>[1] = k /\ <<k, "effect.denied">>[2] = "effect.denied"
    BY DEF MainKinds
  <2>2. k \notin Closing \cup {"effect.started", "effect.completed", "effect.denied"}
    BY DEF Closing, Terminal
  <2>3. \A i \in 1..2 : i = 1 \/ i = 2
    OBVIOUS
  <2> QED BY <1>1, <1>2, <1>3, <2>1, <2>2, <2>3, ReturnSaying DEF Early
<1>4. ASSUME Say(r, <<>>, "returned")
      PROVE  Inductive'
  <2>1. <<>> \in Seq(MainKinds) /\ Len(<<>>) = 0 /\ \A i \in 1..0 : FALSE
    OBVIOUS
  <2> QED BY <1>1, <1>2, <1>4, <2>1, ReturnSaying
<1> QED BY <1>3, <1>4 DEF Disapprove

LEMMA StartStep ==
  ASSUME Inductive, NEW r \in Requests, Start(r)
  PROVE  Inductive'
<1>1. TypeOK /\ CallOK(r) /\ pc[r] = "decided" /\ todo[r] = <<>>
  BY DEF Inductive, Start, At, Rest
<1>2. CASE Say(r, <<"effect.started">>, "started") /\ UNCHANGED result
  <2>1. "effect.started" \in MainKinds /\ "started" \in Pcs
    BY DEF MainKinds, Pcs
  <2>2. /\ todo' \in [Requests -> Seq(Message)] /\ pc' \in [Requests -> Pcs] /\ pc'[r] = "started"
        /\ todo'[r] # <<>> /\ Only(todo'[r], <<"main", "effect.started">>)
        /\ \A i \in 1..Len(todo'[r]) : todo'[r][i] = <<"main", "effect.started">>
        /\ \A q \in Requests \ {r} : pc'[q] = pc[q] /\ todo'[q] = todo[q]
    BY <1>1, <1>2, <2>1, SayOne DEF Start
  <2>4. TypeOK' /\ \A q \in Requests \ {r} : Same(q)
    BY <1>1, <1>2, <2>2, TypeKept DEF Start, TypeOK, Same
  <2>5. ScriptOK(r)'
    BY <1>1, <1>2, <2>2 DEF ScriptOK, Start
  <2>6. ~InTodo(r, "effect.denied")'
    BY <2>2 DEF InTodo, Closing
  <2>7. PhaseOK(r)'
    BY <1>1, <1>2, <2>2, <2>6 DEF CallOK, PhaseOK, Start, journalState, Started, Early, Late, Ended
  <2>8. AuthOK(r)'
    BY <1>1, <1>2, <2>2 DEF CallOK, AuthOK, Start, journalState
  <2>9. EvidenceOK(r)'
    BY <1>1, <1>2, <2>2 DEF CallOK, EvidenceOK, Start, journalState, Early
  <2>10. CloseOK(r)'
    BY <1>1, <1>2, StaysUnclosed DEF Start, journalState
  <2> QED BY <1>1, <1>2, <2>2, <2>4, <2>5, <2>7, <2>8, <2>9, <2>10, CallStep DEF CallOK, Start
<1>3. CASE Goto(r, "returned") /\ Result(r, "error") /\ UNCHANGED todo
  <2>1. UNCHANGED Rest
    BY DEF Start, Rest
  <2> QED BY <1>1, <1>3, <2>1, ReturnSilently
<1> QED BY <1>2, <1>3 DEF Start

LEMMA VerifyStartedOwnerStep ==
  ASSUME Inductive, NEW r \in Requests, VerifyStartedOwner(r)
  PROVE  Inductive'
<1>1. TypeOK /\ CallOK(r) /\ pc[r] = "started" /\ todo[r] = <<>>
  BY DEF Inductive, VerifyStartedOwner, At, Rest
<1>2. CASE Goto(r, "launch") /\ UNCHANGED <<todo, result>>
  <2>2. /\ todo' \in [Requests -> Seq(Message)] /\ pc' \in [Requests -> Pcs] /\ pc'[r] = "launch"
        /\ todo'[r] = <<>>
        /\ \A q \in Requests \ {r} : pc'[q] = pc[q] /\ todo'[q] = todo[q]
    BY <1>1, <1>2 DEF VerifyStartedOwner, Goto, TypeOK, Pcs, SinkFails
  <2>4. TypeOK' /\ \A q \in Requests \ {r} : Same(q)
    BY <1>1, <1>2, <2>2, TypeKept DEF VerifyStartedOwner, TypeOK, Same
  <2>5. ScriptOK(r)'
    BY <1>1, <1>2, <2>2 DEF ScriptOK, VerifyStartedOwner, Only
  <2>7. PhaseOK(r)'
    BY <1>1, <1>2, <2>2 DEF CallOK, PhaseOK, VerifyStartedOwner, journalState, Started, InTodo, Early, Late, Ended
  <2>8. AuthOK(r)'
    BY <1>1, <1>2, <2>2 DEF CallOK, AuthOK, VerifyStartedOwner, journalState
  <2>9. EvidenceOK(r)'
    BY <1>1, <1>2, <2>2 DEF CallOK, EvidenceOK, VerifyStartedOwner, journalState, Early
  <2>10. CloseOK(r)'
    BY <1>1, <1>2, StaysUnclosed DEF VerifyStartedOwner, journalState
  <2> QED BY <1>1, <1>2, <2>2, <2>4, <2>5, <2>7, <2>8, <2>9, <2>10, CallStep DEF CallOK, VerifyStartedOwner
<1>3. CASE Unknown(r)
  <2>1. UNCHANGED Rest
    BY DEF VerifyStartedOwner, Rest
  <2> QED BY <1>1, <1>3, <2>1, ReturnSilently DEF Unknown
<1> QED BY <1>2, <1>3 DEF VerifyStartedOwner

LEMMA LaunchStep ==
  ASSUME Inductive, NEW r \in Requests, Launch(r)
  PROVE  Inductive'
<1>1. TypeOK /\ CallOK(r) /\ pc[r] = "launch" /\ todo[r] = <<>>
  BY DEF Inductive, Launch, At, Rest
<1>2. Inductive'
  <2>2. /\ todo' \in [Requests -> Seq(Message)] /\ pc' \in [Requests -> Pcs] /\ pc'[r] = "executing"
        /\ todo'[r] = <<>>
        /\ \A q \in Requests \ {r} : pc'[q] = pc[q] /\ todo'[q] = todo[q]
    BY <1>1 DEF Launch, Goto, TypeOK, Pcs, SinkFails
  <2>3. /\ invoked' \in [Requests -> Nat] /\ invoked'[r] = invoked[r] + 1
        /\ \A q \in Requests \ {r} : invoked'[q] = invoked[q]
    BY <1>1 DEF Launch, TypeOK, SinkFails, Result
  <2>4. TypeOK' /\ \A q \in Requests \ {r} : Same(q)
    BY <1>1, <2>2, <2>3, TypeKept DEF Launch, TypeOK, Same
  <2>5. ScriptOK(r)'
    BY <1>1, <2>2, <2>3 DEF ScriptOK, Launch, Only
  <2>7. PhaseOK(r)'
    BY <1>1, <2>2, <2>3 DEF CallOK, PhaseOK, Launch, journalState, Started, InTodo, Early, Late, Ended
  <2>8. AuthOK(r)'
    BY <1>1, <2>2, <2>3 DEF CallOK, AuthOK, Launch, journalState
  <2>9. EvidenceOK(r)'
    BY <1>1, <2>2, <2>3 DEF CallOK, EvidenceOK, Launch, journalState, Early
  <2>10. CloseOK(r)'
    BY <1>1, StaysUnclosed DEF Launch, journalState
  <2> QED BY <1>1, <2>2, <2>4, <2>5, <2>7, <2>8, <2>9, <2>10, CallStep DEF CallOK, Launch
<1> QED BY <1>2

LEMMA RequestApprovalStep ==
  ASSUME Inductive, NEW r \in Requests, RequestApproval(r)
  PROVE  Inductive'
<1>1. TypeOK /\ CallOK(r) /\ pc[r] = "decided" /\ todo[r] = <<>>
  BY DEF Inductive, RequestApproval, At, Rest
<1>2. PICK review \in RiskReview : Say(r, CommandContext(r) \o review, "asking")
  BY DEF RequestApproval
<1>3. PICK kinds : kinds = CommandContext(r) \o review
  OBVIOUS
<1>4. /\ kinds \in Seq(MainKinds) /\ Len(kinds) \in Nat
      /\ \A i \in 1..Len(kinds) : kinds[i] \notin Closing \cup {"effect.started", "effect.denied"}
  <2> DEFINE Notes == {"approval.requested", "risk.review.ineligible", "risk.review.requested",
                       "risk.review.unavailable", "risk.review.completed"}
  <2>1. CommandContext(r) \in Seq(Notes) /\ review \in Seq(Notes)
    <3>1. <<>> \in Seq(Notes) /\ <<"approval.requested">> \in Seq(Notes)
      OBVIOUS
    <3>2. /\ <<"risk.review.ineligible">> \in Seq(Notes)
          /\ <<"risk.review.requested", "risk.review.unavailable">> \in Seq(Notes)
          /\ <<"risk.review.requested", "risk.review.completed">> \in Seq(Notes)
      OBVIOUS
    <3>3. CommandContext(r) \in Seq(Notes)
      BY <3>1 DEF CommandContext
    <3>4. review \in Seq(Notes)
      BY <3>1, <3>2 DEF RiskReview
    <3> QED BY <3>3, <3>4
  <2>2. Notes \subseteq MainKinds
    BY DEF MainKinds
  <2>3. \A k \in Notes : k \notin Closing \cup {"effect.started", "effect.denied"}
    BY DEF Closing, Terminal
  <2> HIDE DEF Notes
  <2>4. kinds \in Seq(Notes)
    BY <1>3, <2>1
  <2>5. Len(kinds) \in Nat /\ \A i \in 1..Len(kinds) : kinds[i] \in Notes
    BY <2>4
  <2>6. kinds \in Seq(MainKinds)
    BY <2>2, <2>4, <2>5
  <2> QED BY <2>3, <2>5, <2>6
<1>5. Say(r, kinds, "asking")
  BY <1>2, <1>3
<1>6. Inductive'
  <2>1. "asking" \in Pcs
    BY DEF Pcs
  <2>2. /\ todo' \in [Requests -> Seq(Message)] /\ pc' \in [Requests -> Pcs] /\ pc'[r] = "asking"
        /\ Len(todo'[r]) = Len(kinds)
        /\ \A i \in 1..Len(kinds) : todo'[r][i] = <<"main", kinds[i]>>
        /\ \A q \in Requests \ {r} : pc'[q] = pc[q] /\ todo'[q] = todo[q]
    BY <1>1, <1>4, <1>5, <2>1, SayFacts
  <2>3. /\ auto' \in [Requests -> BOOLEAN]
        /\ \A q \in Requests \ {r} : auto'[q] = auto[q]
    BY <1>1 DEF RequestApproval, TypeOK, SinkFails, Result
  <2>4. TypeOK' /\ \A q \in Requests \ {r} : Same(q)
    BY <1>1, <2>2, <2>3, TypeKept DEF RequestApproval, TypeOK, Same
  <2>5. ScriptOK(r)'
    BY <1>1, <2>2, <2>3, <1>4 DEF ScriptOK, RequestApproval
  <2>6. ~InTodo(r, "effect.denied")'
    BY <1>4, <2>2 DEF InTodo
  <2>7. PhaseOK(r)'
    BY <1>1, <2>2, <2>3, <2>6 DEF CallOK, PhaseOK, RequestApproval, journalState, Started, Early, Late, Ended
  <2>8. AuthOK(r)'
    BY <1>1, <2>2, <2>3 DEF CallOK, AuthOK, RequestApproval, journalState
  <2>9. EvidenceOK(r)'
    BY <1>1, <2>2, <2>3 DEF CallOK, EvidenceOK, RequestApproval, journalState, Early
  <2>10. CloseOK(r)'
    BY <1>1, StaysUnclosed DEF RequestApproval, journalState
  <2> QED BY <1>1, <2>2, <2>4, <2>5, <2>7, <2>8, <2>9, <2>10, CallStep DEF CallOK, RequestApproval
<1> QED BY <1>6

LEMMA AdapterReturnsStep ==
  ASSUME Inductive, NEW r \in Requests, AdapterReturns(r)
  PROVE  Inductive'
<1>1. TypeOK /\ CallOK(r) /\ pc[r] = "executing" /\ todo[r] = <<>>
  BY DEF Inductive, AdapterReturns, At, Rest
<1>2. PICK o \in Outcomes(r) : out' = [out EXCEPT ![r] = o]
  BY DEF AdapterReturns
<1>3. /\ o \in {"ok", "rejected", "failed", "unknown", "denied"}
      /\ r \in Streaming /\ o = "ok" => delivered[r] > 0
  <2>1. failure[r] \in {"none", "failed", "unknown", "denied"} /\ delivered[r] \in Nat
    BY <1>1 DEF TypeOK
  <2> QED BY <1>2, <2>1 DEF Outcomes
<1>4. Inductive'
  <2>2. /\ todo' \in [Requests -> Seq(Message)] /\ pc' \in [Requests -> Pcs] /\ pc'[r] = "outcome"
        /\ todo'[r] = <<>>
        /\ \A q \in Requests \ {r} : pc'[q] = pc[q] /\ todo'[q] = todo[q]
    BY <1>1, <1>2, <1>3 DEF AdapterReturns, Goto, TypeOK, Pcs, SinkFails
  <2>3. /\ out' \in [Requests -> {"none", "ok", "rejected", "failed", "unknown", "denied"}] /\ out'[r] = o
        /\ \A q \in Requests \ {r} : out'[q] = out[q]
    BY <1>1, <1>2, <1>3 DEF AdapterReturns, TypeOK, SinkFails, Result
  <2>4. TypeOK' /\ \A q \in Requests \ {r} : Same(q)
    BY <1>1, <1>2, <1>3, <2>2, <2>3, TypeKept DEF AdapterReturns, TypeOK, Same
  <2>5. ScriptOK(r)'
    BY <1>1, <1>2, <1>3, <2>2, <2>3 DEF ScriptOK, AdapterReturns, Only
  <2>7. PhaseOK(r)'
    BY <1>1, <1>2, <1>3, <2>2, <2>3 DEF CallOK, PhaseOK, AdapterReturns, journalState, Started, InTodo, Early, Late, Ended
  <2>8. AuthOK(r)'
    BY <1>1, <1>2, <1>3, <2>2, <2>3 DEF CallOK, AuthOK, AdapterReturns, journalState
  <2>9. EvidenceOK(r)'
    BY <1>1, <1>2, <1>3, <2>2, <2>3 DEF CallOK, EvidenceOK, AdapterReturns, journalState, Early
  <2>10. CloseOK(r)'
    BY <1>1, <1>2, <1>3, StaysUnclosed DEF AdapterReturns, journalState
  <2> QED BY <1>1, <1>2, <1>3, <2>2, <2>4, <2>5, <2>7, <2>8, <2>9, <2>10, CallStep DEF CallOK, AdapterReturns
<1> QED BY <1>4

LEMMA AbandonStep ==
  ASSUME Inductive, NEW r \in Requests, Abandon(r)
  PROVE  Inductive'
<1>1. TypeOK /\ CallOK(r) /\ pc[r] \in {"executing", "chunkDecide", "deliver"} /\ todo[r] = <<>>
  BY DEF Inductive, Abandon, At
<1>2. Inductive'
  <2>2. /\ todo' \in [Requests -> Seq(Message)] /\ pc' \in [Requests -> Pcs] /\ pc'[r] = "outcome"
        /\ todo'[r] = <<>>
        /\ \A q \in Requests \ {r} : pc'[q] = pc[q] /\ todo'[q] = todo[q]
    BY <1>1 DEF Abandon, Goto, TypeOK, Pcs, SinkFails
  <2>3. /\ out' \in [Requests -> {"none", "ok", "rejected", "failed", "unknown", "denied"}] /\ out'[r] = "unknown"
        /\ \A q \in Requests \ {r} : out'[q] = out[q]
    BY <1>1 DEF Abandon, TypeOK, SinkFails, Result
  <2>4. TypeOK' /\ \A q \in Requests \ {r} : Same(q)
    BY <1>1, <2>2, <2>3, TypeKept DEF Abandon, TypeOK, Same
  <2>5. ScriptOK(r)'
    BY <1>1, <2>2, <2>3 DEF ScriptOK, Abandon, Only
  <2>7. PhaseOK(r)'
    BY <1>1, <2>2, <2>3 DEF CallOK, PhaseOK, Abandon, journalState, Started, InTodo, Early, Late, Ended
  <2>8. AuthOK(r)'
    BY <1>1, <2>2, <2>3 DEF CallOK, AuthOK, Abandon, journalState
  <2>9. EvidenceOK(r)'
    BY <1>1, <2>2, <2>3 DEF CallOK, EvidenceOK, Abandon, journalState, Early
  <2>10. CloseOK(r)'
    BY <1>1, StaysUnclosed DEF Abandon, journalState
  <2> QED BY <1>1, <2>2, <2>4, <2>5, <2>7, <2>8, <2>9, <2>10, CallStep DEF CallOK, Abandon
<1> QED BY <1>2

LEMMA OutcomeStep ==
  ASSUME Inductive, NEW r \in Requests, Outcome(r)
  PROVE  Inductive'
<1>1. TypeOK /\ CallOK(r) /\ pc[r] = "outcome" /\ todo[r] = <<>> /\ UNCHANGED Rest
  BY DEF Inductive, Outcome, At, Rest
<1>2. CASE Unknown(r)
  BY <1>1, <1>2, ReturnSilently DEF Unknown
<1>3. CASE out[r] = "ok" /\ Goto(r, "finish") /\ UNCHANGED <<todo, result>>
  <2>2. /\ todo' \in [Requests -> Seq(Message)] /\ pc' \in [Requests -> Pcs] /\ pc'[r] = "finish"
        /\ todo'[r] = <<>>
        /\ \A q \in Requests \ {r} : pc'[q] = pc[q] /\ todo'[q] = todo[q]
    BY <1>1, <1>3 DEF Outcome, Goto, TypeOK, Pcs, SinkFails
  <2>4. TypeOK' /\ \A q \in Requests \ {r} : Same(q)
    BY <1>1, <1>3, <2>2, TypeKept DEF Outcome, TypeOK, Same
  <2>5. ScriptOK(r)'
    BY <1>1, <1>3, <2>2 DEF ScriptOK, Outcome, Only
  <2>7. PhaseOK(r)'
    BY <1>1, <1>3, <2>2 DEF CallOK, PhaseOK, Outcome, journalState, Started, InTodo, Early, Late, Ended
  <2>8. AuthOK(r)'
    BY <1>1, <1>3, <2>2 DEF CallOK, AuthOK, Outcome, journalState
  <2>9. EvidenceOK(r)'
    BY <1>1, <1>3, <2>2 DEF CallOK, EvidenceOK, Outcome, journalState, Early
  <2>10. CloseOK(r)'
    BY <1>1, <1>3, StaysUnclosed DEF Outcome, journalState
  <2> QED BY <1>1, <1>3, <2>2, <2>4, <2>5, <2>7, <2>8, <2>9, <2>10, CallStep DEF CallOK, Outcome
<1>4. CASE Say(r, <<"effect.failed">>, "returned") /\ Result(r, "error")
  <2>1. "effect.failed" \in MainKinds
    BY DEF MainKinds
  <2> QED BY <1>1, <1>4, <2>1, ReturnSayingOne
<1>5. CASE Say(r, <<"effect.outcome_unknown">>, "returned") /\ Result(r, "unknown")
  <2>1. "effect.outcome_unknown" \in MainKinds
    BY DEF MainKinds
  <2> QED BY <1>1, <1>5, <2>1, ReturnSayingOne
<1>6. CASE Goto(r, "returned") /\ Result(r, "denied") /\ UNCHANGED todo
  BY <1>1, <1>6, ReturnSilently
<1> QED BY <1>2, <1>3, <1>4, <1>5, <1>6 DEF Outcome

LEMMA CompleteStep ==
  ASSUME Inductive, NEW r \in Requests, Complete(r)
  PROVE  Inductive'
<1>1. TypeOK /\ CallOK(r) /\ pc[r] = "finish" /\ todo[r] = <<>>
  BY DEF Inductive, Complete, At, Rest
<1>2. needPost[r] => Has(postLog[r], {Decided.Allow})
  <2>1. ASSUME needPost[r]
        PROVE  Count(postLog[r], Decided.Allow) \in Nat /\ Count(postLog[r], Decided.Allow) >= 1
    <3>1. postLog[r] \in Seq(PostKinds) /\ delivered[r] \in Nat
      BY <1>1 DEF TypeOK
    <3>2. Count(postLog[r], Decided.Allow) \in Nat
      BY <3>1, CountNat
    <3>3. delivered[r] > 0 /\ delivered[r] <= Count(postLog[r], Decided.Allow)
      BY <1>1, <2>1 DEF CallOK, EvidenceOK, Complete
    <3> QED BY <3>1, <3>2, <3>3
  <2> QED BY <2>1, CountHas
<1>3. Inductive'
  <2>1. "effect.completed" \in MainKinds /\ "release" \in Pcs
    BY DEF MainKinds, Pcs
  <2>2. /\ todo' \in [Requests -> Seq(Message)] /\ pc' \in [Requests -> Pcs] /\ pc'[r] = "release"
        /\ todo'[r] # <<>> /\ Only(todo'[r], <<"main", "effect.completed">>)
        /\ \A i \in 1..Len(todo'[r]) : todo'[r][i] = <<"main", "effect.completed">>
        /\ \A q \in Requests \ {r} : pc'[q] = pc[q] /\ todo'[q] = todo[q]
    BY <1>1, <1>2, <2>1, SayOne DEF Complete
  <2>4. TypeOK' /\ \A q \in Requests \ {r} : Same(q)
    BY <1>1, <1>2, <2>2, TypeKept DEF Complete, TypeOK, Same
  <2>5. ScriptOK(r)'
    BY <1>1, <1>2, <2>2 DEF ScriptOK, Complete
  <2>6. ~InTodo(r, "effect.denied")'
    BY <2>2 DEF InTodo, Closing
  <2>7. PhaseOK(r)'
    BY <1>1, <1>2, <2>2, <2>6 DEF CallOK, PhaseOK, Complete, journalState, Started, Early, Late, Ended
  <2>8. AuthOK(r)'
    BY <1>1, <1>2, <2>2 DEF CallOK, AuthOK, Complete, journalState
  <2>9. EvidenceOK(r)'
    BY <1>1, <1>2, <2>2 DEF CallOK, EvidenceOK, Complete, journalState, Early
  <2>10. CloseOK(r)'
    BY <1>1, <1>2, StaysUnclosed DEF Complete, journalState
  <2> QED BY <1>1, <1>2, <2>2, <2>4, <2>5, <2>7, <2>8, <2>9, <2>10, CallStep DEF CallOK, Complete
<1> QED BY <1>3

LEMMA PostRequestStep ==
  ASSUME Inductive, NEW r \in Requests, PostRequest(r)
  PROVE  Inductive'
<1>1. TypeOK /\ CallOK(r) /\ pc[r] = "finish" /\ todo[r] = <<>>
  BY DEF Inductive, PostRequest, At, Rest
<1>2. CASE SayPost(r, <<"effect.release_requested">>, "postDecide") /\ UNCHANGED result
  <2>1. "effect.release_requested" \in PostKinds /\ "postDecide" \in Pcs
    BY DEF PostKinds, Pcs
  <2>2. /\ todo' \in [Requests -> Seq(Message)] /\ pc' \in [Requests -> Pcs] /\ pc'[r] = "postDecide"
        /\ todo'[r] # <<>> /\ Only(todo'[r], <<"post", "effect.release_requested">>)
        /\ \A i \in 1..Len(todo'[r]) : todo'[r][i] = <<"post", "effect.release_requested">>
        /\ \A q \in Requests \ {r} : pc'[q] = pc[q] /\ todo'[q] = todo[q]
    BY <1>1, <1>2, <2>1, SayPostOne DEF PostRequest
  <2>4. TypeOK' /\ \A q \in Requests \ {r} : Same(q)
    BY <1>1, <1>2, <2>2, TypeKept DEF PostRequest, TypeOK, Same
  <2>5. ScriptOK(r)'
    BY <1>1, <1>2, <2>2 DEF ScriptOK, PostRequest
  <2>6. ~InTodo(r, "effect.denied")'
    BY <2>2 DEF InTodo, Closing
  <2>7. PhaseOK(r)'
    BY <1>1, <1>2, <2>2, <2>6 DEF CallOK, PhaseOK, PostRequest, journalState, Started, Early, Late, Ended
  <2>8. AuthOK(r)'
    BY <1>1, <1>2, <2>2 DEF CallOK, AuthOK, PostRequest, journalState
  <2>9. EvidenceOK(r)'
    BY <1>1, <1>2, <2>2 DEF CallOK, EvidenceOK, PostRequest, journalState, Early
  <2>10. CloseOK(r)'
    BY <1>1, <1>2, StaysUnclosed DEF PostRequest, journalState
  <2> QED BY <1>1, <1>2, <2>2, <2>4, <2>5, <2>7, <2>8, <2>9, <2>10, CallStep DEF CallOK, PostRequest
<1>3. CASE Goto(r, "returned") /\ Result(r, "error") /\ UNCHANGED todo
  <2>1. UNCHANGED Rest
    BY DEF PostRequest, Rest
  <2> QED BY <1>1, <1>3, <2>1, ReturnSilently
<1> QED BY <1>2, <1>3 DEF PostRequest

LEMMA PostDecideStep ==
  ASSUME Inductive, NEW r \in Requests, PostDecide(r)
  PROVE  Inductive'
<1>1. TypeOK /\ CallOK(r) /\ pc[r] = "postDecide" /\ todo[r] = <<>> /\ UNCHANGED Rest
  BY DEF Inductive, PostDecide, At, Rest
<1>2. CASE SayPost(r, PolicyFailure, "returned") /\ Result(r, "error")
  <2>1. PolicyFailure \in Seq(PostKinds)
    BY DEF PolicyFailure, PostKinds
  <2> QED BY <1>1, <1>2, <2>1, ReturnSayingPost
<1>3. CASE SayPost(r, <<Decided.Allow>>, "postAllowed") /\ UNCHANGED result
  <2>1. Decided.Allow \in PostKinds /\ "postAllowed" \in Pcs
    BY KindFacts DEF Pcs
  <2>2. /\ todo' \in [Requests -> Seq(Message)] /\ pc' \in [Requests -> Pcs] /\ pc'[r] = "postAllowed"
        /\ todo'[r] # <<>> /\ Only(todo'[r], <<"post", Decided.Allow>>)
        /\ \A i \in 1..Len(todo'[r]) : todo'[r][i] = <<"post", Decided.Allow>>
        /\ \A q \in Requests \ {r} : pc'[q] = pc[q] /\ todo'[q] = todo[q]
    BY <1>1, <1>3, <2>1, SayPostOne DEF PostDecide
  <2>4. TypeOK' /\ \A q \in Requests \ {r} : Same(q)
    BY <1>1, <1>3, <2>2, TypeKept DEF PostDecide, TypeOK, Same
  <2>5. ScriptOK(r)'
    BY <1>1, <1>3, <2>2 DEF ScriptOK, PostDecide
  <2>6. ~InTodo(r, "effect.denied")'
    BY <2>2, KindFacts DEF InTodo, Closing
  <2>7. PhaseOK(r)'
    BY <1>1, <1>3, <2>2, <2>6 DEF CallOK, PhaseOK, PostDecide, journalState, Started, Early, Late, Ended
  <2>8. AuthOK(r)'
    BY <1>1, <1>3, <2>2 DEF CallOK, AuthOK, PostDecide, journalState
  <2>9. EvidenceOK(r)'
    BY <1>1, <1>3, <2>2 DEF CallOK, EvidenceOK, PostDecide, journalState, Early
  <2>10. CloseOK(r)'
    BY <1>1, <1>3, StaysUnclosed DEF PostDecide, journalState
  <2> QED BY <1>1, <1>3, <2>2, <2>4, <2>5, <2>7, <2>8, <2>9, <2>10, CallStep DEF CallOK, PostDecide
<1>4. ASSUME NEW o \in {"RequireApproval", "Deny"}, Result(r, "denied"),
             SayPost(r, <<Decided[o], "effect.release_denied">>, "returned")
      PROVE  Inductive'
  <2>1. Decided[o] \in PostKinds /\ "effect.release_denied" \in PostKinds
    BY KindFacts DEF PostKinds
  <2>2. <<Decided[o], "effect.release_denied">> \in Seq(PostKinds)
    BY <2>1
  <2> QED BY <1>1, <1>4, <2>2, ReturnSayingPost
<1> QED BY <1>2, <1>3, <1>4 DEF PostDecide

LEMMA PostCompleteStep ==
  ASSUME Inductive, NEW r \in Requests, PostComplete(r)
  PROVE  Inductive'
<1>1. TypeOK /\ CallOK(r) /\ pc[r] = "postAllowed" /\ todo[r] = <<>>
  BY DEF Inductive, PostComplete, At, Rest
<1>2. Inductive'
  <2>1. "effect.completed" \in MainKinds /\ "release" \in Pcs
    BY DEF MainKinds, Pcs
  <2>2. /\ todo' \in [Requests -> Seq(Message)] /\ pc' \in [Requests -> Pcs] /\ pc'[r] = "release"
        /\ todo'[r] # <<>> /\ Only(todo'[r], <<"main", "effect.completed">>)
        /\ \A i \in 1..Len(todo'[r]) : todo'[r][i] = <<"main", "effect.completed">>
        /\ \A q \in Requests \ {r} : pc'[q] = pc[q] /\ todo'[q] = todo[q]
    BY <1>1, <2>1, SayOne DEF PostComplete
  <2>4. TypeOK' /\ \A q \in Requests \ {r} : Same(q)
    BY <1>1, <2>2, TypeKept DEF PostComplete, TypeOK, Same
  <2>5. ScriptOK(r)'
    BY <1>1, <2>2 DEF ScriptOK, PostComplete
  <2>6. ~InTodo(r, "effect.denied")'
    BY <2>2 DEF InTodo, Closing
  <2>7. PhaseOK(r)'
    BY <1>1, <2>2, <2>6 DEF CallOK, PhaseOK, PostComplete, journalState, Started, Early, Late, Ended
  <2>8. AuthOK(r)'
    BY <1>1, <2>2 DEF CallOK, AuthOK, PostComplete, journalState
  <2>9. EvidenceOK(r)'
    BY <1>1, <2>2 DEF CallOK, EvidenceOK, PostComplete, journalState, Early
  <2>10. CloseOK(r)'
    BY <1>1, StaysUnclosed DEF PostComplete, journalState
  <2> QED BY <1>1, <2>2, <2>4, <2>5, <2>7, <2>8, <2>9, <2>10, CallStep DEF CallOK, PostComplete
<1> QED BY <1>2

LEMMA ReleaseStep ==
  ASSUME Inductive, NEW r \in Requests, Release(r)
  PROVE  Inductive'
<1>1. TypeOK /\ CallOK(r) /\ pc[r] = "release" /\ todo[r] = <<>>
  BY DEF Inductive, Release, At, Rest
<1>2. Inductive'
  <2>2. /\ todo' \in [Requests -> Seq(Message)] /\ pc' \in [Requests -> Pcs] /\ pc'[r] = "returned"
        /\ todo'[r] = <<>>
        /\ \A q \in Requests \ {r} : pc'[q] = pc[q] /\ todo'[q] = todo[q]
    BY <1>1 DEF Release, Goto, TypeOK, Pcs, SinkFails
  <2>3. /\ result' \in [Requests -> {"none", "error", "denied", "unknown", "released"}] /\ result'[r] = "released"
        /\ \A q \in Requests \ {r} : result'[q] = result[q]
    BY <1>1 DEF Release, TypeOK, SinkFails, Result
  <2>4. TypeOK' /\ \A q \in Requests \ {r} : Same(q)
    BY <1>1, <2>2, <2>3, TypeKept DEF Release, TypeOK, Same
  <2>5. ScriptOK(r)'
    BY <1>1, <2>2, <2>3 DEF ScriptOK, Release, Only
  <2>7. PhaseOK(r)'
    BY <1>1, <2>2, <2>3 DEF CallOK, PhaseOK, Release, journalState, Started, InTodo, Early, Late, Ended
  <2>8. AuthOK(r)'
    BY <1>1, <2>2, <2>3 DEF CallOK, AuthOK, Release, journalState
  <2>9. EvidenceOK(r)'
    BY <1>1, <2>2, <2>3 DEF CallOK, EvidenceOK, Release, journalState, Early
  <2>10. CloseOK(r)'
    BY <1>1, <2>2 DEF CallOK, CloseOK, Release, journalState, Owned, FenceOK
  <2> QED BY <1>1, <2>2, <2>4, <2>5, <2>7, <2>8, <2>9, <2>10, CallStep DEF CallOK, Release
<1> QED BY <1>2

LEMMA ObserveChunkStep ==
  ASSUME Inductive, NEW r \in Requests, ObserveChunk(r)
  PROVE  Inductive'
<1>1. TypeOK /\ CallOK(r) /\ pc[r] = "executing" /\ todo[r] = <<>>
  BY DEF Inductive, ObserveChunk, At, Rest
<1>2. /\ chunks' \in [Requests -> Nat]
      /\ UNCHANGED <<journalState, owner, tail, outcome, needPost, approved, auto, out, result,
                     invoked, delivered>>
  BY <1>1 DEF ObserveChunk, TypeOK
<1>3. ASSUME NEW f \in {"failed", "unknown"}, SinkFails(r, f), UNCHANGED todo
      PROVE  Inductive'
  <2>2. /\ todo' \in [Requests -> Seq(Message)] /\ pc' \in [Requests -> Pcs] /\ pc'[r] = "executing"
        /\ todo'[r] = <<>>
        /\ \A q \in Requests \ {r} : pc'[q] = pc[q] /\ todo'[q] = todo[q]
    BY <1>1, <1>2, <1>3 DEF ObserveChunk, Goto, TypeOK, Pcs, SinkFails
  <2>3. /\ failure' \in [Requests -> {"none", "failed", "unknown", "denied"}] /\ failure'[r] = f
        /\ \A q \in Requests \ {r} : failure'[q] = failure[q]
    BY <1>1, <1>2, <1>3 DEF ObserveChunk, TypeOK, SinkFails, Result
  <2>4. TypeOK' /\ \A q \in Requests \ {r} : Same(q)
    BY <1>1, <1>2, <1>3, <2>2, <2>3, TypeKept DEF ObserveChunk, TypeOK, Same
  <2>5. ScriptOK(r)'
    BY <1>1, <1>2, <1>3, <2>2, <2>3 DEF ScriptOK, ObserveChunk, Only
  <2>7. PhaseOK(r)'
    BY <1>1, <1>2, <1>3, <2>2, <2>3 DEF CallOK, PhaseOK, ObserveChunk, journalState, Started, InTodo, Early, Late, Ended
  <2>8. AuthOK(r)'
    BY <1>1, <1>2, <1>3, <2>2, <2>3 DEF CallOK, AuthOK, ObserveChunk, journalState
  <2>9. EvidenceOK(r)'
    BY <1>1, <1>2, <1>3, <2>2, <2>3 DEF CallOK, EvidenceOK, ObserveChunk, journalState, Early
  <2>10. CloseOK(r)'
    BY <1>1, <1>2, <1>3, StaysUnclosed DEF ObserveChunk, journalState
  <2> QED BY <1>1, <1>2, <1>3, <2>2, <2>4, <2>5, <2>7, <2>8, <2>9, <2>10, CallStep DEF CallOK, ObserveChunk
<1>4. CASE /\ needPost[r]
           /\ SayPost(r, <<"effect.release_requested">>, "chunkDecide") /\ UNCHANGED failure
  <2>1. "effect.release_requested" \in PostKinds /\ "chunkDecide" \in Pcs
    BY DEF PostKinds, Pcs
  <2>2. /\ todo' \in [Requests -> Seq(Message)] /\ pc' \in [Requests -> Pcs] /\ pc'[r] = "chunkDecide"
        /\ todo'[r] # <<>> /\ Only(todo'[r], <<"post", "effect.release_requested">>)
        /\ \A i \in 1..Len(todo'[r]) : todo'[r][i] = <<"post", "effect.release_requested">>
        /\ \A q \in Requests \ {r} : pc'[q] = pc[q] /\ todo'[q] = todo[q]
    BY <1>1, <1>2, <1>4, <2>1, SayPostOne DEF ObserveChunk
  <2>4. TypeOK' /\ \A q \in Requests \ {r} : Same(q)
    BY <1>1, <1>2, <1>4, <2>2, TypeKept DEF ObserveChunk, TypeOK, Same
  <2>5. ScriptOK(r)'
    BY <1>1, <1>2, <1>4, <2>2 DEF ScriptOK, ObserveChunk
  <2>6. ~InTodo(r, "effect.denied")'
    BY <2>2 DEF InTodo, Closing
  <2>7. PhaseOK(r)'
    BY <1>1, <1>2, <1>4, <2>2, <2>6 DEF CallOK, PhaseOK, ObserveChunk, journalState, Started, Early, Late, Ended
  <2>8. AuthOK(r)'
    BY <1>1, <1>2, <1>4, <2>2 DEF CallOK, AuthOK, ObserveChunk, journalState
  <2>9. EvidenceOK(r)'
    BY <1>1, <1>2, <1>4, <2>2 DEF CallOK, EvidenceOK, ObserveChunk, journalState, Early
  <2>10. CloseOK(r)'
    BY <1>1, <1>2, <1>4, StaysUnclosed DEF ObserveChunk, journalState
  <2> QED BY <1>1, <1>2, <1>4, <2>2, <2>4, <2>5, <2>7, <2>8, <2>9, <2>10, CallStep DEF CallOK, ObserveChunk
<1>5. CASE ~needPost[r] /\ Say(r, <<"effect.chunk_released">>, "deliver") /\ UNCHANGED failure
  <2>1. "effect.chunk_released" \in MainKinds /\ "deliver" \in Pcs
    BY DEF MainKinds, Pcs
  <2>2. /\ todo' \in [Requests -> Seq(Message)] /\ pc' \in [Requests -> Pcs] /\ pc'[r] = "deliver"
        /\ todo'[r] # <<>> /\ Only(todo'[r], <<"main", "effect.chunk_released">>)
        /\ \A i \in 1..Len(todo'[r]) : todo'[r][i] = <<"main", "effect.chunk_released">>
        /\ \A q \in Requests \ {r} : pc'[q] = pc[q] /\ todo'[q] = todo[q]
    BY <1>1, <1>2, <1>5, <2>1, SayOne DEF ObserveChunk
  <2>4. TypeOK' /\ \A q \in Requests \ {r} : Same(q)
    BY <1>1, <1>2, <1>5, <2>2, TypeKept DEF ObserveChunk, TypeOK, Same
  <2>5. ScriptOK(r)'
    BY <1>1, <1>2, <1>5, <2>2 DEF ScriptOK, ObserveChunk
  <2>6. ~InTodo(r, "effect.denied")'
    BY <2>2 DEF InTodo, Closing
  <2>7. PhaseOK(r)'
    BY <1>1, <1>2, <1>5, <2>2, <2>6 DEF CallOK, PhaseOK, ObserveChunk, journalState, Started, Early, Late, Ended
  <2>8. AuthOK(r)'
    BY <1>1, <1>2, <1>5, <2>2 DEF CallOK, AuthOK, ObserveChunk, journalState
  <2>9. EvidenceOK(r)'
    BY <1>1, <1>2, <1>5, <2>2 DEF CallOK, EvidenceOK, ObserveChunk, journalState, Early
  <2>10. CloseOK(r)'
    BY <1>1, <1>2, <1>5, StaysUnclosed DEF ObserveChunk, journalState
  <2> QED BY <1>1, <1>2, <1>5, <2>2, <2>4, <2>5, <2>7, <2>8, <2>9, <2>10, CallStep DEF CallOK, ObserveChunk
<1> QED BY <1>3, <1>4, <1>5 DEF ObserveChunk

LEMMA ChunkDecideStep ==
  ASSUME Inductive, NEW r \in Requests, ChunkDecide(r)
  PROVE  Inductive'
<1>1. TypeOK /\ CallOK(r) /\ pc[r] = "chunkDecide" /\ todo[r] = <<>>
  BY DEF Inductive, ChunkDecide, At, Rest
<1>2. ASSUME NEW kinds \in Seq(PostKinds), SayPost(r, kinds, "executing"),
             NEW f \in {"unknown", "denied"}, failure' = [failure EXCEPT ![r] = f]
      PROVE  Inductive'
  <2>1. "executing" \in Pcs
    BY DEF Pcs
  <2>2. /\ todo' \in [Requests -> Seq(Message)] /\ pc' \in [Requests -> Pcs] /\ pc'[r] = "executing"
        /\ Len(todo'[r]) = Len(kinds)
        /\ \A i \in 1..Len(kinds) : todo'[r][i] = <<"post", kinds[i]>>
        /\ \A q \in Requests \ {r} : pc'[q] = pc[q] /\ todo'[q] = todo[q]
    BY <1>1, <1>2, <2>1, SayPostFacts
  <2>3. /\ failure' \in [Requests -> {"none", "failed", "unknown", "denied"}] /\ failure'[r] = f
        /\ \A q \in Requests \ {r} : failure'[q] = failure[q]
    BY <1>1, <1>2 DEF ChunkDecide, TypeOK, SinkFails, Result
  <2>4. TypeOK' /\ \A q \in Requests \ {r} : Same(q)
    BY <1>1, <1>2, <2>2, <2>3, TypeKept DEF ChunkDecide, TypeOK, Same
  <2>5. ScriptOK(r)'
    <3>1. \A i \in 1..Len(todo'[r]) : todo'[r][i][1] = "post"
      BY <2>2
    <3> QED BY <2>2, <3>1 DEF ScriptOK
  <2>6. ~InTodo(r, "effect.denied")'
    BY <2>2 DEF InTodo, Closing
  <2>7. PhaseOK(r)'
    BY <1>1, <1>2, <2>2, <2>3, <2>6 DEF CallOK, PhaseOK, ChunkDecide, journalState, Started, Early, Late, Ended
  <2>8. AuthOK(r)'
    BY <1>1, <1>2, <2>2, <2>3 DEF CallOK, AuthOK, ChunkDecide, journalState
  <2>9. EvidenceOK(r)'
    BY <1>1, <1>2, <2>2, <2>3 DEF CallOK, EvidenceOK, ChunkDecide, journalState, Early
  <2>10. CloseOK(r)'
    BY <1>1, <1>2, StaysUnclosed DEF ChunkDecide, journalState
  <2> QED BY <1>1, <1>2, <2>2, <2>4, <2>5, <2>7, <2>8, <2>9, <2>10, CallStep DEF CallOK, ChunkDecide
<1>3. CASE SayPost(r, <<Decided.Allow>>, "chunkDecided") /\ UNCHANGED failure
  <2>1. Decided.Allow \in PostKinds /\ "chunkDecided" \in Pcs
    BY KindFacts DEF Pcs
  <2>2. /\ todo' \in [Requests -> Seq(Message)] /\ pc' \in [Requests -> Pcs] /\ pc'[r] = "chunkDecided"
        /\ todo'[r] # <<>> /\ Only(todo'[r], <<"post", Decided.Allow>>)
        /\ \A i \in 1..Len(todo'[r]) : todo'[r][i] = <<"post", Decided.Allow>>
        /\ \A q \in Requests \ {r} : pc'[q] = pc[q] /\ todo'[q] = todo[q]
    BY <1>1, <1>3, <2>1, SayPostOne DEF ChunkDecide
  <2>4. TypeOK' /\ \A q \in Requests \ {r} : Same(q)
    BY <1>1, <1>3, <2>2, TypeKept DEF ChunkDecide, TypeOK, Same
  <2>5. ScriptOK(r)'
    BY <1>1, <1>3, <2>2 DEF ScriptOK, ChunkDecide
  <2>6. ~InTodo(r, "effect.denied")'
    BY <2>2, KindFacts DEF InTodo, Closing
  <2>7. PhaseOK(r)'
    BY <1>1, <1>3, <2>2, <2>6 DEF CallOK, PhaseOK, ChunkDecide, journalState, Started, Early, Late, Ended
  <2>8. AuthOK(r)'
    BY <1>1, <1>3, <2>2 DEF CallOK, AuthOK, ChunkDecide, journalState
  <2>9. EvidenceOK(r)'
    BY <1>1, <1>3, <2>2 DEF CallOK, EvidenceOK, ChunkDecide, journalState, Early
  <2>10. CloseOK(r)'
    BY <1>1, <1>3, StaysUnclosed DEF ChunkDecide, journalState
  <2> QED BY <1>1, <1>3, <2>2, <2>4, <2>5, <2>7, <2>8, <2>9, <2>10, CallStep DEF CallOK, ChunkDecide
<1>4. PolicyFailure \in Seq(PostKinds)
  BY DEF PolicyFailure, PostKinds
<1>5. \A o \in {"RequireApproval", "Deny"} : <<Decided[o], "effect.release_denied">> \in Seq(PostKinds)
  <2>1. \A o \in {"RequireApproval", "Deny"} : Decided[o] \in PostKinds
    BY KindFacts
  <2>2. "effect.release_denied" \in PostKinds
    BY DEF PostKinds
  <2> QED BY <2>1, <2>2
<1> QED BY <1>2, <1>3, <1>4, <1>5 DEF ChunkDecide

LEMMA ChunkReleaseStep ==
  ASSUME Inductive, NEW r \in Requests, ChunkRelease(r)
  PROVE  Inductive'
<1>1. TypeOK /\ CallOK(r) /\ pc[r] = "chunkDecided" /\ todo[r] = <<>>
  BY DEF Inductive, ChunkRelease, At, Rest
<1>2. Inductive'
  <2>1. "effect.chunk_released" \in MainKinds /\ "deliver" \in Pcs
    BY DEF MainKinds, Pcs
  <2>2. /\ todo' \in [Requests -> Seq(Message)] /\ pc' \in [Requests -> Pcs] /\ pc'[r] = "deliver"
        /\ todo'[r] # <<>> /\ Only(todo'[r], <<"main", "effect.chunk_released">>)
        /\ \A i \in 1..Len(todo'[r]) : todo'[r][i] = <<"main", "effect.chunk_released">>
        /\ \A q \in Requests \ {r} : pc'[q] = pc[q] /\ todo'[q] = todo[q]
    BY <1>1, <2>1, SayOne DEF ChunkRelease
  <2>4. TypeOK' /\ \A q \in Requests \ {r} : Same(q)
    BY <1>1, <2>2, TypeKept DEF ChunkRelease, TypeOK, Same
  <2>5. ScriptOK(r)'
    BY <1>1, <2>2 DEF ScriptOK, ChunkRelease
  <2>6. ~InTodo(r, "effect.denied")'
    BY <2>2 DEF InTodo, Closing
  <2>7. PhaseOK(r)'
    BY <1>1, <2>2, <2>6 DEF CallOK, PhaseOK, ChunkRelease, journalState, Started, Early, Late, Ended
  <2>8. AuthOK(r)'
    BY <1>1, <2>2 DEF CallOK, AuthOK, ChunkRelease, journalState
  <2>9. EvidenceOK(r)'
    BY <1>1, <2>2 DEF CallOK, EvidenceOK, ChunkRelease, journalState, Early
  <2>10. CloseOK(r)'
    BY <1>1, StaysUnclosed DEF ChunkRelease, journalState
  <2> QED BY <1>1, <2>2, <2>4, <2>5, <2>7, <2>8, <2>9, <2>10, CallStep DEF CallOK, ChunkRelease
<1> QED BY <1>2

LEMMA DeliverStep ==
  ASSUME Inductive, NEW r \in Requests, Deliver(r)
  PROVE  Inductive'
<1>1. TypeOK /\ CallOK(r) /\ pc[r] = "deliver" /\ todo[r] = <<>>
  BY DEF Inductive, Deliver, At, Rest
<1>2. PICK f \in {"none", "unknown", "denied"} : SinkFails(r, f)
  BY DEF Deliver
<1>3. Inductive'
  <2>2. /\ todo' \in [Requests -> Seq(Message)] /\ pc' \in [Requests -> Pcs] /\ pc'[r] = "executing"
        /\ todo'[r] = <<>>
        /\ \A q \in Requests \ {r} : pc'[q] = pc[q] /\ todo'[q] = todo[q]
    BY <1>1, <1>2 DEF Deliver, Goto, TypeOK, Pcs, SinkFails
  <2>3. /\ delivered' \in [Requests -> Nat] /\ delivered'[r] = delivered[r] + 1
        /\ failure' \in [Requests -> {"none", "failed", "unknown", "denied"}] /\ failure'[r] = f
        /\ \A q \in Requests \ {r} : delivered'[q] = delivered[q] /\ failure'[q] = failure[q]
    BY <1>1, <1>2 DEF Deliver, TypeOK, SinkFails, Result
  <2>4. TypeOK' /\ \A q \in Requests \ {r} : Same(q)
    BY <1>1, <1>2, <2>2, <2>3, TypeKept DEF Deliver, TypeOK, Same
  <2>5. ScriptOK(r)'
    BY <1>1, <1>2, <2>2, <2>3 DEF ScriptOK, Deliver, Only
  <2>7. PhaseOK(r)'
    BY <1>1, <1>2, <2>2, <2>3 DEF CallOK, PhaseOK, Deliver, journalState, Started, InTodo, Early, Late, Ended
  <2>8. AuthOK(r)'
    BY <1>1, <1>2, <2>2, <2>3 DEF CallOK, AuthOK, Deliver, journalState
  <2>9. EvidenceOK(r)'
    BY <1>1, <1>2, <2>2, <2>3 DEF CallOK, EvidenceOK, Deliver, journalState, Early
  <2>10. CloseOK(r)'
    BY <1>1, <1>2, StaysUnclosed DEF Deliver, journalState
  <2> QED BY <1>1, <1>2, <2>2, <2>4, <2>5, <2>7, <2>8, <2>9, <2>10, CallStep DEF CallOK, Deliver
<1> QED BY <1>3

-----------------------------------------------------------------------------
(* event(). *)

LEMMA EventReadStep ==
  ASSUME Inductive, NEW r \in Requests, EventRead(r)
  PROVE  Inductive'
<1>1. TypeOK /\ CallOK(r) /\ UNCHANGED <<journalState, owner, pc, todo>> /\ \A q \in Requests : Same(q)
  BY DEF Inductive, EventRead, Same
<1>2. tail' \in [Requests -> Nat]
  <2>1. Len(StreamOf(r, Head(todo[r]))) \in Nat
    BY <1>1 DEF StreamOf, TypeOK
  <2> QED BY <1>1, <2>1 DEF EventRead, TypeOK
<1>3. TypeOK'
  BY <1>1, <1>2, TypeKept DEF EventRead, TypeOK
<1>4. CallOK(r)'
  BY <1>1, Frame DEF journalState, Owned, FenceOK
<1>5. pc[r] # "idle"
  BY <1>1 DEF EventRead, CallOK, ScriptOK
<1> QED BY <1>1, <1>3, <1>4, <1>5, CallStep

LEMMA EventFailsStep ==
  ASSUME Inductive, NEW r \in Requests, EventFails(r)
  PROVE  Inductive'
<1>1. TypeOK /\ CallOK(r) /\ todo[r] # <<>>
  BY DEF Inductive, EventFails
<1>2. pc[r] # "idle"
  BY <1>1 DEF CallOK, ScriptOK
<1>3. /\ todo'[r] = <<>> /\ todo' \in [Requests -> Seq(Message)] /\ tail' \in [Requests -> Nat]
      /\ \A q \in Requests \ {r} : todo'[q] = todo[q]
      /\ UNCHANGED <<journalState, owner, outcome, needPost, approved, auto, chunks, out, invoked, delivered>>
  BY <1>1 DEF EventFails, TypeOK, NoTail
<1>4. CASE /\ pc[r] \in ChunkPcs \cup {"executing"}
           /\ failure' = [failure EXCEPT ![r] = "unknown"]
           /\ Goto(r, "executing")
           /\ UNCHANGED result
  <2>1. /\ pc'[r] = "executing" /\ pc' \in [Requests -> Pcs]
        /\ failure' \in [Requests -> {"none", "failed", "unknown", "denied"}]
        /\ \A q \in Requests \ {r} : pc'[q] = pc[q]
    BY <1>1, <1>4 DEF Goto, Pcs, TypeOK
  <2>2. TypeOK' /\ \A q \in Requests \ {r} : Same(q)
    BY <1>1, <1>3, <1>4, <2>1, TypeKept DEF TypeOK, Same
  <2>3. ScriptOK(r)'
    BY <1>3, <2>1 DEF ScriptOK
  <2>4. PhaseOK(r)'
    BY <1>1, <1>3, <1>4, <2>1
       DEF CallOK, PhaseOK, journalState, Started, InTodo, Early, Late, Ended, ChunkPcs
  <2>5. AuthOK(r)'
    BY <1>1, <1>3, <2>1 DEF CallOK, AuthOK, journalState
  <2>6. EvidenceOK(r)'
    BY <1>1, <1>3, <1>4, <2>1 DEF CallOK, EvidenceOK, journalState, Early, ChunkPcs
  <2>7. CloseOK(r)'
    BY <1>1, <1>3, StaysUnclosed DEF journalState
  <2> QED BY <1>2, <1>3, <2>1, <2>2, <2>3, <2>4, <2>5, <2>6, <2>7, CallStep DEF CallOK
<1>5. CASE Result(r, "error") /\ Goto(r, "returned") /\ UNCHANGED failure
  <2>1. /\ pc'[r] = "returned" /\ pc' \in [Requests -> Pcs] /\ result'[r] = "error"
        /\ result' \in [Requests -> {"none", "error", "denied", "unknown", "released"}]
        /\ \A q \in Requests \ {r} : pc'[q] = pc[q] /\ result'[q] = result[q]
    BY <1>1, <1>5 DEF Goto, Result, Pcs, TypeOK
  <2>2. TypeOK' /\ \A q \in Requests \ {r} : Same(q)
    BY <1>1, <1>3, <1>5, <2>1, TypeKept DEF TypeOK, Same
  <2>3. \A i \in 1..Len(todo'[r]) : FALSE
    BY <1>3
  <2>4. CallOK(r)'
    BY <1>1, <1>3, <2>1, <2>3, Returning DEF journalState
  <2> QED BY <1>2, <1>3, <2>1, <2>2, <2>4, CallStep
<1> QED BY <1>4, <1>5 DEF EventFails

LEMMA TailFacts ==
  ASSUME NEW S, NEW q \in Seq(S), q # <<>>
  PROVE  /\ Len(q) \in Nat /\ Len(q) >= 1 /\ Head(q) = q[1] /\ Head(q) \in S
         /\ Tail(q) \in Seq(S) /\ Len(Tail(q)) = Len(q) - 1
         /\ \A i \in 1..Len(Tail(q)) : Tail(q)[i] = q[i + 1] /\ i + 1 \in 1..Len(q)
         /\ Len(q) <= 1 => Tail(q) = <<>> /\ Len(q) = 1
<1>1. Len(q) \in Nat /\ Len(q) # 0 /\ Head(q) = q[1] /\ Head(q) \in S
  OBVIOUS
<1>2. Tail(q) \in Seq(S) /\ Len(Tail(q)) = Len(q) - 1
  OBVIOUS
<1>3. \A i \in 1..Len(Tail(q)) : Tail(q)[i] = q[i + 1] /\ i + 1 \in 1..Len(q)
  BY <1>1, <1>2
<1>4. Len(Tail(q)) = 0 => Tail(q) = <<>>
  BY <1>2, EmptySeq
<1> QED BY <1>1, <1>2, <1>3, <1>4

(* What waits, once the first of it is appended. *)
LEMMA ScriptTail ==
  ASSUME NEW r \in Requests, ScriptOK(r), todo[r] \in Seq(Message), todo[r] # <<>>,
         pc'[r] = pc[r], outcome'[r] = outcome[r], todo'[r] = Tail(todo[r])
  PROVE  ScriptOK(r)'
<1>1. /\ Len(todo[r]) \in Nat /\ Len(todo[r]) >= 1 /\ Len(todo'[r]) = Len(todo[r]) - 1
      /\ \A i \in 1..Len(todo'[r]) : todo'[r][i] = todo[r][i + 1] /\ i + 1 \in 1..Len(todo[r])
      /\ Len(todo[r]) <= 1 => todo'[r] = <<>>
  BY TailFacts
<1>2. \A m : Only(todo[r], m) => Only(todo'[r], m)
  BY <1>1 DEF Only
<1>3. pc[r] = "returned" =>
         \A i \in 1..Len(todo'[r]) : todo'[r][i][1] = "main" =>
             /\ todo'[r][i][2] \notin {"effect.started", "effect.completed"}
             /\ todo'[r][i][2] \in Closing => i = Len(todo'[r])
  <2> SUFFICES ASSUME pc[r] = "returned", NEW i \in 1..Len(todo'[r]), todo'[r][i][1] = "main"
               PROVE  /\ todo'[r][i][2] \notin {"effect.started", "effect.completed"}
                      /\ todo'[r][i][2] \in Closing => i = Len(todo'[r])
    OBVIOUS
  <2>1. todo'[r][i] = todo[r][i + 1] /\ i + 1 \in 1..Len(todo[r])
    BY <1>1
  <2>2. /\ todo[r][i + 1][2] \notin {"effect.started", "effect.completed"}
        /\ todo[r][i + 1][2] \in Closing => i + 1 = Len(todo[r])
    BY <2>1 DEF ScriptOK
  <2> QED BY <1>1, <2>1, <2>2
<1>4. pc[r] \in {"executing", "chunkDecide", "postDecide"} =>
         \A i \in 1..Len(todo'[r]) : todo'[r][i][1] = "post"
  BY <1>1 DEF ScriptOK
<1>5. pc[r] = "asking" =>
         \A i \in 1..Len(todo'[r]) : todo'[r][i][2] \notin Closing \cup {"effect.started"}
  BY <1>1 DEF ScriptOK
<1> QED BY <1>2, <1>3, <1>4, <1>5 DEF ScriptOK

(* What is appended to the effect's stream, by where the call is. *)
LEMMA WhatIsSaid ==
  ASSUME NEW r \in Requests, ScriptOK(r), pc[r] \in Pcs, todo[r] \in Seq(Message), todo[r] # <<>>,
         outcome[r] \in {"none"} \cup DOMAIN Decided, NEW k, Head(todo[r]) = <<"main", k>>
  PROVE  /\ k = "effect.started" <=> pc[r] = "started"
         /\ k \in Closing => Tail(todo[r]) = <<>> /\ pc[r] \in {"release", "returned"}
         /\ k = "effect.completed" <=> pc[r] = "release"
         /\ k = "effect.denied" => InTodo(r, "effect.denied") /\ pc[r] = "returned"
         /\ pc[r] \in {"prepare", "decide", "decided", "asking", "started", "deliver", "release", "returned"}
         /\ pc[r] = "prepare" => k = "effect.requested"
         /\ pc[r] = "decide" => k = "approval.granted"
         /\ pc[r] = "decided" => k = Decided[outcome[r]] /\ outcome[r] # "none"
         /\ pc[r] = "deliver" => k = "effect.chunk_released"
         /\ pc[r] \in {"prepare", "decide", "decided", "started", "deliver", "release"} => Tail(todo[r]) = <<>>
<1>1. /\ Len(todo[r]) \in Nat /\ Len(todo[r]) >= 1 /\ 1 \in 1..Len(todo[r]) /\ todo[r][1] = <<"main", k>>
      /\ Len(todo[r]) <= 1 => Tail(todo[r]) = <<>>
  BY TailFacts
<1>2. \A m : Only(todo[r], m) => m = <<"main", k>> /\ Tail(todo[r]) = <<>>
  BY <1>1 DEF Only
<1>3. todo[r][1][1] = "main" /\ todo[r][1][2] = k /\ k \in MainKinds
  BY <1>1 DEF Message
<1>4. /\ pc[r] \notin {"idle", "launch", "outcome", "finish", "chunkDecided", "postAllowed",
                       "executing", "chunkDecide", "postDecide"}
  BY <1>1, <1>2, <1>3 DEF ScriptOK
<1>5. /\ pc[r] = "prepare" => k = "effect.requested"
      /\ pc[r] = "decide" => k = "approval.granted"
      /\ pc[r] = "decided" => k = Decided[outcome[r]] /\ outcome[r] # "none"
      /\ pc[r] = "started" => k = "effect.started"
      /\ pc[r] = "deliver" => k = "effect.chunk_released"
      /\ pc[r] = "release" => k = "effect.completed"
      /\ pc[r] \in {"prepare", "decide", "decided", "started", "deliver", "release"} => Tail(todo[r]) = <<>>
  BY <1>2, <1>4 DEF ScriptOK
<1>6. /\ pc[r] = "asking" => k \notin Closing \cup {"effect.started"}
      /\ pc[r] = "returned" => k \notin {"effect.started", "effect.completed"}
      /\ pc[r] = "returned" /\ k \in Closing => Tail(todo[r]) = <<>>
  BY <1>1, <1>3 DEF ScriptOK
<1>7. k = "effect.denied" => InTodo(r, "effect.denied")
  BY <1>1 DEF InTodo
<1>8. pc[r] = "decided" => k \notin Closing \cup {"effect.started"}
  BY <1>5, KindFacts
<1> QED BY <1>4, <1>5, <1>6, <1>7, <1>8 DEF Pcs, Closing, Terminal

LEMMA EventAppendMain ==
  ASSUME Inductive, NEW r \in Requests, EventAppend(r), Head(todo[r])[1] = "main"
  PROVE  CallOK(r)' /\ log' \in [Requests -> Seq(MainKinds)]
<1>1. TypeOK /\ CallOK(r) /\ todo[r] # <<>> /\ Owned(r)
  BY DEF Inductive, EventAppend, MayAppend
<1>2. PICK k : k = Head(todo[r])[2]
  OBVIOUS
<1>3. todo[r] \in Seq(Message) /\ pc[r] \in Pcs /\ outcome[r] \in {"none"} \cup DOMAIN Decided
      /\ log[r] \in Seq(MainKinds) /\ delivered[r] \in Nat
  BY <1>1 DEF TypeOK
<1>4. Head(todo[r]) = <<"main", k>> /\ k \in MainKinds
  <2>1. Head(todo[r]) \in Message
    BY <1>1, <1>3, TailFacts
  <2> QED BY <1>2, <2>1 DEF Message
<1>5. /\ k = "effect.started" <=> pc[r] = "started"
      /\ k \in Closing => Tail(todo[r]) = <<>> /\ pc[r] \in {"release", "returned"}
      /\ k = "effect.completed" <=> pc[r] = "release"
      /\ k = "effect.denied" => InTodo(r, "effect.denied") /\ pc[r] = "returned"
      /\ pc[r] \in {"prepare", "decide", "decided", "asking", "started", "deliver", "release", "returned"}
      /\ pc[r] = "prepare" => k = "effect.requested"
      /\ pc[r] = "decide" => k = "approval.granted"
      /\ pc[r] = "decided" => k = Decided[outcome[r]] /\ outcome[r] # "none"
      /\ pc[r] = "deliver" => k = "effect.chunk_released"
      /\ pc[r] \in {"prepare", "decide", "decided", "started", "deliver", "release"} => Tail(todo[r]) = <<>>
  BY <1>1, <1>3, <1>4, WhatIsSaid DEF CallOK
<1>6. /\ log' = [log EXCEPT ![r] = Append(@, k)] /\ todo'[r] = Tail(todo[r]) /\ UNCHANGED postLog
      /\ UNCHANGED <<lease, owner, pc, outcome, needPost, out, result, invoked, delivered>>
  BY <1>1, <1>2 DEF EventAppend, TypeOK
<1>7. log'[r] = Append(log[r], k) /\ log' \in [Requests -> Seq(MainKinds)]
  BY <1>1, <1>3, <1>4, <1>6, AppendFacts DEF TypeOK
<1>8. ScriptOK(r)'
  BY <1>1, <1>3, <1>6, ScriptTail DEF CallOK
<1>9. \A K : Has(log'[r], K) <=> Has(log[r], K) \/ k \in K
  BY <1>3, <1>4, <1>7, HasAppend
<1>10. Started(r)' <=> Started(r) \/ k = "effect.started"
  BY <1>9 DEF Started
<1>11. ~Has(log[r], Closing)
  BY <1>1 DEF CallOK, CloseOK
<1>12. PhaseOK(r)'
  <2>1. ASSUME InTodo(r, "effect.denied")'
        PROVE  InTodo(r, "effect.denied")
    <3>1. PICK i \in 1..Len(todo'[r]) : todo'[r][i] = <<"main", "effect.denied">>
      BY <2>1 DEF InTodo
    <3>2. todo[r][i + 1] = <<"main", "effect.denied">> /\ i + 1 \in 1..Len(todo[r])
      BY <1>1, <1>3, <1>6, <3>1, TailFacts
    <3> QED BY <3>2 DEF InTodo
  <2>2. Has(log'[r], {"effect.denied"}) => InTodo(r, "effect.denied") \/ Has(log[r], {"effect.denied"})
    BY <1>5, <1>9
  <2>3. Has(log'[r], {"effect.completed"}) => pc[r] = "release"
    <3>1. Has(log[r], {"effect.completed"}) => Has(log[r], Closing)
      BY DEF Has, Closing, Terminal
    <3> QED BY <1>5, <1>9, <1>11, <3>1
  <2>4. pc[r] = "started" => Started(r)' /\ todo'[r] = <<>>
    BY <1>5, <1>6, <1>10
  <2>5. pc[r] = "release" => out[r] = "ok"
    BY <1>1 DEF CallOK, PhaseOK, Ended
  <2>6. /\ pc[r] \in Early => ~Started(r)' /\ k # "effect.started"
    BY <1>1, <1>5, <1>10 DEF CallOK, PhaseOK, Early
  <2>7. /\ pc[r] \in Early \cup {"started", "launch"} => invoked[r] = 0
        /\ pc[r] \in Late \cup {"launch"} => Started(r)
        /\ pc[r] \in Late => invoked[r] = 1
        /\ invoked[r] \in {0, 1}
        /\ invoked[r] = 1 => Started(r)
        /\ Has(log[r], {"effect.denied"}) \/ InTodo(r, "effect.denied") =>
             pc[r] = "returned" /\ invoked[r] = 0 /\ ~Started(r)
        /\ pc[r] \in Ended => out[r] = "ok"
    BY <1>1 DEF CallOK, PhaseOK
  <2> QED BY <1>5, <1>6, <1>10, <2>1, <2>2, <2>3, <2>4, <2>5, <2>6, <2>7 DEF PhaseOK
<1>13. /\ Len(log[r]) \in Nat /\ Len(log'[r]) = Len(log[r]) + 1 /\ log'[r][Len(log[r]) + 1] = k
       /\ \A i \in 1..Len(log[r]) : log'[r][i] = log[r][i]
       /\ \A i \in 1..Len(log'[r]) : i = Len(log'[r]) \/ i \in 1..Len(log[r])
       /\ LastIs(log'[r], k)
  BY <1>3, <1>4, <1>7, AppendFacts
<1>14. CloseOK(r)'
  <2>1. \A i \in 1..Len(log'[r]) : log'[r][i] \in Closing => i = Len(log'[r])
    BY <1>11, <1>13 DEF Has
  <2>2. Has(log'[r], Closing) => todo'[r] = <<>> /\ pc[r] \in {"release", "returned"}
    BY <1>5, <1>6, <1>9, <1>11
  <2> QED BY <1>6, <2>1, <2>2 DEF CloseOK
<1>15. EvidenceOK(r)'
  <2>1. /\ Count(log[r], "effect.chunk_released") \in Nat /\ Count(log'[r], "effect.chunk_released") \in Nat
        /\ Count(log'[r], "effect.chunk_released") >= Count(log[r], "effect.chunk_released")
        /\ k = "effect.chunk_released" =>
             Count(log'[r], "effect.chunk_released") = Count(log[r], "effect.chunk_released") + 1
    BY <1>3, <1>4, <1>7, CountAppend
  <2>2. EvidenceOK(r)
    BY <1>1 DEF CallOK
  <2>3. result[r] # "released"
    BY <1>1, <2>2 DEF EvidenceOK
  <2> QED BY <1>3, <1>5, <1>6, <1>13, <2>1, <2>2, <2>3 DEF EvidenceOK, Early
<1>16. AuthOK(r)'
  <2>1. AuthOK(r)
    BY <1>1 DEF CallOK
  <2>2. Authorized(log'[r])
    <3> SUFFICES ASSUME NEW i \in 1..Len(log'[r]), log'[r][i] = "effect.started"
                 PROVE  /\ i > 1 /\ log'[r][i - 1] = Decided.Allow
                        /\ \A j \in 1..i : log'[r][j] = Decided.RequireApproval =>
                             \E n \in j..(i - 2) : log'[r][n] = "approval.granted"
      BY DEF Authorized
    <3>1. CASE i \in 1..Len(log[r])
      <4>1. /\ i > 1 /\ log[r][i - 1] = Decided.Allow
            /\ \A j \in 1..i : log[r][j] = Decided.RequireApproval =>
                 \E n \in j..(i - 2) : log[r][n] = "approval.granted"
        BY <1>13, <2>1, <3>1 DEF AuthOK, Authorized
      <4>2. i - 1 \in 1..Len(log[r]) /\ \A j \in 1..i : j \in 1..Len(log[r])
        BY <1>13, <3>1, <4>1
      <4>3. \A j \in 1..i : \A n \in j..(i - 2) : n \in 1..Len(log[r])
        BY <1>13, <3>1
      <4> QED BY <1>13, <4>1, <4>2, <4>3
    <3>2. CASE i = Len(log'[r])
      <4>1. k = "effect.started" /\ pc[r] = "started"
        BY <1>5, <1>13, <3>2
      <4>2. LastIs(log[r], Decided.Allow) /\ Answered(log[r], Len(log[r]) - 1)
        BY <1>1, <2>1, <4>1 DEF AuthOK
      <4>3. i > 1 /\ i - 1 = Len(log[r]) /\ i - 1 \in 1..Len(log[r]) /\ log'[r][i - 1] = Decided.Allow
        BY <1>13, <3>2, <4>2 DEF LastIs
      <4>4. ASSUME NEW j \in 1..i, log'[r][j] = Decided.RequireApproval
            PROVE  \E n \in j..(i - 2) : log'[r][n] = "approval.granted"
        <5>1. k # Decided.RequireApproval
          BY <4>1, KindFacts
        <5>2. j \in 1..Len(log[r]) /\ log[r][j] = Decided.RequireApproval
          BY <1>13, <3>2, <4>4, <5>1
        <5>3. PICK n \in j..(Len(log[r]) - 1) : log[r][n] = "approval.granted"
          BY <4>2, <5>2 DEF Answered
        <5>4. n \in j..(i - 2) /\ n \in 1..Len(log[r])
          BY <1>13, <4>3, <5>2, <5>3
        <5> QED BY <1>13, <5>3, <5>4
      <4> QED BY <4>3, <4>4
    <3> QED BY <1>13, <3>1, <3>2
  <2>3. ASSUME Answered(log[r], Len(log[r]))
        PROVE  /\ k # Decided.RequireApproval => Answered(log'[r], Len(log'[r]) - 1)
               /\ k # Decided.RequireApproval => Answered(log'[r], Len(log'[r]))
    <3>1. ASSUME k # Decided.RequireApproval, NEW j \in 1..Len(log'[r]),
                 log'[r][j] = Decided.RequireApproval
          PROVE  \E n \in j..Len(log[r]) : log'[r][n] = "approval.granted"
      <4>1. j \in 1..Len(log[r]) /\ log[r][j] = Decided.RequireApproval
        BY <1>13, <3>1
      <4>2. PICK n \in j..Len(log[r]) : log[r][n] = "approval.granted"
        BY <2>3, <4>1 DEF Answered
      <4>3. n \in 1..Len(log[r])
        BY <1>13, <4>1, <4>2
      <4> QED BY <1>13, <4>2, <4>3
    <3>2. Len(log'[r]) - 1 = Len(log[r]) /\ \A j \in 1..Len(log'[r]) : \A n \in j..Len(log[r]) : n \in j..Len(log'[r])
      BY <1>13
    <3> QED BY <3>1, <3>2 DEF Answered
  <2>4. ASSUME k = "approval.granted"
        PROVE  Answered(log'[r], Len(log'[r]))
    <3>1. \A j \in 1..Len(log'[r]) : Len(log'[r]) \in j..Len(log'[r])
      BY <1>13
    <3> QED BY <1>13, <2>4, <3>1 DEF Answered
  <2>5. /\ pc[r] = "prepare" => Answered(log'[r], Len(log'[r]))
        /\ pc[r] = "decide" => Answered(log'[r], Len(log'[r]))
    <3>1. pc[r] = "prepare" => k # Decided.RequireApproval
      BY <1>5, KindFacts
    <3> QED BY <1>5, <2>1, <2>3, <2>4, <3>1 DEF AuthOK
  <2>6. pc[r] = "decided" =>
          /\ LastIs(log'[r], Decided[outcome[r]])
          /\ outcome[r] # "RequireApproval" => Answered(log'[r], Len(log'[r]) - 1)
    <3>1. ASSUME pc[r] = "decided", outcome[r] # "RequireApproval"
          PROVE  k # Decided.RequireApproval
      BY <1>3, <1>5, <3>1, KindFacts
    <3> QED BY <1>1, <1>5, <1>13, <2>1, <2>3, <3>1 DEF AuthOK
  <2>7. pc[r] \in {"prepare", "decide", "decided", "started"} => todo'[r] = <<>>
    BY <1>5, <1>6
  <2> QED BY <1>6, <2>2, <2>5, <2>6, <2>7 DEF AuthOK
<1> QED BY <1>7, <1>8, <1>12, <1>14, <1>15, <1>16 DEF CallOK

LEMMA EventAppendPost ==
  ASSUME Inductive, NEW r \in Requests, EventAppend(r), Head(todo[r])[1] # "main"
  PROVE  CallOK(r)' /\ postLog' \in [Requests -> Seq(PostKinds)]
<1>1. TypeOK /\ CallOK(r) /\ todo[r] # <<>> /\ Owned(r)
  BY DEF Inductive, EventAppend, MayAppend
<1>2. PICK k : k = Head(todo[r])[2]
  OBVIOUS
<1>3. todo[r] \in Seq(Message) /\ pc[r] \in Pcs /\ postLog[r] \in Seq(PostKinds) /\ delivered[r] \in Nat
  BY <1>1 DEF TypeOK
<1>4. Head(todo[r]) = <<"post", k>> /\ k \in PostKinds
  <2>1. Head(todo[r]) \in Message
    BY <1>1, <1>3, TailFacts
  <2> QED BY <1>2, <2>1 DEF Message
<1>5. /\ pc[r] \notin {"idle", "prepare", "decide", "decided", "started", "launch", "deliver",
                       "outcome", "finish", "release"}
      /\ pc[r] \in {"chunkDecided", "postAllowed"} => k = Decided.Allow
  <2>1. 1 \in 1..Len(todo[r]) /\ todo[r][1] = <<"post", k>>
    BY <1>1, <1>3, <1>4, TailFacts
  <2>2. \A m : Only(todo[r], m) => m = <<"post", k>>
    BY <2>1 DEF Only
  <2>3. \A x : <<"main", x>> # <<"post", k>>
    OBVIOUS
  <2>4. <<"post", k>> = <<"post", Decided.Allow>> => k = Decided.Allow
    OBVIOUS
  <2> QED BY <1>1, <2>2, <2>3, <2>4 DEF CallOK, ScriptOK
<1>6. /\ postLog' = [postLog EXCEPT ![r] = Append(@, k)] /\ todo'[r] = Tail(todo[r]) /\ UNCHANGED log
      /\ UNCHANGED <<lease, owner, pc, outcome, needPost, out, result, invoked, delivered>>
  BY <1>1, <1>2 DEF EventAppend, TypeOK
<1>7. postLog'[r] = Append(postLog[r], k) /\ postLog' \in [Requests -> Seq(PostKinds)]
  BY <1>1, <1>3, <1>4, <1>6, AppendFacts DEF TypeOK
<1>8. ScriptOK(r)'
  BY <1>1, <1>3, <1>6, ScriptTail DEF CallOK
<1>9. PhaseOK(r)'
  <2>1. ASSUME InTodo(r, "effect.denied")'
        PROVE  InTodo(r, "effect.denied")
    <3>1. PICK i \in 1..Len(todo'[r]) : todo'[r][i] = <<"main", "effect.denied">>
      BY <2>1 DEF InTodo
    <3>2. todo[r][i + 1] = <<"main", "effect.denied">> /\ i + 1 \in 1..Len(todo[r])
      BY <1>1, <1>3, <1>6, <3>1, TailFacts
    <3> QED BY <3>2 DEF InTodo
  <2> QED BY <1>1, <1>5, <1>6, <2>1 DEF CallOK, PhaseOK, Started
<1>10. AuthOK(r)'
  BY <1>1, <1>5, <1>6 DEF CallOK, AuthOK
<1>11. EvidenceOK(r)'
  <2>1. /\ Count(postLog[r], Decided.Allow) \in Nat /\ Count(postLog'[r], Decided.Allow) \in Nat
        /\ Count(postLog'[r], Decided.Allow) >= Count(postLog[r], Decided.Allow)
        /\ k = Decided.Allow =>
             Count(postLog'[r], Decided.Allow) = Count(postLog[r], Decided.Allow) + 1
    <3>1. PICK s \in Seq(PostKinds) : s = postLog[r]
      BY <1>3
    <3>2. /\ Count(s, Decided.Allow) \in Nat /\ Count(Append(s, k), Decided.Allow) \in Nat
          /\ Count(Append(s, k), Decided.Allow) >= Count(s, Decided.Allow)
          /\ k = Decided.Allow =>
               Count(Append(s, k), Decided.Allow) = Count(s, Decided.Allow) + 1
      BY <1>4, CountAppend
    <3>3. postLog'[r] = Append(s, k)
      BY <3>1, <1>7
    <3> QED BY <3>1, <3>2, <3>3, Zenon
  <2>2. Has(postLog'[r], {Decided.Allow}) <=> Has(postLog[r], {Decided.Allow}) \/ k = Decided.Allow
    BY <1>3, <1>4, <1>7, HasAppend
  <2>3. EvidenceOK(r)
    BY <1>1 DEF CallOK
  <2>4. result[r] # "released"
    BY <1>1, <2>3 DEF EvidenceOK
  <2> QED BY <1>3, <1>5, <1>6, <2>1, <2>2, <2>3, <2>4 DEF EvidenceOK
<1>12. CloseOK(r)'
  BY <1>1, <1>6, StaysUnclosed
<1> QED BY <1>7, <1>8, <1>9, <1>10, <1>11, <1>12 DEF CallOK

LEMMA EventAppendStep ==
  ASSUME Inductive, NEW r \in Requests, EventAppend(r)
  PROVE  Inductive'
<1>1. TypeOK /\ CallOK(r) /\ todo[r] # <<>> /\ Owned(r) /\ Running(r)
  BY DEF Inductive, EventAppend, MayAppend
<1>2. /\ CallOK(r)' /\ log' \in [Requests -> Seq(MainKinds)] /\ postLog' \in [Requests -> Seq(PostKinds)]
      /\ \A q \in Requests \ {r} : log'[q] = log[q] /\ postLog'[q] = postLog[q]
  BY <1>1, EventAppendMain, EventAppendPost DEF EventAppend, TypeOK
<1>3. todo' \in [Requests -> Seq(Message)] /\ tail' \in [Requests -> Nat]
  <2>1. Tail(todo[r]) \in Seq(Message)
    <3>1. todo[r] \in Seq(Message)
      BY <1>1 DEF TypeOK
    <3> QED BY <1>1, <3>1, TailFacts
  <2> QED BY <1>1, <2>1 DEF EventAppend, TypeOK, NoTail
<1>4. TypeOK'
  BY <1>1, <1>2, <1>3 DEF EventAppend, TypeOK
<1>5. ASSUME NEW q \in Requests, q # r
      PROVE  CallOK(q)'
  <2>1. Same(q)
    BY <1>1, <1>5 DEF EventAppend, Same, TypeOK
  <2> QED BY <1>2, <1>5, <2>1, Frame DEF Inductive, EventAppend, Owned, FenceOK
<1>6. OwnersOK'
  BY DEF Inductive, OwnersOK, EventAppend
<1>7. RecoveryOK'
  BY <1>1, <1>2 DEF Inductive, RecoveryOK, EventAppend, FenceOK, Owned, Running
<1> QED BY <1>2, <1>4, <1>5, <1>6, <1>7 DEF Inductive

-----------------------------------------------------------------------------
(* New calls, new owners and their recovery. *)

LEMMA ExecuteStep ==
  ASSUME Inductive, NEW r \in Requests, NEW g \in 1..MaxGen, Execute(r, g)
  PROVE  Inductive'
<1>1. TypeOK /\ CallOK(r) /\ OwnersOK /\ RecoveryOK /\ pc[r] = "idle" /\ owner[r] = 0
  BY DEF Inductive, Execute, OwnersOK
<1>2. "effect.requested" \in MainKinds /\ "prepare" \in Pcs
  BY DEF MainKinds, Pcs
<1>3. /\ todo' \in [Requests -> Seq(Message)] /\ pc' \in [Requests -> Pcs] /\ pc'[r] = "prepare"
      /\ todo'[r] # <<>> /\ Only(todo'[r], <<"main", "effect.requested">>)
      /\ \A i \in 1..Len(todo'[r]) : todo'[r][i] = <<"main", "effect.requested">>
      /\ \A q \in Requests \ {r} : pc'[q] = pc[q] /\ todo'[q] = todo[q]
  BY <1>1, <1>2, SayOne DEF Execute
<1>4. /\ owner' \in [Requests -> 0..MaxGen] /\ owner'[r] = g
      /\ \A q \in Requests \ {r} : owner'[q] = owner[q] /\ Same(q)
  BY <1>1, <1>3, BoundsAssumption DEF Execute, TypeOK, Same
<1>5. TypeOK'
  BY <1>1, <1>3, <1>4 DEF Execute, TypeOK, journalState
<1>6. log[r] = <<>> /\ log' = log /\ Len(log[r]) = 0
  BY <1>1 DEF CallOK, PhaseOK, Execute, journalState
<1>7. CallOK(r)'
  <2>1. ScriptOK(r)'
    BY <1>3 DEF ScriptOK
  <2>2. ~InTodo(r, "effect.denied")'
    BY <1>3 DEF InTodo
  <2>3. PhaseOK(r)'
    BY <1>1, <1>3, <1>6, <2>2 DEF CallOK, PhaseOK, Execute, Started, Early, Late, Ended
  <2>4. AuthOK(r)'
    BY <1>3, <1>6 DEF AuthOK, Authorized, Answered
  <2>5. EvidenceOK(r)'
    BY <1>1, <1>3 DEF CallOK, EvidenceOK, Execute, journalState, Early
  <2>6. CloseOK(r)'
    BY <1>6 DEF CloseOK, Has
  <2> QED BY <2>1, <2>3, <2>4, <2>5, <2>6 DEF CallOK
<1>8. ASSUME NEW q \in Requests, q # r
      PROVE  CallOK(q)'
  BY <1>4, <1>8, Frame DEF Inductive, Execute, journalState, Owned, FenceOK
<1>9. OwnersOK'
  <2>1. g = gens /\ g # 0 /\ runtime[g] = "open"
    BY <1>1, BoundsAssumption DEF OwnersOK, Execute, FenceOK
  <2>2. UNCHANGED <<lease, gens, runtime>>
    BY DEF Execute, journalState
  <2>3. \A q \in Requests \ {r} : owner'[q] = owner[q] /\ pc'[q] = pc[q]
    BY <1>4 DEF Same
  <2>4. gens <= gens
    BY <1>1, BoundsAssumption DEF TypeOK
  <2> QED BY <1>1, <1>3, <1>4, <2>1, <2>2, <2>3, <2>4 DEF OwnersOK
<1>10. RecoveryOK'
  <2>1. ~PendingEffect(log[r])
    BY <1>6 DEF PendingEffect
  <2> QED BY <1>1, <1>4, <1>6, <2>1 DEF RecoveryOK, Execute, journalState, FenceOK
<1> QED BY <1>5, <1>7, <1>8, <1>9, <1>10 DEF Inductive

(* A step that changes no stream and no call. *)
LEMMA CallsKept ==
  ASSUME Inductive, UNCHANGED <<log, postLog, calls>>, TypeOK', OwnersOK', RecoveryOK',
         \A q \in Requests : Owned(q)' => Owned(q) \/ log[q] = <<>>
  PROVE  Inductive'
<1>1. ASSUME NEW q \in Requests
      PROVE  CallOK(q)'
  BY Frame DEF Inductive, calls, Same
<1> QED BY <1>1 DEF Inductive

LEMMA ClaimStep ==
  ASSUME Inductive, Claim
  PROVE  Inductive'
<1>1. TypeOK /\ OwnersOK /\ gens \in Nat /\ gens + 1 \in 1..MaxGen
  <2>1. TypeOK /\ OwnersOK
    BY DEF Inductive
  <2>2. gens \in 0..MaxGen
    BY <2>1 DEF TypeOK
  <2> QED BY <2>1, <2>2, BoundsAssumption DEF Claim
<1>2. TypeOK'
  BY <1>1, BoundsAssumption DEF Claim, TypeOK, calls
<1>3. ASSUME NEW q \in Requests
      PROVE  owner[q] # gens + 1 /\ ~Owned(q)'
  <2>1. owner[q] \in Nat /\ owner[q] <= gens
    BY <1>1, BoundsAssumption DEF TypeOK, OwnersOK
  <2> QED BY <1>1, <2>1 DEF Claim, calls, Owned, FenceOK
<1>4. OwnersOK'
  <2>1. ASSUME NEW q \in Requests
        PROVE  /\ owner[q] <= gens + 1
               /\ owner[q] = 0 <=> pc[q] = "idle"
               /\ owner[q] # 0 => runtime'[owner[q]] \in {"open", "stopped"}
    <3>1. owner[q] \in 0..MaxGen /\ owner[q] <= gens /\ owner[q] # gens + 1
      BY <1>1, <1>3 DEF TypeOK, OwnersOK
    <3>2. owner[q] # 0 => runtime'[owner[q]] = runtime[owner[q]]
      BY <1>1, <3>1, BoundsAssumption DEF Claim, TypeOK
    <3> QED BY <1>1, <3>1, <3>2, BoundsAssumption DEF OwnersOK
  <2> QED BY <2>1 DEF OwnersOK, Claim, calls
<1>5. RecoveryOK'
  BY <1>1 DEF RecoveryOK, Claim, FenceOK, TypeOK
<1> QED BY <1>2, <1>3, <1>4, <1>5, CallsKept DEF Claim

LEMMA ExpireStep ==
  ASSUME Inductive, Expire
  PROVE  Inductive'
<1>1. TypeOK' /\ OwnersOK'
  BY BoundsAssumption DEF Inductive, Expire, TypeOK, OwnersOK, calls
<1>2. RecoveryOK'
  BY BoundsAssumption DEF RecoveryOK, Expire, FenceOK
<1>3. \A q \in Requests : Owned(q)' => log[q] = <<>>
  BY DEF Inductive, Expire, calls, Owned, FenceOK, OwnersOK, CallOK, PhaseOK
<1> QED BY <1>1, <1>2, <1>3, CallsKept DEF Expire

(* An incarnation ends, by a crash or because its recovery is refused. *)
LEMMA StopStep ==
  ASSUME Inductive, NEW g \in 1..MaxGen, runtime' = [runtime EXCEPT ![g] = "stopped"],
         pending' = [pending EXCEPT ![g] = {}], UNCHANGED <<log, postLog, lease, gens, calls>>
  PROVE  Inductive'
<1>1. TypeOK'
  BY DEF Inductive, TypeOK, calls
<1>2. OwnersOK'
  BY DEF Inductive, TypeOK, OwnersOK, calls
<1>3. RecoveryOK'
  BY DEF Inductive, TypeOK, RecoveryOK, calls, FenceOK
<1> QED BY <1>1, <1>2, <1>3, CallsKept DEF calls, Owned, FenceOK

LEMMA RecoverScanStep ==
  ASSUME Inductive, NEW g \in 1..MaxGen, RecoverScan(g)
  PROVE  Inductive'
<1> DEFINE found == {<<r, Len(log[r])>> : r \in Unclosed}
<1>1. TypeOK /\ OwnersOK
  BY DEF Inductive
<1>2. found \in SUBSET (Requests \X Nat)
  <2>1. \A r \in Requests : Len(log[r]) \in Nat
    BY <1>1 DEF TypeOK
  <2> QED BY <2>1 DEF Unclosed
<1>3. \A r \in Requests : PendingEffect(log[r]) <=> <<r, Len(log[r])>> \in found
  BY DEF Unclosed
<1>4. /\ runtime' = [runtime EXCEPT ![g] = "closing"] /\ pending' = [pending EXCEPT ![g] = found]
      /\ UNCHANGED <<log, postLog, lease, gens, calls>> /\ lease = g /\ runtime[g] = "recovering"
  BY DEF RecoverScan, FenceOK
<1> HIDE DEF found
<1>5. TypeOK'
  BY <1>1, <1>2, <1>4 DEF TypeOK, calls
<1>6. OwnersOK'
  BY <1>1, <1>4 DEF TypeOK, OwnersOK, calls
<1>7. runtime'[g] = "closing" /\ pending'[g] = found
  BY <1>1, <1>4 DEF TypeOK
<1>8. RecoveryOK'
  BY <1>3, <1>4, <1>7 DEF RecoveryOK, FenceOK
<1> QED BY <1>4, <1>5, <1>6, <1>8, CallsKept DEF calls, Owned, FenceOK

LEMMA RecoverDoneStep ==
  ASSUME Inductive, NEW g \in 1..MaxGen, RecoverDone(g)
  PROVE  Inductive'
<1>1. TypeOK'
  BY DEF Inductive, RecoverDone, TypeOK, calls
<1>2. OwnersOK'
  BY DEF Inductive, RecoverDone, TypeOK, OwnersOK, calls
<1>3. RecoveryOK'
  <2>1. /\ runtime[g] = "closing" /\ pending[g] = {}
        /\ UNCHANGED <<log, lease, pending, owner>>
    BY DEF RecoverDone, calls
  <2>2. runtime'[g] = "open" /\ \A h \in 1..MaxGen : h # g => runtime'[h] = runtime[h]
    BY DEF Inductive, TypeOK, RecoverDone
  <2>3. RecoveryOK
    BY DEF Inductive
  <2>4. FenceOK(g) => \A r \in Requests : ~PendingEffect(log[r])
    BY <2>1, <2>3 DEF RecoveryOK
  <2> QED BY <2>1, <2>2, <2>3, <2>4 DEF RecoveryOK, FenceOK
<1> QED BY <1>1, <1>2, <1>3, CallsKept DEF RecoverDone, calls, Owned, FenceOK

LEMMA RecoverEffectStep ==
  ASSUME Inductive, NEW g \in 1..MaxGen, NEW r \in Requests, RecoverEffect(g, r)
  PROVE  Inductive'
<1>1. /\ TypeOK /\ OwnersOK /\ RecoveryOK /\ CallOK(r)
      /\ lease = g /\ runtime[g] = "closing" /\ <<r, Len(log[r])>> \in pending[g]
  BY DEF Inductive, RecoverEffect, FenceOK
<1>2. log[r] \in Seq(MainKinds) /\ "effect.outcome_unknown" \in MainKinds
  BY <1>1 DEF TypeOK, MainKinds
<1>3. PendingEffect(log[r])
  BY <1>1 DEF RecoveryOK, FenceOK
<1>4. Started(r) /\ ~Has(log[r], Closing) /\ log[r] # <<>>
  BY <1>1, <1>2, <1>3, PendingIsOpen
<1>5. /\ log'[r] = Append(log[r], "effect.outcome_unknown") /\ log' \in [Requests -> Seq(MainKinds)]
      /\ \A q \in Requests \ {r} : log'[q] = log[q]
      /\ UNCHANGED <<postLog, lease, gens, runtime, calls>>
  BY <1>1, <1>2, AppendFacts DEF RecoverEffect, TypeOK
<1>6. /\ Len(log[r]) \in Nat /\ Len(log'[r]) = Len(log[r]) + 1
      /\ log'[r][Len(log[r]) + 1] = "effect.outcome_unknown"
      /\ \A i \in 1..Len(log[r]) : log'[r][i] = log[r][i]
      /\ \A i \in 1..Len(log'[r]) : i = Len(log'[r]) \/ i \in 1..Len(log[r])
  BY <1>2, <1>5, AppendFacts
<1>7. pending' \in [1..MaxGen -> SUBSET (Requests \X Nat)] /\ pending'[g] = {p \in pending[g] : p[1] # r}
  BY <1>1 DEF RecoverEffect, TypeOK
<1>8. TypeOK'
  BY <1>1, <1>5, <1>7 DEF TypeOK, calls
<1>9. owner[r] # g
  BY <1>1, BoundsAssumption DEF OwnersOK
<1>10. \A K : Has(log'[r], K) <=> Has(log[r], K) \/ "effect.outcome_unknown" \in K
  BY <1>2, <1>5, HasAppend
<1>11. CallOK(r)'
  <2>1. pc[r] \notin Early /\ (pc[r] = "started" => todo[r] = <<>>)
    BY <1>1, <1>4 DEF CallOK, PhaseOK
  <2>2. ScriptOK(r)'
    BY <1>1, <1>5 DEF CallOK, ScriptOK, calls
  <2>3. PhaseOK(r)'
    <3>1. Started(r)' /\ (Has(log'[r], {"effect.denied"}) <=> Has(log[r], {"effect.denied"}))
          /\ (Has(log'[r], {"effect.completed"}) <=> Has(log[r], {"effect.completed"}))
      BY <1>4, <1>10 DEF Started
    <3> QED BY <1>1, <1>4, <1>5, <2>1, <3>1 DEF CallOK, PhaseOK, InTodo, calls, Early
  <2>4. AuthOK(r)'
    <3>1. Authorized(log'[r])
      <4> SUFFICES ASSUME NEW i \in 1..Len(log'[r]), log'[r][i] = "effect.started"
                   PROVE  /\ i > 1 /\ log'[r][i - 1] = Decided.Allow
                          /\ \A j \in 1..i : log'[r][j] = Decided.RequireApproval =>
                               \E n \in j..(i - 2) : log'[r][n] = "approval.granted"
        BY DEF Authorized
      <4>1. i \in 1..Len(log[r]) /\ log[r][i] = "effect.started"
        BY <1>6
      <4>2. /\ i > 1 /\ log[r][i - 1] = Decided.Allow
            /\ \A j \in 1..i : log[r][j] = Decided.RequireApproval =>
                 \E n \in j..(i - 2) : log[r][n] = "approval.granted"
        BY <1>1, <4>1 DEF CallOK, AuthOK, Authorized
      <4>3. i - 1 \in 1..Len(log[r]) /\ \A j \in 1..i : j \in 1..Len(log[r])
        BY <1>6, <4>1, <4>2
      <4>4. \A j \in 1..i : \A n \in j..(i - 2) : n \in 1..Len(log[r])
        BY <1>6, <4>1
      <4> QED BY <1>6, <4>2, <4>3, <4>4
    <3> QED BY <1>5, <2>1, <3>1 DEF AuthOK, calls, Early
  <2>5. EvidenceOK(r)'
    <3>1. /\ Count(log[r], "effect.chunk_released") \in Nat /\ Count(log'[r], "effect.chunk_released") \in Nat
          /\ Count(log'[r], "effect.chunk_released") >= Count(log[r], "effect.chunk_released")
      BY <1>2, <1>5, CountAppend
    <3>2. ~LastIs(log[r], "effect.completed")
      BY <1>2, <1>4 DEF LastIs, Has, Closing, Terminal
    <3>3. delivered[r] \in Nat /\ EvidenceOK(r)
      BY <1>1 DEF TypeOK, CallOK
    <3>4. result[r] # "released" /\ (pc[r] = "release" => todo[r] # <<>>)
      BY <3>2, <3>3 DEF EvidenceOK
    <3> QED BY <1>5, <3>1, <3>3, <3>4 DEF EvidenceOK, calls
  <2>6. CloseOK(r)'
    <3>1. \A i \in 1..Len(log'[r]) : log'[r][i] \in Closing => i = Len(log'[r])
      BY <1>4, <1>6 DEF Has
    <3>2. ~Owned(r)'
      BY <1>1, <1>5, <1>9 DEF Owned, FenceOK, calls
    <3> QED BY <3>1, <3>2 DEF CloseOK
  <2> QED BY <2>2, <2>3, <2>4, <2>5, <2>6 DEF CallOK
<1>12. ASSUME NEW q \in Requests, q # r
       PROVE  CallOK(q)'
  BY <1>5, <1>12, Frame DEF Inductive, calls, Same, Owned, FenceOK
<1>13. OwnersOK'
  BY <1>1, <1>5 DEF OwnersOK, calls
<1>14. RecoveryOK'
  <2>1. ~PendingEffect(log'[r])
    <3>1. \A i \in 1..Len(log'[r]) : log'[r][i] = "effect.started" => Len(log'[r]) \in (i + 1)..Len(log'[r])
      BY <1>6
    <3>2. log'[r][Len(log'[r])] \in Terminal
      BY <1>6 DEF Terminal
    <3> QED BY <3>1, <3>2 DEF PendingEffect
  <2>2. \A q \in Requests : <<q, Len(log'[q])>> \in pending'[g] <=>
                             q # r /\ <<q, Len(log[q])>> \in pending[g]
    BY <1>5, <1>7
  <2> QED BY <1>1, <1>5, <2>1, <2>2 DEF RecoveryOK, FenceOK
<1> QED BY <1>8, <1>11, <1>12, <1>13, <1>14 DEF Inductive

-----------------------------------------------------------------------------
(* The inductive invariant and the theorems. *)

LEMMA InitInductive == Init => Inductive
<1> SUFFICES ASSUME Init
             PROVE  Inductive
  OBVIOUS
<1>1. TypeOK
  BY BoundsAssumption DEF Init, TypeOK, NoTail, Pcs
<1>2. OwnersOK /\ RecoveryOK
  BY BoundsAssumption DEF Init, OwnersOK, RecoveryOK, FenceOK
<1>3. ASSUME NEW r \in Requests
      PROVE  CallOK(r)
  <2>1. /\ log[r] = <<>> /\ postLog[r] = <<>> /\ todo[r] = <<>> /\ pc[r] = "idle" /\ invoked[r] = 0
        /\ delivered[r] = 0 /\ result[r] = "none" /\ ~needPost[r]
    BY DEF Init
  <2>2. Len(log[r]) = 0 /\ Len(todo[r]) = 0
    BY <2>1
  <2>3. ScriptOK(r)
    BY <2>1 DEF ScriptOK
  <2>4. PhaseOK(r)
    BY <2>1, <2>2 DEF PhaseOK, Started, Has, InTodo, Early, Late, Ended
  <2>5. AuthOK(r)
    BY <2>1, <2>2 DEF AuthOK, Authorized
  <2>6. EvidenceOK(r)
    <3>1. Count(log[r], "effect.chunk_released") \in Nat
      BY <1>1, CountNat DEF TypeOK
    <3> QED BY <2>1, <3>1 DEF EvidenceOK
  <2>7. CloseOK(r)
    BY <2>2 DEF CloseOK, Has
  <2> QED BY <2>3, <2>4, <2>5, <2>6, <2>7 DEF CallOK
<1> QED BY <1>1, <1>2, <1>3 DEF Inductive

LEMMA NextInductive == Inductive /\ [Next]_vars => Inductive'
<1> SUFFICES ASSUME Inductive, [Next]_vars
             PROVE  Inductive'
  OBVIOUS
<1>1. ASSUME NEW r \in Requests, Settle(r)
      PROVE  Inductive'
  BY <1>1, EventReadStep, EventAppendStep, EventFailsStep, AbandonStep, OutcomeStep, CompleteStep,
     PostRequestStep, PostDecideStep, PostCompleteStep, ReleaseStep, ChunkReleaseStep DEF Settle
<1>2. ASSUME NEW r \in Requests, Adapter(r)
      PROVE  Inductive'
  BY <1>2, AdapterReturnsStep, ObserveChunkStep, ChunkDecideStep, DeliverStep DEF Adapter
<1>3. ASSUME NEW r \in Requests, Authorize(r)
      PROVE  Inductive'
  BY <1>3, ExecuteStep, PrepareStep, DecideStep, RequestApprovalStep, ApproveStep, DisapproveStep,
     DenyStep, StartStep, VerifyStartedOwnerStep, LaunchStep DEF Authorize
<1>4. ASSUME NEW g \in 1..MaxGen, Recover(g)
      PROVE  Inductive'
  <2>1. ASSUME RecoverRefused(g)
        PROVE  Inductive'
    BY <2>1, StopStep DEF RecoverRefused
  <2> QED BY <1>4, <2>1, RecoverScanStep, RecoverDoneStep, RecoverEffectStep DEF Recover
<1>5. ASSUME NEW g \in 1..MaxGen, Crash(g)
      PROVE  Inductive'
  BY <1>5, StopStep DEF Crash
<1>6. CASE UNCHANGED vars
  <2>1. TypeOK' /\ OwnersOK' /\ RecoveryOK'
    BY <1>6 DEF Inductive, TypeOK, OwnersOK, RecoveryOK, FenceOK, vars, calls
  <2> QED BY <1>6, <2>1, CallsKept DEF vars, calls, Owned, FenceOK
<1> QED BY <1>1, <1>2, <1>3, <1>4, <1>5, <1>6, ClaimStep, ExpireStep DEF Next

LEMMA InductiveHolds == Spec => []Inductive
BY InitInductive, NextInductive, PTL DEF Spec

(* Every effect is accounted for once and truthfully: a stream has at most *)
(* one closing event and nothing after it, whether the call or a later     *)
(* owner's recovery wrote it; a denied effect never reached the adapter,   *)
(* one that reached it did so once and after effect.started was durable,   *)
(* and only a success is recorded completed.  For any number of requests,  *)
(* owners and crashes.                                                     *)
THEOREM EffectsAreAccountedFor == Spec => []OutcomeAccounted
<1>1. Inductive => OutcomeAccounted
  <2> SUFFICES ASSUME Inductive
               PROVE  OutcomeAccounted
    OBVIOUS
  <2>1. ClosedOnce
    BY DEF Inductive, CallOK, CloseOK, ClosedOnce, Closing
  <2>2. RecordedOutcomeIsTrue
    BY DEF Inductive, CallOK, PhaseOK, RecordedOutcomeIsTrue, Started
  <2> QED BY <2>1, <2>2 DEF OutcomeAccounted, Inductive
<1> QED BY <1>1, InductiveHolds, PTL

(* No effect is started that the latest recorded decision does not allow,  *)
(* and every decision that asked for approval has its grant before that    *)
(* decision.                                                               *)
THEOREM StartsAreAuthorized == Spec => []StartedIsAuthorized
<1>1. Inductive => StartedIsAuthorized
  BY DEF Inductive, CallOK, AuthOK, Authorized, StartedIsAuthorized
<1> QED BY <1>1, InductiveHolds, PTL

(* Whatever leaves the gateway, a result or a chunk, has its events, and   *)
(* where required its release decisions, on record before.                 *)
THEOREM ReleasesAreEvidenced == Spec => []ReleaseIsEvidenced
<1>1. Inductive => ReleaseIsEvidenced
  BY DEF Inductive, CallOK, EvidenceOK, LastIs, ReleaseIsEvidenced
<1> QED BY <1>1, InductiveHolds, PTL

(* An owner that serves has left no effect of an earlier owner open, and   *)
(* none of theirs opens or closes any more.                                *)
THEOREM TakeoversLeaveNothingOpen == Spec => []TakeoverLeavesNothingOpen
<1>1. Inductive => TakeoverLeavesNothingOpen
  BY OpenIsPending DEF Inductive, RecoveryOK, TakeoverLeavesNothingOpen
<1> QED BY <1>1, InductiveHolds, PTL
=============================================================================
