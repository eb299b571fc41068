---------------------------- MODULE EffectGateway ----------------------------
(***************************************************************************)
(* The effect gateway, crates/colossus-policy/src/gateway.rs: every        *)
(* external effect (model call, tool, command, export) is requested,       *)
(* decided, perhaps approved and decided again, started, executed into     *)
(* quarantine, perhaps decided a third time for release, and completed,    *)
(* each stage a journal event on the stream effect:<request_id>.           *)
(*                                                                         *)
(* Several incarnations of the runtime own the journal one after the       *)
(* other.  An owner may crash, and in the hosted deployment may lose its   *)
(* lease while it goes on running; the next owner first closes what its    *)
(* predecessors started (recover_unknown_effects in colossus-runtime).     *)
(*                                                                         *)
(* A call's next events wait in todo; event() reads the stream's tail and  *)
(* then appends at the version it read, and the call goes on at pc only    *)
(* when all of them are durable.  The streams effect:<id>:post and         *)
(* effect:<id>:post:chunk:<n> hold a call's release decisions; only the    *)
(* call itself writes them, and they are kept as one sequence.             *)
(***************************************************************************)
EXTENDS Naturals, Sequences, FiniteSets

CONSTANTS
    Requests,      \* effect requests, each with its own request_id
    Streaming,     \* those that run through execute_stream
    Commands,      \* those with a command approval context
    RiskAuto,      \* approvals.risk_auto_enabled()
    Fenced,        \* TRUE: hosted, with a RuntimeExecutionFence
    MaxGen,        \* bound: incarnations of the runtime
    MaxChunks,     \* bound: chunks a streaming adapter offers
    MaxPending     \* MAX_PENDING_EFFECT_RECOVERIES, 1024 in the code

ASSUME RequestsAssumption == /\ Streaming \subseteq Requests
                             /\ Commands \subseteq Requests
ASSUME ModeAssumption == Fenced \in BOOLEAN /\ RiskAuto \in BOOLEAN
ASSUME BoundsAssumption == /\ MaxGen \in Nat \ {0}
                           /\ MaxChunks \in Nat
                           /\ MaxPending \in Nat

VARIABLES
    log,        \* the stream effect:<r>, as event kinds
    postLog,    \* the release streams of r
    lease,      \* the incarnation owning the journal, 0 when nobody does
    gens,       \* incarnations so far
    runtime,    \* what each incarnation is doing
    pending,    \* recoveries found at startup: <<request, stream version>>
    owner,      \* the incarnation executing the call, 0 before the call
    pc,         \* where the call is once todo is empty
    todo,       \* events the call is about to append
    tail,       \* one more than the version event() read, or NoTail
    outcome,    \* the last policy decision of the call
    needPost,   \* its obligation require_post_effect
    approved,   \* request.approval is set
    auto,       \* the risk review approved automatically
    failure,    \* the stream sink's sticky failure
    chunks,     \* chunks offered to the sink so far
    out,        \* what the adapter's execution came to
    result,     \* what the caller got
    invoked,    \* ghost: how often the adapter was started
    delivered   \* ghost: chunks handed to the caller's observer

calls == <<owner, pc, todo, tail, outcome, needPost, approved, auto, failure,
           chunks, out, result, invoked, delivered>>
vars == <<log, postLog, lease, gens, runtime, pending, calls>>

-----------------------------------------------------------------------------
(* Event kinds, streams and terminal events. *)

NoTail == 0

Decided == [Allow |-> "policy.decided:Allow",
            RequireApproval |-> "policy.decided:RequireApproval",
            Deny |-> "policy.decided:Deny"]

MainKinds ==
    {Decided[o] : o \in DOMAIN Decided} \cup
    {"effect.requested", "effect.denied", "policy.error",
     "approval.requested", "approval.denied", "approval.error",
     "approval.granted", "risk.review.ineligible", "risk.review.requested",
     "risk.review.unavailable", "risk.review.completed", "effect.started",
     "effect.chunk_released", "effect.completed", "effect.failed",
     "effect.outcome_unknown"}

PostKinds ==
    {Decided[o] : o \in DOMAIN Decided} \cup
    {"effect.release_requested", "effect.release_denied", "policy.error",
     "effect.denied"}

Message == ({"main"} \X MainKinds) \cup ({"post"} \X PostKinds)

Terminal == {"effect.completed", "effect.failed", "effect.outcome_unknown"}

Has(s, K) == \E i \in 1..Len(s) : s[i] \in K

(* Mutant: only the newest event of the stream is looked at. *)
PendingEffectNewest(s) == s # <<>> /\ s[Len(s)] = "effect.started"

(* Scanning the stream backwards, effect.started comes before a terminal. *)
PendingEffect(s) ==
    \E i \in 1..Len(s) :
        /\ s[i] = "effect.started"
        /\ \A j \in (i + 1)..Len(s) : s[j] \notin Terminal

-----------------------------------------------------------------------------
(* Control of one call. *)

FenceOK(g) == lease = g

Owned(r) == FenceOK(owner[r])

Running(r) == owner[r] # 0 /\ runtime[owner[r]] = "open"

Pcs == {"idle", "prepare", "decide", "decided", "asking", "started", "launch",
        "executing", "chunkDecide", "chunkDecided", "deliver", "outcome",
        "finish", "postDecide", "postAllowed", "release", "returned"}

(* The call is at l and all its events so far are durable. *)
At(r, l) ==
    /\ Running(r)
    /\ pc[r] = l /\ todo[r] = <<>>

Goto(r, l) == pc' = [pc EXCEPT ![r] = l]

(* Append these events to the effect's stream, then go on at l. *)
Say(r, kinds, l) ==
    /\ todo' = [todo EXCEPT ![r] =
                  [i \in 1..Len(kinds) |-> <<"main", kinds[i]>>]]
    /\ Goto(r, l)

SayPost(r, kinds, l) ==
    /\ todo' = [todo EXCEPT ![r] =
                  [i \in 1..Len(kinds) |-> <<"post", kinds[i]>>]]
    /\ Goto(r, l)

Result(r, v) == result' = [result EXCEPT ![r] = v]

Unknown(r) == Result(r, "unknown") /\ Goto(r, "returned") /\ UNCHANGED todo

journalState == <<log, postLog, lease, gens, runtime, pending>>

-----------------------------------------------------------------------------
(* event(): read the tail, then append at the version read. *)

StreamOf(r, m) == IF m[1] = "main" THEN log[r] ELSE postLog[r]

EventRead(r) ==
    /\ Running(r)
    /\ todo[r] # <<>> /\ tail[r] = NoTail
    /\ Owned(r)
    /\ tail' = [tail EXCEPT ![r] = Len(StreamOf(r, Head(todo[r]))) + 1]
    /\ UNCHANGED <<journalState, owner, pc, todo, outcome, needPost, approved,
                   auto, failure, chunks, out, result, invoked, delivered>>

(* Mutants: neither fence nor version; the version alone. *)
MayAppendAlways(r) == TRUE

MayAppendUnfenced(r) == tail[r] = Len(StreamOf(r, Head(todo[r]))) + 1

(* The fence is looked at again inside the append's transaction. *)
MayAppend(r) ==
    Owned(r) /\ tail[r] = Len(StreamOf(r, Head(todo[r]))) + 1

EventAppend(r) ==
    /\ Running(r)
    /\ todo[r] # <<>> /\ tail[r] # NoTail
    /\ MayAppend(r)
    /\ LET m == Head(todo[r]) IN
         IF m[1] = "main"
         THEN /\ log' = [log EXCEPT ![r] = Append(@, m[2])]
              /\ UNCHANGED postLog
         ELSE /\ postLog' = [postLog EXCEPT ![r] = Append(@, m[2])]
              /\ UNCHANGED log
    /\ todo' = [todo EXCEPT ![r] = Tail(@)]
    /\ tail' = [tail EXCEPT ![r] = NoTail]
    /\ UNCHANGED <<lease, gens, runtime, pending, owner, pc, outcome, needPost,
                   approved, auto, failure, chunks, out, result, invoked,
                   delivered>>

ChunkPcs == {"chunkDecide", "chunkDecided", "deliver"}

(* The read or the append fails: fence lost, conflict or storage error.    *)
(* Inside the stream sink that is a sticky Unknown; elsewhere it is the    *)
(* call's result.                                                          *)
EventFails(r) ==
    /\ Running(r)
    /\ todo[r] # <<>>
    /\ todo' = [todo EXCEPT ![r] = <<>>]
    /\ tail' = [tail EXCEPT ![r] = NoTail]
    /\ IF pc[r] \in ChunkPcs \/ (pc[r] = "executing" /\ failure[r] # "none")
       THEN /\ failure' = [failure EXCEPT ![r] = "unknown"]
            /\ Goto(r, "executing")
            /\ UNCHANGED result
       ELSE /\ Result(r, "error")
            /\ Goto(r, "returned")
            /\ UNCHANGED failure
    /\ UNCHANGED <<journalState, owner, outcome, needPost, approved, auto,
                   chunks, out, invoked, delivered>>

-----------------------------------------------------------------------------
(* execute_internal, up to effect.started. *)

Execute(r, g) ==
    /\ owner[r] = 0
    /\ runtime[g] = "open"
    /\ FenceOK(g)
    /\ owner' = [owner EXCEPT ![r] = g]
    /\ Say(r, <<"effect.requested">>, "prepare")
    /\ UNCHANGED <<journalState, tail, outcome, needPost, approved, auto,
                   failure, chunks, out, result, invoked, delivered>>

Prepare(r) ==
    /\ At(r, "prepare")
    /\ \/ Goto(r, "decide") /\ UNCHANGED <<todo, result>>
       \/ Say(r, <<"effect.denied">>, "returned") /\ Result(r, "error")
    /\ UNCHANGED <<journalState, owner, tail, outcome, needPost, approved,
                   auto, failure, chunks, out, invoked, delivered>>

(* The policy is unavailable or its decision invalid: fail closed. *)
PolicyFailure == <<"policy.error", "effect.denied">>

Decide(r) ==
    /\ At(r, "decide")
    /\ \/ /\ Say(r, PolicyFailure, "returned")
          /\ Result(r, "error")
          /\ UNCHANGED <<outcome, needPost>>
       \/ \E o \in DOMAIN Decided, p \in BOOLEAN :
            /\ p => o = "Allow"
            /\ outcome' = [outcome EXCEPT ![r] = o]
            /\ needPost' = [needPost EXCEPT ![r] = p]
            /\ Say(r, <<Decided[o]>>, "decided")
            /\ UNCHANGED result
    /\ UNCHANGED <<journalState, owner, tail, approved, auto, failure, chunks,
                   out, invoked, delivered>>

(* review_risk: not enabled, not eligible, no usable answer, or an answer. *)
RiskReview ==
    IF ~RiskAuto THEN {<<>>}
    ELSE {<<"risk.review.ineligible">>,
          <<"risk.review.requested", "risk.review.unavailable">>,
          <<"risk.review.requested", "risk.review.completed">>}

CommandContext(r) == IF r \in Commands THEN <<"approval.requested">> ELSE <<>>

NeedsApproval(r) == outcome[r] = "RequireApproval" /\ ~approved[r]

RequestApproval(r) ==
    /\ At(r, "decided")
    /\ NeedsApproval(r)
    /\ \E review \in RiskReview, a \in BOOLEAN :
         /\ a => Has(review, {"risk.review.completed"})
         /\ auto' = [auto EXCEPT ![r] = a]
         /\ Say(r, CommandContext(r) \o review, "asking")
    /\ UNCHANGED <<journalState, owner, tail, outcome, needPost, approved,
                   failure, chunks, out, result, invoked, delivered>>

(* Mutant: the grant is taken for the decision. *)
ApproveFinal(r) ==
    /\ At(r, "asking")
    /\ approved' = [approved EXCEPT ![r] = TRUE]
    /\ outcome' = [outcome EXCEPT ![r] = "Allow"]
    /\ Say(r, <<"approval.granted">>, "decided")
    /\ UNCHANGED <<journalState, owner, tail, needPost, auto, failure, chunks,
                   out, result, invoked, delivered>>

(* A proof bound to this very request; then the policy decides again. *)
Approve(r) ==
    /\ At(r, "asking")
    /\ approved' = [approved EXCEPT ![r] = TRUE]
    /\ Say(r, <<"approval.granted">>, "decide")
    /\ UNCHANGED <<journalState, owner, tail, outcome, needPost, auto, failure,
                   chunks, out, result, invoked, delivered>>

(* Declined, provider error, or a proof bound to a different request. *)
Disapprove(r) ==
    /\ At(r, "asking")
    /\ ~auto[r]
    /\ \E notes \in {<<"approval.denied", "effect.denied">>,
                     <<"approval.error", "effect.denied">>, <<>>} :
         Say(r, notes, "returned")
    /\ Result(r, "error")
    /\ UNCHANGED <<journalState, owner, tail, outcome, needPost, approved,
                   auto, failure, chunks, out, invoked, delivered>>

Deny(r) ==
    /\ At(r, "decided")
    /\ outcome[r] # "Allow" /\ ~NeedsApproval(r)
    /\ Say(r, <<"effect.denied">>, "returned")
    /\ Result(r, "denied")
    /\ UNCHANGED <<journalState, owner, tail, outcome, needPost, approved,
                   auto, failure, chunks, out, invoked, delivered>>

(* Mutant: the adapter is called before effect.started is durable. *)
StartEarly(r) ==
    /\ At(r, "decided")
    /\ outcome[r] = "Allow"
    /\ Say(r, <<"effect.started">>, "executing")
    /\ invoked' = [invoked EXCEPT ![r] = @ + 1]
    /\ UNCHANGED <<journalState, owner, tail, outcome, needPost, approved,
                   auto, failure, chunks, out, result, delivered>>

(* The permit is minted for this request and decision and consumed here;   *)
(* it is refused when it has expired meanwhile.                            *)
Start(r) ==
    /\ At(r, "decided")
    /\ outcome[r] = "Allow"
    /\ \/ Say(r, <<"effect.started">>, "started") /\ UNCHANGED result
       \/ Goto(r, "returned") /\ Result(r, "error") /\ UNCHANGED todo
    /\ UNCHANGED <<journalState, owner, tail, outcome, needPost, approved,
                   auto, failure, chunks, out, invoked, delivered>>

-----------------------------------------------------------------------------
(* execute_owned: the adapter runs under a timeout and an ownership tick. *)

VerifyStartedOwner(r) ==
    /\ At(r, "started")
    /\ IF Owned(r) THEN Goto(r, "launch") /\ UNCHANGED <<todo, result>>
                   ELSE Unknown(r)
    /\ UNCHANGED <<journalState, owner, tail, outcome, needPost, approved,
                   auto, failure, chunks, out, invoked, delivered>>

Launch(r) ==
    /\ At(r, "launch")
    /\ invoked' = [invoked EXCEPT ![r] = @ + 1]
    /\ Goto(r, "executing")
    /\ UNCHANGED <<journalState, owner, todo, tail, outcome, needPost,
                   approved, auto, failure, chunks, out, result, delivered>>

(* What the adapter may come back with.  A streaming adapter that reports  *)
(* success is overruled by the sink's failure, and must have streamed.     *)
Outcomes(r) ==
    {"failed", "unknown"} \cup
    IF r \notin Streaming THEN {"ok", "rejected"}
    ELSE CASE failure[r] # "none" -> {failure[r]}
           [] failure[r] = "none" /\ delivered[r] = 0 -> {}
           [] failure[r] = "none" /\ delivered[r] > 0 -> {"ok"}

AdapterReturns(r) ==
    /\ At(r, "executing")
    /\ \E o \in Outcomes(r) : out' = [out EXCEPT ![r] = o]
    /\ Goto(r, "outcome")
    /\ UNCHANGED <<journalState, owner, todo, tail, outcome, needPost,
                   approved, auto, failure, chunks, result, invoked, delivered>>

(* Mutant: there is no deadline, only the ownership tick. *)
AbandonUnowned(r) ==
    /\ \E l \in {"executing", "chunkDecide", "deliver"} : At(r, l)
    /\ ~Owned(r)
    /\ out' = [out EXCEPT ![r] = "unknown"]
    /\ Goto(r, "outcome")
    /\ UNCHANGED <<journalState, owner, todo, tail, outcome, needPost,
                   approved, auto, failure, chunks, result, invoked, delivered>>

(* The deadline passes, or the tick finds the lease lost, and the adapter's*)
(* future is dropped wherever it awaits, the stream sink included.         *)
Abandon(r) ==
    /\ \E l \in {"executing", "chunkDecide", "deliver"} : At(r, l)
    /\ out' = [out EXCEPT ![r] = "unknown"]
    /\ Goto(r, "outcome")
    /\ UNCHANGED <<journalState, owner, todo, tail, outcome, needPost, approved,
                   auto, failure, chunks, result, invoked, delivered>>

(* The fence is verified on the result before anything is said about it.   *)
Outcome(r) ==
    /\ At(r, "outcome")
    /\ IF ~Owned(r) THEN Unknown(r) ELSE
         \/ /\ out[r] = "ok"
            /\ Goto(r, "finish")
            /\ UNCHANGED <<todo, result>>
         \/ /\ out[r] \in {"failed", "rejected"}
            /\ Say(r, <<"effect.failed">>, "returned")
            /\ Result(r, "error")
         \/ /\ out[r] = "unknown"
            /\ Say(r, <<"effect.outcome_unknown">>, "returned")
            /\ Result(r, "unknown")
         \/ /\ out[r] = "denied"
            /\ Goto(r, "returned")
            /\ Result(r, "denied")
            /\ UNCHANGED todo
    /\ UNCHANGED <<journalState, owner, tail, outcome, needPost, approved,
                   auto, failure, chunks, out, invoked, delivered>>

-----------------------------------------------------------------------------
(* Release of the quarantined output. *)

(* Mutant: the result is released before its event is durable. *)
CompleteUnrecorded(r) ==
    /\ At(r, "finish")
    /\ ~needPost[r] \/ r \in Streaming
    /\ Goto(r, "release")
    /\ UNCHANGED <<journalState, owner, todo, tail, outcome, needPost,
                   approved, auto, failure, chunks, out, result, invoked,
                   delivered>>

Complete(r) ==
    /\ At(r, "finish")
    /\ ~needPost[r] \/ r \in Streaming
    /\ Say(r, <<"effect.completed">>, "release")
    /\ UNCHANGED <<journalState, owner, tail, outcome, needPost, approved,
                   auto, failure, chunks, out, result, invoked, delivered>>

(* The post-effect request is prepared, or refused by the kernel. *)
PostRequest(r) ==
    /\ At(r, "finish")
    /\ needPost[r] /\ r \notin Streaming
    /\ \/ /\ SayPost(r, <<"effect.release_requested">>, "postDecide")
          /\ UNCHANGED result
       \/ Goto(r, "returned") /\ Result(r, "error") /\ UNCHANGED todo
    /\ UNCHANGED <<journalState, owner, tail, outcome, needPost, approved,
                   auto, failure, chunks, out, invoked, delivered>>

PostDecide(r) ==
    /\ At(r, "postDecide")
    /\ \/ /\ SayPost(r, PolicyFailure, "returned")
          /\ Result(r, "error")
       \/ /\ SayPost(r, <<Decided.Allow>>, "postAllowed")
          /\ UNCHANGED result
       \/ \E o \in {"RequireApproval", "Deny"} :
            /\ SayPost(r, <<Decided[o], "effect.release_denied">>, "returned")
            /\ Result(r, "denied")
    /\ UNCHANGED <<journalState, owner, tail, outcome, needPost, approved,
                   auto, failure, chunks, out, invoked, delivered>>

PostComplete(r) ==
    /\ At(r, "postAllowed")
    /\ Say(r, <<"effect.completed">>, "release")
    /\ UNCHANGED <<journalState, owner, tail, outcome, needPost, approved,
                   auto, failure, chunks, out, result, invoked, delivered>>

Release(r) ==
    /\ At(r, "release")
    /\ Result(r, "released")
    /\ Goto(r, "returned")
    /\ UNCHANGED <<journalState, owner, todo, tail, outcome, needPost,
                   approved, auto, failure, chunks, out, invoked, delivered>>

-----------------------------------------------------------------------------
(* The stream sink: every chunk is decided, recorded and then delivered. *)

SinkFails(r, f) ==
    /\ failure' = [failure EXCEPT ![r] = f]
    /\ Goto(r, "executing")

(* A failed chunk, one over the output bound, or one that may be released; *)
(* the owner is verified first, and the kernel may refuse to prepare.      *)
ObserveChunk(r) ==
    /\ At(r, "executing")
    /\ r \in Streaming /\ failure[r] = "none"
    /\ chunks[r] < MaxChunks
    /\ chunks' = [chunks EXCEPT ![r] = @ + 1]
    /\ \/ \E f \in {"failed", "unknown"} : SinkFails(r, f) /\ UNCHANGED todo
       \/ /\ Owned(r) /\ needPost[r]
          /\ SayPost(r, <<"effect.release_requested">>, "chunkDecide")
          /\ UNCHANGED failure
       \/ /\ Owned(r) /\ ~needPost[r]
          /\ Say(r, <<"effect.chunk_released">>, "deliver")
          /\ UNCHANGED failure
    /\ UNCHANGED <<journalState, owner, tail, outcome, needPost, approved,
                   auto, out, result, invoked, delivered>>

ChunkDecide(r) ==
    /\ At(r, "chunkDecide")
    /\ \/ /\ SayPost(r, PolicyFailure, "executing")
          /\ failure' = [failure EXCEPT ![r] = "unknown"]
       \/ /\ SayPost(r, <<Decided.Allow>>, "chunkDecided")
          /\ UNCHANGED failure
       \/ \E o \in {"RequireApproval", "Deny"} :
            /\ SayPost(r, <<Decided[o], "effect.release_denied">>, "executing")
            /\ failure' = [failure EXCEPT ![r] = "denied"]
    /\ UNCHANGED <<journalState, owner, tail, outcome, needPost, approved,
                   auto, chunks, out, result, invoked, delivered>>

ChunkRelease(r) ==
    /\ At(r, "chunkDecided")
    /\ Say(r, <<"effect.chunk_released">>, "deliver")
    /\ UNCHANGED <<journalState, owner, tail, outcome, needPost, approved,
                   auto, failure, chunks, out, result, invoked, delivered>>

(* The caller's observer sees the chunk, and may report an error of its own.*)
Deliver(r) ==
    /\ At(r, "deliver")
    /\ delivered' = [delivered EXCEPT ![r] = @ + 1]
    /\ \E f \in {"none", "unknown", "denied"} : SinkFails(r, f)
    /\ UNCHANGED <<journalState, owner, todo, tail, outcome, needPost,
                   approved, auto, chunks, out, result, invoked>>

-----------------------------------------------------------------------------
(* Ownership, and recovery of effects left open by earlier owners. *)

Claim ==
    /\ lease = 0
    /\ gens < MaxGen
    /\ gens' = gens + 1
    /\ lease' = gens + 1
    /\ runtime' = [runtime EXCEPT ![gens + 1] = "recovering"]
    /\ UNCHANGED <<log, postLog, pending, calls>>

(* A dead owner's lease ends; a live one's only if leases can expire. *)
Expire ==
    /\ lease # 0
    /\ Fenced \/ runtime[lease] = "stopped"
    /\ lease' = 0
    /\ UNCHANGED <<log, postLog, gens, runtime, pending, calls>>

Crash(g) ==
    /\ runtime[g] # "stopped"
    /\ runtime' = [runtime EXCEPT ![g] = "stopped"]
    /\ pending' = [pending EXCEPT ![g] = {}]
    /\ UNCHANGED <<log, postLog, lease, gens, calls>>

Unclosed == {r \in Requests : PendingEffect(log[r])}

(* More pending effects than the bound make startup fail. *)
RecoverScan(g) ==
    /\ runtime[g] = "recovering"
    /\ FenceOK(g)
    /\ Cardinality(Unclosed) <= MaxPending
    /\ runtime' = [runtime EXCEPT ![g] = "closing"]
    /\ pending' = [pending EXCEPT ![g] =
                     {<<r, Len(log[r])>> : r \in Unclosed}]
    /\ UNCHANGED <<log, postLog, lease, gens, calls>>

RecoverEffect(g, r) ==
    /\ runtime[g] = "closing"
    /\ FenceOK(g)
    /\ <<r, Len(log[r])>> \in pending[g]
    /\ log' = [log EXCEPT ![r] = Append(@, "effect.outcome_unknown")]
    /\ pending' = [pending EXCEPT ![g] = {p \in @ : p[1] # r}]
    /\ UNCHANGED <<postLog, lease, gens, runtime, calls>>

(* Mutant: recovery waits for a lease it has lost. *)
RecoverRefusedBound(g) ==
    /\ runtime[g] = "recovering" /\ Cardinality(Unclosed) > MaxPending
    /\ runtime' = [runtime EXCEPT ![g] = "stopped"]
    /\ pending' = [pending EXCEPT ![g] = {}]
    /\ UNCHANGED <<log, postLog, lease, gens, calls>>

(* Fence lost, bound exceeded or a version conflict: the runtime does not  *)
(* start.                                                                  *)
RecoverRefused(g) ==
    /\ \/ runtime[g] = "recovering" /\ Cardinality(Unclosed) > MaxPending
       \/ runtime[g] \in {"recovering", "closing"} /\ ~FenceOK(g)
       \/ /\ runtime[g] = "closing"
          /\ \E p \in pending[g] : p[2] # Len(log[p[1]])
    /\ runtime' = [runtime EXCEPT ![g] = "stopped"]
    /\ pending' = [pending EXCEPT ![g] = {}]
    /\ UNCHANGED <<log, postLog, lease, gens, calls>>

RecoverDone(g) ==
    /\ runtime[g] = "closing"
    /\ pending[g] = {}
    /\ runtime' = [runtime EXCEPT ![g] = "open"]
    /\ UNCHANGED <<log, postLog, lease, gens, pending, calls>>

-----------------------------------------------------------------------------
Init ==
    /\ log = [r \in Requests |-> <<>>]
    /\ postLog = [r \in Requests |-> <<>>]
    /\ lease = 0
    /\ gens = 0
    /\ runtime = [g \in 1..MaxGen |-> "stopped"]
    /\ pending = [g \in 1..MaxGen |-> {}]
    /\ owner = [r \in Requests |-> 0]
    /\ pc = [r \in Requests |-> "idle"]
    /\ todo = [r \in Requests |-> <<>>]
    /\ tail = [r \in Requests |-> NoTail]
    /\ outcome = [r \in Requests |-> "none"]
    /\ needPost = [r \in Requests |-> FALSE]
    /\ approved = [r \in Requests |-> FALSE]
    /\ auto = [r \in Requests |-> FALSE]
    /\ failure = [r \in Requests |-> "none"]
    /\ chunks = [r \in Requests |-> 0]
    /\ out = [r \in Requests |-> "none"]
    /\ result = [r \in Requests |-> "none"]
    /\ invoked = [r \in Requests |-> 0]
    /\ delivered = [r \in Requests |-> 0]

(* Steps nobody outside the gateway holds up: its own, the adapter's       *)
(* deadline, and the release decision of a policy that answers in time.    *)
Settle(r) ==
    \/ EventRead(r) \/ EventAppend(r) \/ EventFails(r)
    \/ Abandon(r) \/ Outcome(r)
    \/ Complete(r) \/ PostRequest(r) \/ PostDecide(r) \/ PostComplete(r)
    \/ Release(r) \/ ChunkRelease(r)

(* Steps of the adapter, and of the sink it calls. *)
Adapter(r) ==
    \/ AdapterReturns(r) \/ ObserveChunk(r) \/ ChunkDecide(r) \/ Deliver(r)

Authorize(r) ==
    \/ \E g \in 1..MaxGen : Execute(r, g)
    \/ Prepare(r) \/ Decide(r) \/ RequestApproval(r) \/ Approve(r)
    \/ Disapprove(r) \/ Deny(r) \/ Start(r)
    \/ VerifyStartedOwner(r) \/ Launch(r)

Recover(g) ==
    \/ RecoverScan(g) \/ RecoverRefused(g) \/ RecoverDone(g)
    \/ \E r \in Requests : RecoverEffect(g, r)

Next ==
    \/ \E r \in Requests : Settle(r) \/ Adapter(r) \/ Authorize(r)
    \/ \E g \in 1..MaxGen : Recover(g) \/ Crash(g)
    \/ Claim \/ Expire

Spec == Init /\ [][Next]_vars

(* The adapter itself owes nothing; neither do approvals, new owners and   *)
(* crashes.                                                                *)
FairSpec ==
    /\ Spec
    /\ \A r \in Requests : WF_vars(Settle(r))
    /\ \A g \in 1..MaxGen : WF_vars(Recover(g))

-----------------------------------------------------------------------------
(* Properties. *)

(* Started, and without a terminal event anywhere. *)
OpenEffect(s) == Has(s, {"effect.started"}) /\ ~Has(s, Terminal)

(* Every variable keeps its type: in particular only known event kinds are *)
(* appended, each to the stream it belongs to.                             *)
TypeOK ==
    /\ log \in [Requests -> Seq(MainKinds)]
    /\ postLog \in [Requests -> Seq(PostKinds)]
    /\ lease \in 0..MaxGen
    /\ gens \in 0..MaxGen
    /\ runtime \in [1..MaxGen -> {"stopped", "recovering", "closing", "open"}]
    /\ pending \in [1..MaxGen -> SUBSET (Requests \X Nat)]
    /\ owner \in [Requests -> 0..MaxGen]
    /\ pc \in [Requests -> Pcs]
    /\ todo \in [Requests -> Seq(Message)]
    /\ tail \in [Requests -> Nat]
    /\ outcome \in [Requests -> {"none"} \cup DOMAIN Decided]
    /\ needPost \in [Requests -> BOOLEAN]
    /\ approved \in [Requests -> BOOLEAN]
    /\ auto \in [Requests -> BOOLEAN]
    /\ failure \in [Requests -> {"none", "failed", "unknown", "denied"}]
    /\ chunks \in [Requests -> Nat]
    /\ out \in [Requests -> {"none", "ok", "rejected", "failed", "unknown",
                              "denied"}]
    /\ result \in [Requests -> {"none", "error", "denied", "unknown",
                                 "released"}]
    /\ invoked \in [Requests -> Nat]
    /\ delivered \in [Requests -> Nat]

(* The last event that closes an effect is the last event of its stream:   *)
(* an effect is closed once, whether its own gateway or a later owner's    *)
(* recovery does it, and nothing is recorded for it afterwards.            *)
ClosedOnce ==
    \A r \in Requests : \A i \in 1..Len(log[r]) :
        log[r][i] \in Terminal \cup {"effect.denied"} => i = Len(log[r])

(* effect.started is only ever recorded when the latest decision on record *)
(* is Allow, and a decision that required approval has been answered by a  *)
(* grant which that latest decision has seen.                              *)
StartedIsAuthorized ==
    \A r \in Requests : \A i \in 1..Len(log[r]) :
        log[r][i] = "effect.started" =>
            /\ i > 1 /\ log[r][i - 1] = Decided.Allow
            /\ \A j \in 1..i : log[r][j] = Decided.RequireApproval =>
                 \E k \in j..(i - 2) : log[r][k] = "approval.granted"

(* What the stream says of an effect is true of the world: a denied effect *)
(* never reached the adapter, one that reached it did so once and after    *)
(* effect.started was durable, and only a success is recorded completed.   *)
RecordedOutcomeIsTrue ==
    \A r \in Requests :
        /\ Has(log[r], {"effect.denied"}) => invoked[r] = 0
        /\ invoked[r] > 0 => invoked[r] = 1 /\ Has(log[r], {"effect.started"})
        /\ Has(log[r], {"effect.completed"}) => out[r] = "ok"

(* An effect is accounted for once and truthfully, across owners, crashes  *)
(* and late results.                                                       *)
OutcomeAccounted == TypeOK /\ ClosedOnce /\ RecordedOutcomeIsTrue

Count(s, k) == Cardinality({i \in 1..Len(s) : s[i] = k})

(* Output leaves the gateway only on durable evidence: a released result   *)
(* is recorded completed, never outcome_unknown, whoever owns the journal  *)
(* by then; required release decisions are on record; and no chunk is      *)
(* delivered that is not recorded and, where required, decided.            *)
ReleaseIsEvidenced ==
    \A r \in Requests :
        /\ result[r] = "released" =>
             /\ log[r][Len(log[r])] = "effect.completed"
             /\ needPost[r] => Has(postLog[r], {Decided.Allow})
        /\ delivered[r] <= Count(log[r], "effect.chunk_released")
        /\ needPost[r] => delivered[r] <= Count(postLog[r], Decided.Allow)

(* When a new owner starts serving, no effect of an earlier owner is left  *)
(* open, and none can be opened or closed behind its back.                 *)
TakeoverLeavesNothingOpen ==
    \A g \in 1..MaxGen : runtime[g] = "open" /\ FenceOK(g) =>
        \A r \in Requests : owner[r] # g => ~OpenEffect(log[r])

(* A call whose adapter was launched returns: the deadline, the ownership  *)
(* tick and the sink's sticky failures leave it no place to wait for ever. *)
LaunchedCallReturns ==
    \A r \in Requests :
        pc[r] = "executing" ~> pc[r] = "returned" \/ ~Running(r)

(* Recovery of every owner ends, in service or in a refusal to start: time *)
(* and again none of the owners is still at it.                            *)
RecoveryEnds ==
    []<>(\A g \in 1..MaxGen : runtime[g] \in {"open", "stopped"})

(* docs/develop/security-architecture.md: "a terminal event closes the     *)
(* lifecycle".  A call that returns Denied has no open effect behind it.   *)
DeniedCallIsClosed ==
    \A r \in Requests :
        pc[r] = "returned" /\ todo[r] = <<>> /\ result[r] = "denied"
            => ~OpenEffect(log[r])
=============================================================================
