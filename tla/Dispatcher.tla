------------------------------- MODULE Dispatcher -------------------------------
(***************************************************************************)
(* The tool dispatch pipeline of core/dispatcher.py: resolve, validate,    *)
(* authorize, rate limit, concurrency slot, attempts with a timeout and    *)
(* backoff, audit.  dispatch_many() runs a batch of calls behind a gate of *)
(* its own; a single dispatch() is a batch of one.                         *)
(*                                                                         *)
(* Every action is the code from one suspension point to the next, and     *)
(* pc[c] names the point where call c waits.  A cancellation is delivered  *)
(* at that point.  The event sink may be asynchronous, so each emitted     *)
(* event is a suspension point.                                            *)
(***************************************************************************)
EXTENDS Integers, FiniteSets, SequencesExt

CONSTANTS
  Calls,          \* invocations; each is dispatched at most once
  Batches, BatchOf,  \* the batch of a call
  Gated,          \* calls of tools with requires_scope
  Limited,        \* calls of tools with a rate limit
  MaxAttempts,    \* call -> attempt budget
  MaxConcurrency, AuditSize,
  FailClosed,     \* config.fail_closed_without_scope
  Scopes, NoScope,
  Allows          \* scope -> the calls its rules and risk cap allow

ASSUME DispatcherAssumption ==
  /\ IsFiniteSet(Calls)
  /\ BatchOf \in [Calls -> Batches]
  /\ Gated \subseteq Calls /\ Limited \subseteq Calls
  /\ MaxAttempts \in [Calls -> Nat \ {0}]
  /\ MaxConcurrency \in Nat \ {0} /\ AuditSize \in Nat
  /\ FailClosed \in BOOLEAN
  /\ NoScope \notin Scopes
  /\ Allows \in [Scopes -> SUBSET Calls]

VARIABLES
  scope,      \* the dispatcher's _scope
  expired,    \* scopes whose expires_at has passed
  given,      \* batch -> the scope in the context it runs with
  limit,      \* batch -> how many of its calls the gate lets in
  dry,        \* the batches whose context is a dry run
  pc,         \* call -> where it waits
  grantedBy,  \* call -> the scope that authorized it (auth_metadata)
  granted,    \* the calls past the authorization stage
  attempt,    \* call -> attempt
  ran,        \* call -> how often its tool was invoked
  lastError,  \* call -> last_error
  permits,    \* the value of _semaphore
  outcome,    \* call -> the status of its ToolResult
  audit,      \* _audit, by call
  counters,   \* _counters
  endings     \* history: the calls in the order in which they got their results

policy  == <<scope, expired, given, limit, dry>>
gate    == <<granted, grantedBy>>
work    == <<attempt, ran, lastError, permits>>
trail   == <<outcome, audit, counters, endings>>
vars    == <<policy, pc, gate, work, trail>>

Verdicts == {"not_found", "invalid", "denied", "rate_limited", "success",
             "timeout", "error", "cancelled"}
Inside   == {"denying", "limited", "starting", "queued", "running", "backoff",
             "reporting", "cancelling"}
Ended    == {"done", "raised"}

TypeOK ==
  /\ scope \in Scopes \union {NoScope} /\ expired \in SUBSET Scopes
  /\ given \in [Batches -> Scopes \union {NoScope}]
  /\ limit \in [Batches -> Nat] /\ dry \in SUBSET Batches
  /\ pc \in [Calls -> {"new", "gate"} \union Inside \union Ended]
  /\ granted \in SUBSET Calls
  /\ grantedBy \in [Calls -> Scopes \union {NoScope}]
  /\ attempt \in [Calls -> Nat] /\ ran \in [Calls -> Nat]
  /\ lastError \in [Calls -> {"none", "timeout", "error"}]
  /\ permits \in 0..MaxConcurrency
  /\ outcome \in [Calls -> Verdicts \union {"none"}]
  /\ audit \in Seq(Calls) /\ Len(audit) <= AuditSize
  /\ counters \in [Verdicts -> Nat]
  /\ endings \in Seq(Calls)

Init ==
  /\ scope \in Scopes \union {NoScope} /\ expired = {}
  /\ given = [b \in Batches |-> NoScope]
  /\ limit = [b \in Batches |-> 0] /\ dry = {}
  /\ pc = [c \in Calls |-> "new"]
  /\ granted = {} /\ grantedBy = [c \in Calls |-> NoScope]
  /\ attempt = [c \in Calls |-> 0] /\ ran = [c \in Calls |-> 0]
  /\ lastError = [c \in Calls |-> "none"]
  /\ permits = MaxConcurrency
  /\ outcome = [c \in Calls |-> "none"]
  /\ audit = <<>> /\ counters = [v \in Verdicts |-> 0] /\ endings = <<>>

-----------------------------------------------------------------------------
(* The operator's side: scopes are replaced and expire while calls run.    *)

SetScope(s) ==
  /\ scope' = s /\ s # scope
  /\ UNCHANGED <<expired, given, limit, dry, pc, gate, work, trail>>

Expire(s) ==
  /\ s \notin expired
  /\ expired' = expired \union {s}
  /\ UNCHANGED <<scope, given, limit, dry, pc, gate, work, trail>>

\* AuthorizationScope.check, as far as the pipeline tells its verdicts apart.
Permits(s, c) == s \notin expired /\ c \in Allows[s]

-----------------------------------------------------------------------------
(* finish(): the result, its place in the audit trail, its counter.        *)

AppendBounded(seq, c) ==
  LET longer == Append(seq, c) IN
  SubSeq(longer, IF Len(longer) > AuditSize THEN Len(longer) - AuditSize + 1 ELSE 1,
         Len(longer))

Finish(c, status) ==
  /\ outcome' = [outcome EXCEPT ![c] = status]
  /\ audit' = AppendBounded(audit, c)
  /\ counters' = [counters EXCEPT ![status] = @ + 1]
  /\ endings' = Append(endings, c)

Goto(c, where) == pc' = [pc EXCEPT ![c] = where]

-----------------------------------------------------------------------------
(* dispatch_many() and the stages before the first attempt.                *)

\* The batch gets its context: the caller's, with or without a scope in it and
\* perhaps a dry run, or one made of the dispatcher's scope; its calls wait at
\* the gate, which is as wide as max_concurrency says, else as the batch.
DispatchMany(b, s, dryRun, width) ==
  /\ \A c \in Calls : BatchOf[c] = b => pc[c] = "new"
  /\ given' = [given EXCEPT ![b] = s]
  /\ limit' = [limit EXCEPT ![b] = width]
  /\ dry' = IF dryRun THEN dry \union {b} ELSE dry
  /\ pc' = [c \in Calls |-> IF BatchOf[c] = b THEN "gate" ELSE pc[c]]
  /\ UNCHANGED <<scope, expired, gate, work, trail>>

InBatch(b) == {c \in Calls : BatchOf[c] = b /\ pc[c] \in Inside}

\* The gate lets call c into dispatch().
Enters(c) ==
  /\ pc[c] = "gate"
  /\ Cardinality(InBatch(BatchOf[c])) < limit[BatchOf[c]]

\* The scope the call is checked against: the context's, else the dispatcher's.
InForce(c) == IF given[BatchOf[c]] # NoScope THEN given[BatchOf[c]] ELSE scope

\* The tool is not registered, or its arguments are not valid, or a
\* scope-gated tool got no target.
Reject(c, status) ==
  /\ Enters(c)
  /\ Finish(c, status) /\ Goto(c, "done")
  /\ UNCHANGED <<policy, gate, work>>

\* Stage 3 without any scope.
RefuseUnscoped(c) ==
  /\ Enters(c) /\ c \in Gated /\ InForce(c) = NoScope /\ FailClosed
  /\ Finish(c, "denied") /\ Goto(c, "done")
  /\ UNCHANGED <<policy, gate, work>>

\* Stage 3: the scope refuses; "tool.denied" is emitted before the record.
Refuse(c) ==
  /\ Enters(c) /\ c \in Gated
  /\ InForce(c) # NoScope /\ ~Permits(InForce(c), c)
  /\ Goto(c, "denying")
  /\ UNCHANGED <<policy, gate, work, trail>>

\* Mutated form: the refusal is reported and the pipeline goes on.
DeniedGoesOn(c) ==
  /\ pc[c] = "denying"
  /\ Goto(c, "starting")
  /\ UNCHANGED <<policy, gate, work, trail>>

Denied(c) ==
  /\ pc[c] = "denying"
  /\ Finish(c, "denied") /\ Goto(c, "done")
  /\ UNCHANGED <<policy, gate, work>>

Cleared(c) ==
  \/ c \notin Gated
  \/ InForce(c) = NoScope /\ ~FailClosed
  \/ InForce(c) # NoScope /\ Permits(InForce(c), c)

\* Past stage 3: a dry run ends here, the others go to the limiter or on.
Authorize(c) ==
  /\ Enters(c) /\ Cleared(c)
  /\ granted' = granted \union {c}
  /\ grantedBy' = [grantedBy EXCEPT ![c] = IF c \in Gated THEN InForce(c) ELSE NoScope]
  /\ IF BatchOf[c] \in dry
       THEN Finish(c, "success") /\ Goto(c, "done")
       ELSE Goto(c, IF c \in Limited THEN "limited" ELSE "starting") /\ UNCHANGED trail
  /\ UNCHANGED <<policy, work>>

\* Stage 4: a token, or none within the limiter's timeout.
TokenGranted(c) ==
  /\ pc[c] = "limited"
  /\ Goto(c, "starting")
  /\ UNCHANGED <<policy, gate, work, trail>>

TokenRefused(c) ==
  /\ pc[c] = "limited"
  /\ Finish(c, "rate_limited") /\ Goto(c, "done")
  /\ UNCHANGED <<policy, gate, work>>

-----------------------------------------------------------------------------
(* The attempt loop.                                                       *)

\* The sink took "tool.start", or the backoff is over: the next attempt
\* waits for a concurrency slot.
NextAttempt(c) ==
  /\ pc[c] \in {"starting", "backoff"}
  /\ attempt' = [attempt EXCEPT ![c] = @ + 1]
  /\ Goto(c, "queued")
  /\ UNCHANGED <<policy, gate, ran, lastError, permits, trail>>

\* A slot is free: the tool runs under its timeout.
Acquire(c) ==
  /\ pc[c] = "queued" /\ permits > 0
  /\ permits' = permits - 1
  /\ ran' = [ran EXCEPT ![c] = @ + 1]
  /\ Goto(c, "running")
  /\ UNCHANGED <<policy, gate, attempt, lastError, trail>>

Release == permits' = permits + 1

ToolReturns(c) ==
  /\ pc[c] = "running"
  /\ Release /\ Finish(c, "success") /\ Goto(c, "reporting")
  /\ UNCHANGED <<policy, gate, attempt, ran, lastError>>

\* The tool's own scope check refused: a deny, never a retry.
ToolRefuses(c) ==
  /\ pc[c] = "running"
  /\ Release /\ Finish(c, "denied") /\ Goto(c, "done")
  /\ UNCHANGED <<policy, gate, attempt, ran, lastError>>

\* Mutated form: the slot of a failed attempt is kept for the retry.
ToolFailsKeepsSlot(c, err) ==
  /\ pc[c] = "running"
  /\ lastError' = [lastError EXCEPT ![c] = err]
  /\ IF attempt[c] < MaxAttempts[c]
       THEN Goto(c, "backoff") /\ UNCHANGED <<permits, trail>>
       ELSE Release /\ Finish(c, err) /\ Goto(c, "reporting")
  /\ UNCHANGED <<policy, gate, attempt, ran>>

\* Timeout or error: back off while attempts are left, else the last error
\* is the outcome.
ToolFails(c, err) ==
  /\ pc[c] = "running"
  /\ Release
  /\ lastError' = [lastError EXCEPT ![c] = err]
  /\ IF attempt[c] < MaxAttempts[c]
       THEN Goto(c, "backoff") /\ UNCHANGED trail
       ELSE Finish(c, err) /\ Goto(c, "reporting")
  /\ UNCHANGED <<policy, gate, attempt, ran>>

\* The sink took "tool.success" or "tool.failure".
Reported(c) ==
  /\ pc[c] = "reporting"
  /\ Goto(c, "done")
  /\ UNCHANGED <<policy, gate, work, trail>>

-----------------------------------------------------------------------------
(* Cancellation, by where it meets the call.                               *)

\* In the wait for a slot or in the tool: recorded, then reported.
CancelAttempt(c) ==
  /\ pc[c] \in {"queued", "running"}
  /\ permits' = IF pc[c] = "running" THEN permits + 1 ELSE permits
  /\ Finish(c, "cancelled") /\ Goto(c, "cancelling")
  /\ UNCHANGED <<policy, gate, attempt, ran, lastError>>

\* The sink took "tool.cancelled", or a second cancellation met it there.
CancelReported(c) ==
  /\ pc[c] = "cancelling"
  /\ Goto(c, "raised")
  /\ UNCHANGED <<policy, gate, work, trail>>

\* Mutated form: the handler of the attempt covers the report as well.
CancelRecordsAgain(c) ==
  /\ pc[c] \in {"gate", "denying", "limited", "starting", "backoff", "reporting"}
  /\ IF pc[c] = "reporting" THEN Finish(c, "cancelled") ELSE UNCHANGED trail
  /\ Goto(c, "raised")
  /\ UNCHANGED <<policy, gate, work>>

\* Anywhere else no handler sees it: at the gate, in the limiter, in the
\* backoff or in an event the error goes straight to the caller.
CancelElsewhere(c) ==
  /\ pc[c] \in {"gate", "denying", "limited", "starting", "backoff", "reporting"}
  /\ Goto(c, "raised")
  /\ UNCHANGED <<policy, gate, work, trail>>

-----------------------------------------------------------------------------
CallStep(c) ==
  \/ \E status \in {"not_found", "invalid"} : Reject(c, status)
  \/ RefuseUnscoped(c) \/ Refuse(c) \/ Denied(c) \/ Authorize(c)
  \/ TokenGranted(c) \/ TokenRefused(c)
  \/ NextAttempt(c) \/ Acquire(c)
  \/ ToolReturns(c) \/ ToolRefuses(c)
  \/ \E err \in {"timeout", "error"} : ToolFails(c, err)
  \/ Reported(c) \/ CancelReported(c)

Next ==
  \/ \E c \in Calls : CallStep(c) \/ CancelAttempt(c) \/ CancelElsewhere(c)
  \/ \E b \in Batches, s \in Scopes \union {NoScope}, dryRun \in BOOLEAN :
       \E width \in 1..Cardinality(Calls) : DispatchMany(b, s, dryRun, width)
  \/ \E s \in Scopes \union {NoScope} : SetScope(s)
  \/ \E s \in Scopes : Expire(s)

Spec == Init /\ [][Next]_vars

\* The event loop runs ready tasks; the limiter, the tool and the backoff all
\* have a time limit, and the sink returns.  Nobody has to cancel.
FairSpec == Spec /\ \A c \in Calls : WF_vars(CallStep(c))

-----------------------------------------------------------------------------
Recorded == {c \in Calls : outcome[c] # "none"}
Running  == {c \in Calls : pc[c] = "running"}

\* Every path out of an attempt gives its slot back exactly once, so that at
\* most max_concurrency tools run and the ceiling never shrinks.
SlotsExact == permits + Cardinality(Running) = MaxConcurrency

\* No path through retries, denials and cancellations records a call twice, in
\* whatever order calls of several batches end; the bounded trail holds the last
\* AuditSize results, in the order in which they came, and the counters agree
\* with all the results there ever were.
AuditExact ==
  /\ \A i, k \in 1..Len(endings) : endings[i] = endings[k] => i = k
  /\ {endings[i] : i \in 1..Len(endings)} = Recorded
  /\ Len(audit) = IF Len(endings) < AuditSize THEN Len(endings) ELSE AuditSize
  /\ \A i \in 1..Len(audit) : audit[i] = endings[Len(endings) - Len(audit) + i]
  /\ \A v \in Verdicts : counters[v] = Cardinality({c \in Calls : outcome[c] = v})

\* A call that returned has a result ("A ToolResult is always produced"), and
\* a call still on its way to one has none.
ReturnsResult ==
  \A c \in Calls :
    /\ pc[c] \in {"done", "reporting", "cancelling"} => outcome[c] # "none"
    /\ pc[c] \notin Ended \union {"reporting", "cancelling"} => outcome[c] = "none"

\* Where a call is says whether it was granted and how often its tool ran.
StagesAgree ==
  \A c \in Calls :
    /\ pc[c] \in {"new", "gate", "denying"} => c \notin granted
    /\ pc[c] \in {"limited", "starting", "queued", "running", "backoff"} => c \in granted
    /\ pc[c] \in {"new", "gate", "denying", "limited", "starting"} => attempt[c] = 0 /\ ran[c] = 0
    /\ pc[c] = "queued" => attempt[c] = ran[c] + 1 /\ ran[c] < MaxAttempts[c]
    /\ pc[c] = "running" => attempt[c] = ran[c] /\ ran[c] <= MaxAttempts[c]
    /\ pc[c] = "backoff" => attempt[c] = ran[c] /\ ran[c] < MaxAttempts[c]

\* Inductive; it carries the refinement of ToolGate.
DispatchInv == TypeOK /\ SlotsExact /\ ReturnsResult /\ StagesAgree

\* Tools execute only between the grant and the verdict, within the budget:
\* the whole pipeline implements ToolGate.
Gatekeeper == INSTANCE ToolGate
  WITH Budget <- MaxAttempts, grant <- granted, executions <- ran, verdict <- outcome
ImplementsToolGate == Gatekeeper!Spec

\* Every call that entered its batch comes to an end.
CallsEnd == \A c \in Calls : pc[c] \in {"gate"} \union Inside ~> pc[c] \in Ended

\* "Record the outcome in an immutable audit trail": a call whose tool ran
\* leaves a record, however it ended.
ExecutionsAudited == \A c \in Calls : pc[c] \in Ended /\ ran[c] > 0 => outcome[c] # "none"
=============================================================================
