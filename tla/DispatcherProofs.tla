---------------------------- MODULE DispatcherProofs ----------------------------
(***************************************************************************)
(* Theorems about Dispatcher, for every set of calls, batches and scopes,  *)
(* every attempt budget, concurrency ceiling and audit size.               *)
(***************************************************************************)
EXTENDS Dispatcher, FiniteSetTheorems, TLAPS

-----------------------------------------------------------------------------
(* Slots.                                                                  *)

LEMMA RunningIsFinite ==
  ASSUME TypeOK
  PROVE  IsFiniteSet(Running) /\ Cardinality(Running) \in Nat
<1>1. Running \subseteq Calls
  BY DEF Running
<1> QED
  BY <1>1, FS_Subset, FS_CardinalityType, DispatcherAssumption

LEMMA SlotTaken ==
  ASSUME TypeOK, SlotsExact, NEW c \in Calls, pc[c] # "running", permits > 0,
         permits' = permits - 1, Goto(c, "running")
  PROVE  SlotsExact' /\ permits' \in 0..MaxConcurrency
<1>1. Running' = Running \union {c} /\ c \notin Running
  BY DEF TypeOK, Running, Goto
<1>2. Cardinality(Running') = Cardinality(Running) + 1
  BY <1>1, RunningIsFinite, FS_AddElement
<1>3. Cardinality(Running) \in Nat
  BY RunningIsFinite
<1>4. permits \in Nat /\ MaxConcurrency \in Nat
      /\ permits + Cardinality(Running) = MaxConcurrency
  BY DispatcherAssumption DEF TypeOK, SlotsExact
<1>5. permits' \in 0..MaxConcurrency /\ permits' + Cardinality(Running') = MaxConcurrency
  BY <1>2, <1>3, <1>4
<1> QED
  BY <1>5 DEF SlotsExact

LEMMA SlotGiven ==
  ASSUME TypeOK, SlotsExact, NEW c \in Calls, NEW where, pc[c] = "running", where # "running",
         Release, Goto(c, where)
  PROVE  SlotsExact' /\ permits' \in 0..MaxConcurrency
<1>1. Running' = Running \ {c} /\ c \in Running
  BY DEF TypeOK, Running, Goto
<1>2. Cardinality(Running') = Cardinality(Running) - 1
  BY <1>1, RunningIsFinite, FS_RemoveElement
<1>3. Cardinality(Running') \in Nat
  BY <1>1, RunningIsFinite, FS_Subset, FS_CardinalityType
<1>4. permits \in Nat /\ MaxConcurrency \in Nat /\ permits' = permits + 1
      /\ permits + Cardinality(Running) = MaxConcurrency
  BY DispatcherAssumption DEF TypeOK, SlotsExact, Release
<1>5. permits' + Cardinality(Running') = MaxConcurrency
  BY <1>2, <1>4, RunningIsFinite
<1> QED
  BY <1>3, <1>4, <1>5 DEF SlotsExact

LEMMA SlotKept ==
  ASSUME TypeOK, SlotsExact, NEW c \in Calls, NEW where, pc[c] # "running", where # "running",
         UNCHANGED permits, Goto(c, where)
  PROVE  SlotsExact'
<1>1. Running' = Running
  BY DEF TypeOK, Running, Goto
<1> QED
  BY <1>1 DEF SlotsExact

-----------------------------------------------------------------------------
(* The audit trail.                                                        *)

LEMMA SuffixOf ==
  ASSUME NEW S, NEW q \in Seq(S), NEW n \in 1..(Len(q) + 1)
  PROVE  /\ SubSeq(q, n, Len(q)) \in Seq(S)
         /\ Len(SubSeq(q, n, Len(q))) = Len(q) - n + 1
         /\ \A i \in 1..(Len(q) - n + 1) : SubSeq(q, n, Len(q))[i] = q[i + n - 1]
OBVIOUS

\* What the bounded append keeps: the newest AuditSize entries.
LEMMA AppendBoundedKeeps ==
  ASSUME NEW q \in Seq(Calls), NEW c \in Calls, Len(q) <= AuditSize
  PROVE  LET r == AppendBounded(q, c)
             n == IF Len(q) < AuditSize THEN 0 ELSE Len(q) + 1 - AuditSize
         IN  /\ r \in Seq(Calls)
             /\ n \in Nat /\ Len(r) = Len(q) + 1 - n /\ Len(r) <= AuditSize
             /\ \A i \in 1..Len(r) : r[i] = Append(q, c)[i + n]
<1> DEFINE longer == Append(q, c)
           n == IF Len(q) < AuditSize THEN 0 ELSE Len(q) + 1 - AuditSize
<1>1. longer \in Seq(Calls) /\ Len(longer) = Len(q) + 1 /\ Len(q) \in Nat
  OBVIOUS
<1>2. n \in Nat /\ n + 1 \in 1..(Len(longer) + 1)
  BY <1>1, DispatcherAssumption
<1>3. AppendBounded(q, c) = SubSeq(longer, n + 1, Len(longer))
  <2>1. n + 1 = IF Len(longer) > AuditSize THEN Len(longer) - AuditSize + 1 ELSE 1
    BY <1>1, DispatcherAssumption
  <2> QED
    BY <2>1 DEF AppendBounded
<1>4. Len(longer) - (n + 1) + 1 = Len(q) + 1 - n /\ Len(q) + 1 - n <= AuditSize
  BY <1>1, <1>2, DispatcherAssumption
<1> HIDE DEF longer, n
<1>5. /\ AppendBounded(q, c) \in Seq(Calls)
      /\ Len(AppendBounded(q, c)) = Len(q) + 1 - n
      /\ \A i \in 1..(Len(q) + 1 - n) : AppendBounded(q, c)[i] = longer[i + (n + 1) - 1]
  <2>1. /\ SubSeq(longer, n + 1, Len(longer)) \in Seq(Calls)
        /\ Len(SubSeq(longer, n + 1, Len(longer))) = Len(longer) - (n + 1) + 1
        /\ \A i \in 1..(Len(longer) - (n + 1) + 1) :
              SubSeq(longer, n + 1, Len(longer))[i] = longer[i + (n + 1) - 1]
    BY <1>1, <1>2, SuffixOf
  <2> QED
    BY <1>3, <1>4, <2>1, Zenon
<1>6. \A i \in 1..(Len(q) + 1 - n) : AppendBounded(q, c)[i] = longer[i + n]
  BY <1>1, <1>2, <1>5
<1> QED
  BY <1>2, <1>4, <1>5, <1>6 DEF longer, n

LEMMA FinishTyped ==
  ASSUME TypeOK, NEW c \in Calls, NEW status \in Verdicts, Finish(c, status)
  PROVE  /\ outcome' \in [Calls -> Verdicts \union {"none"}]
         /\ audit' \in Seq(Calls) /\ Len(audit') <= AuditSize
         /\ counters' \in [Verdicts -> Nat]
         /\ endings' \in Seq(Calls)
<1>1. audit' \in Seq(Calls) /\ Len(audit') <= AuditSize
  BY AppendBoundedKeeps DEF Finish, TypeOK
<1>2. /\ outcome' \in [Calls -> Verdicts \union {"none"}] /\ counters' \in [Verdicts -> Nat]
      /\ endings' \in Seq(Calls)
  BY DEF Finish, TypeOK
<1> QED
  BY <1>1, <1>2

-----------------------------------------------------------------------------
(* The inductive invariant and the refinement, action by action.           *)

LEMMA DispatchInit == Init => DispatchInv /\ Gatekeeper!Init
<1> SUFFICES ASSUME Init PROVE DispatchInv /\ Gatekeeper!Init
  OBVIOUS
<1>1. Running = {} /\ Cardinality(Running) = 0
  <2>1. Running = {}
    BY DEF Init, Running
  <2> QED
    BY <2>1, FS_EmptySet
<1>2. TypeOK
  <2>1. audit \in Seq(Calls) /\ Len(audit) = 0
    BY DEF Init
  <2>2. permits \in 0..MaxConcurrency
    BY DispatcherAssumption DEF Init
  <2>3. Len(audit) <= AuditSize
    BY <2>1, DispatcherAssumption
  <2> QED
    BY <2>1, <2>2, <2>3 DEF Init, TypeOK
<1>3. SlotsExact
  BY <1>1, DispatcherAssumption DEF Init, SlotsExact
<1>4. ReturnsResult /\ StagesAgree
  BY DEF Init, ReturnsResult, StagesAgree, Ended
<1>5. Gatekeeper!Init
  BY DEF Init, Gatekeeper!Init
<1> QED
  BY <1>2, <1>3, <1>4, <1>5 DEF DispatchInv

\* The abstract state, and a step of it.
Mapped == <<granted, ran, outcome>>
MappedStep == [Gatekeeper!Next]_Mapped

\* A step that only moves calls between stages that agree with the rest.
LEMMA MoveKeeps ==
  ASSUME DispatchInv, NEW c \in Calls, NEW where \in Inside \union Ended,
         Goto(c, where), pc[c] # "running", where # "running",
         UNCHANGED <<policy, gate, ran, lastError, permits, trail>>,
         attempt' \in [Calls -> Nat], \A d \in Calls \ {c} : attempt'[d] = attempt[d],
         where \in {"reporting", "cancelling"} => outcome[c] # "none",
         where = "done" => outcome[c] # "none",
         where \in Inside \ {"reporting", "cancelling"} => outcome[c] = "none",
         where = "denying" => c \notin granted /\ attempt'[c] = 0 /\ ran[c] = 0,
         where \in {"limited", "starting"} => c \in granted /\ attempt'[c] = 0 /\ ran[c] = 0,
         where = "queued" => c \in granted /\ attempt'[c] = ran[c] + 1 /\ ran[c] < MaxAttempts[c],
         where # "backoff"
  PROVE  DispatchInv' /\ MappedStep
<1> USE DEF DispatchInv
<1>1. SlotsExact'
  BY SlotKept
<1>2. TypeOK'
  BY DEF TypeOK, policy, gate, trail, Goto
<1>3. ReturnsResult'
  BY DEF TypeOK, ReturnsResult, trail, Goto, Inside, Ended
<1>4. StagesAgree'
  BY DEF TypeOK, StagesAgree, gate, Goto, Inside, Ended
<1>5. UNCHANGED Mapped
  BY DEF Mapped, gate, trail
<1> QED
  BY <1>1, <1>2, <1>3, <1>4, <1>5 DEF MappedStep

LEMMA Unmoved ==
  ASSUME DispatchInv, UNCHANGED attempt
  PROVE  /\ attempt' \in [Calls -> Nat]
         /\ \A d \in Calls : attempt'[d] = attempt[d]
BY DEF DispatchInv, TypeOK

\* A step that records a result and leaves the slots alone.
LEMMA FinishKeeps ==
  ASSUME DispatchInv, NEW c \in Calls, NEW status \in Verdicts,
         NEW where \in {"done", "cancelling"},
         pc[c] \in {"gate", "denying", "limited", "queued"},
         Finish(c, status), Goto(c, where), UNCHANGED <<policy, gate, work>>
  PROVE  DispatchInv'
<1> USE DEF DispatchInv
<1>1. SlotsExact'
  BY SlotKept DEF work
<1>2. TypeOK'
  BY FinishTyped DEF TypeOK, policy, gate, work, Goto, Inside, Ended
<1>3. ReturnsResult'
  BY DEF TypeOK, ReturnsResult, Finish, Goto, Inside, Ended, Verdicts
<1>4. StagesAgree'
  BY DEF TypeOK, StagesAgree, gate, work, Goto
<1> QED
  BY <1>1, <1>2, <1>3, <1>4

\* A step that ends an attempt with a result.
LEMMA AttemptEnds ==
  ASSUME DispatchInv, NEW c \in Calls, NEW status \in Verdicts,
         NEW where \in {"done", "reporting", "cancelling"},
         pc[c] = "running", Release, Finish(c, status), Goto(c, where),
         UNCHANGED <<policy, gate, attempt, ran>>,
         lastError' \in [Calls -> {"none", "timeout", "error"}]
  PROVE  DispatchInv'
<1> USE DEF DispatchInv
<1>1. SlotsExact' /\ permits' \in 0..MaxConcurrency
  BY SlotGiven
<1>2. TypeOK'
  BY <1>1, FinishTyped DEF TypeOK, policy, gate, Goto, Inside, Ended
<1>3. ReturnsResult'
  BY DEF TypeOK, ReturnsResult, Finish, Goto, Inside, Ended, Verdicts
<1>4. StagesAgree'
  BY DEF TypeOK, StagesAgree, gate, Goto
<1> QED
  BY <1>1, <1>2, <1>3, <1>4

\* What a recorded result is in the abstract specification.
LEMMA FinishConcludes ==
  ASSUME DispatchInv, NEW c \in Calls, NEW status \in Verdicts, Finish(c, status),
         UNCHANGED <<gate, ran>>, outcome[c] = "none",
         status \in {"not_found", "invalid", "rate_limited"} => ran[c] = 0,
         status \in {"timeout", "error"} => ran[c] = MaxAttempts[c],
         status = "success" => c \in granted
  PROVE  MappedStep
<1>1. Gatekeeper!Conclude(c, status)
  BY DEF Gatekeeper!Conclude, Finish, gate
<1>2. status \in Gatekeeper!Verdicts
  BY DEF Verdicts, Gatekeeper!Verdicts
<1> QED
  BY <1>1, <1>2 DEF MappedStep, Gatekeeper!Next

-----------------------------------------------------------------------------
\* The stages before the first attempt.
LEMMA StagesStep ==
  ASSUME DispatchInv, NEW c \in Calls,
         \/ \E status \in {"not_found", "invalid"} : Reject(c, status)
         \/ RefuseUnscoped(c) \/ Refuse(c) \/ Denied(c)
         \/ TokenGranted(c) \/ TokenRefused(c)
  PROVE  DispatchInv' /\ MappedStep
<1> USE DEF DispatchInv
<1>0. \/ pc[c] \notin {"gate", "denying", "limited"}
      \/ outcome[c] = "none" /\ ran[c] = 0 /\ attempt[c] = 0
  BY DEF ReturnsResult, StagesAgree, Ended
<1>1. ASSUME NEW status \in {"not_found", "invalid"}, Reject(c, status)
      PROVE  DispatchInv' /\ MappedStep
  <2>1. status \in Verdicts /\ pc[c] = "gate"
    BY <1>1 DEF Verdicts, Reject, Enters
  <2> QED
    BY <1>0, <1>1, <2>1, FinishKeeps, FinishConcludes DEF Reject, work
<1>2. CASE RefuseUnscoped(c)
  <2>1. "denied" \in Verdicts /\ pc[c] = "gate"
    BY <1>2 DEF Verdicts, RefuseUnscoped, Enters
  <2> QED
    BY <1>0, <1>2, <2>1, FinishKeeps, FinishConcludes DEF RefuseUnscoped, work
<1>3. CASE Refuse(c)
  <2>1. pc[c] = "gate" /\ c \notin granted /\ "denying" \in Inside
    BY <1>3 DEF Refuse, Enters, StagesAgree, Inside
  <2> QED
    BY <1>0, <1>3, <2>1, MoveKeeps, Unmoved DEF Refuse, work
<1>4. CASE Denied(c)
  <2>1. "denied" \in Verdicts
    BY DEF Verdicts
  <2> QED
    BY <1>0, <1>4, <2>1, FinishKeeps, FinishConcludes DEF Denied, work
<1>5. CASE TokenGranted(c)
  <2>1. c \in granted /\ "starting" \in Inside
    BY <1>5 DEF TokenGranted, StagesAgree, Inside
  <2> QED
    BY <1>0, <1>5, <2>1, MoveKeeps, Unmoved DEF TokenGranted, work
<1>6. CASE TokenRefused(c)
  <2>1. "rate_limited" \in Verdicts
    BY DEF Verdicts
  <2> QED
    BY <1>0, <1>6, <2>1, FinishKeeps, FinishConcludes DEF TokenRefused, work
<1> QED
  BY <1>1, <1>2, <1>3, <1>4, <1>5, <1>6

\* The grant, with the dry run that ends there.
LEMMA AuthorizeStep ==
  ASSUME DispatchInv, NEW c \in Calls, Authorize(c)
  PROVE  DispatchInv' /\ MappedStep
<1> USE DEF DispatchInv
<1>1. pc[c] = "gate" /\ outcome[c] = "none" /\ c \notin granted /\ attempt[c] = 0 /\ ran[c] = 0
  BY DEF Authorize, Enters, ReturnsResult, StagesAgree, Ended
<1>2. /\ granted' = granted \union {c} /\ UNCHANGED <<policy, work>>
      /\ grantedBy' \in [Calls -> Scopes \union {NoScope}]
  <2>1. InForce(c) \in Scopes \union {NoScope}
    BY DispatcherAssumption DEF TypeOK, InForce
  <2> QED
    BY <2>1 DEF Authorize, TypeOK
<1>3. CASE BatchOf[c] \in dry
  <2>1. Finish(c, "success") /\ Goto(c, "done") /\ "success" \in Verdicts
    BY <1>3 DEF Authorize, Verdicts
  <2>2. SlotsExact'
    BY <1>1, <1>2, <2>1, SlotKept DEF work
  <2>3. TypeOK'
    BY <1>2, <2>1, FinishTyped DEF TypeOK, policy, work, Goto, Ended
  <2>4. ReturnsResult'
    BY <2>1 DEF TypeOK, ReturnsResult, Finish, Goto, Inside, Ended, Verdicts
  <2>5. StagesAgree'
    BY <1>2, <2>1 DEF TypeOK, StagesAgree, work, Goto
  <2>6. Gatekeeper!DryRun(c)
    BY <1>1, <1>2, <2>1 DEF Gatekeeper!DryRun, Finish, work
  <2> QED
    BY <2>2, <2>3, <2>4, <2>5, <2>6 DEF MappedStep, Gatekeeper!Next
<1>4. CASE BatchOf[c] \notin dry
  <2> DEFINE where == IF c \in Limited THEN "limited" ELSE "starting"
  <2>1. Goto(c, where) /\ UNCHANGED trail /\ where \in {"limited", "starting"}
    BY <1>4 DEF Authorize
  <2> HIDE DEF where
  <2>2. SlotsExact'
    BY <1>1, <1>2, <2>1, SlotKept DEF work
  <2>3. TypeOK'
    BY <1>2, <2>1 DEF TypeOK, policy, work, trail, Goto, Inside
  <2>4. ReturnsResult'
    BY <1>1, <2>1 DEF TypeOK, ReturnsResult, trail, Goto, Inside, Ended
  <2>5. StagesAgree'
    BY <1>1, <1>2, <2>1 DEF TypeOK, StagesAgree, work, Goto
  <2>6. Gatekeeper!Grant(c)
    BY <1>1, <1>2, <2>1 DEF Gatekeeper!Grant, trail, work
  <2> QED
    BY <2>2, <2>3, <2>4, <2>5, <2>6 DEF MappedStep, Gatekeeper!Next
<1> QED
  BY <1>3, <1>4

\* The attempt loop.
LEMMA AttemptStep ==
  ASSUME DispatchInv, NEW c \in Calls,
         \/ NextAttempt(c) \/ Acquire(c) \/ ToolReturns(c) \/ ToolRefuses(c)
         \/ \E err \in {"timeout", "error"} : ToolFails(c, err)
  PROVE  DispatchInv' /\ MappedStep
<1> USE DEF DispatchInv
<1>a. attempt[c] \in Nat /\ ran[c] \in Nat /\ MaxAttempts[c] \in Nat /\ MaxAttempts[c] > 0
  BY DispatcherAssumption DEF TypeOK
<1>b. pc[c] \in {"starting", "backoff", "queued", "running"} =>
        outcome[c] = "none" /\ c \in granted
  <2>1. pc[c] \in {"starting", "backoff", "queued", "running"} => outcome[c] = "none"
    BY DEF ReturnsResult, Ended
  <2>2. pc[c] \in {"starting", "backoff", "queued", "running"} => c \in granted
    BY DEF StagesAgree
  <2> QED
    BY <2>1, <2>2
<1>0. /\ pc[c] \in {"starting", "backoff", "queued", "running"} =>
             outcome[c] = "none" /\ c \in granted
      /\ attempt[c] \in Nat /\ ran[c] \in Nat /\ MaxAttempts[c] \in Nat /\ MaxAttempts[c] > 0
  BY <1>a, <1>b
<1>1. CASE NextAttempt(c)
  <2>1. attempt[c] = ran[c] /\ ran[c] < MaxAttempts[c] /\ "queued" \in Inside
    BY <1>0, <1>1 DEF NextAttempt, StagesAgree, Inside
  <2>2. attempt' \in [Calls -> Nat] /\ attempt'[c] = ran[c] + 1
        /\ \A d \in Calls \ {c} : attempt'[d] = attempt[d]
    BY <1>1, <2>1 DEF NextAttempt, TypeOK
  <2> QED
    BY <1>0, <1>1, <2>1, <2>2, MoveKeeps DEF NextAttempt
<1>2. CASE Acquire(c)
  <2>1. SlotsExact' /\ permits' \in 0..MaxConcurrency
    BY <1>2, SlotTaken DEF Acquire
  <2>2. TypeOK'
    BY <1>2, <2>1 DEF Acquire, TypeOK, policy, gate, trail, Goto, Inside
  <2>3. ReturnsResult'
    BY <1>0, <1>2 DEF Acquire, TypeOK, ReturnsResult, trail, Goto, Inside, Ended
  <2>4. StagesAgree'
    BY <1>0, <1>2 DEF Acquire, TypeOK, StagesAgree, gate, Goto
  <2>5. Gatekeeper!Execute(c)
    BY <1>0, <1>2 DEF Acquire, Gatekeeper!Execute, gate, trail, StagesAgree
  <2> QED
    BY <2>1, <2>2, <2>3, <2>4, <2>5 DEF MappedStep, Gatekeeper!Next
<1>3. CASE ToolReturns(c)
  <2>1. "success" \in Verdicts
    BY DEF Verdicts
  <2> QED
    BY <1>0, <1>3, <2>1, AttemptEnds, FinishConcludes DEF ToolReturns, TypeOK
<1>4. CASE ToolRefuses(c)
  <2>1. "denied" \in Verdicts
    BY DEF Verdicts
  <2> QED
    BY <1>0, <1>4, <2>1, AttemptEnds, FinishConcludes DEF ToolRefuses, TypeOK
<1>5. ASSUME NEW err \in {"timeout", "error"}, ToolFails(c, err)
      PROVE  DispatchInv' /\ MappedStep
  <2>1. err \in Verdicts /\ pc[c] = "running" /\ Release /\ UNCHANGED <<policy, gate, attempt, ran>>
        /\ lastError' \in [Calls -> {"none", "timeout", "error"}]
    BY <1>5 DEF Verdicts, ToolFails, TypeOK
  <2>2. CASE attempt[c] < MaxAttempts[c]
    <3>1. Goto(c, "backoff") /\ UNCHANGED trail
      BY <1>5, <2>2 DEF ToolFails
    <3>2. SlotsExact' /\ permits' \in 0..MaxConcurrency
      BY <2>1, <3>1, SlotGiven
    <3>3. TypeOK'
      BY <2>1, <3>1, <3>2 DEF TypeOK, policy, gate, trail, Goto, Inside
    <3>4. ReturnsResult'
      BY <1>0, <2>1, <3>1 DEF TypeOK, ReturnsResult, trail, Goto, Inside, Ended
    <3>5. StagesAgree'
      BY <1>0, <2>1, <2>2, <3>1 DEF TypeOK, StagesAgree, gate, Goto
    <3>6. UNCHANGED Mapped
      BY <2>1, <3>1 DEF Mapped, gate, trail
    <3> QED
      BY <3>2, <3>3, <3>4, <3>5, <3>6 DEF MappedStep
  <2>3. CASE ~(attempt[c] < MaxAttempts[c])
    <3>1. Finish(c, err) /\ Goto(c, "reporting")
      BY <1>5, <2>3 DEF ToolFails
    <3>2. ran[c] = MaxAttempts[c]
      BY <1>0, <2>1, <2>3 DEF StagesAgree
    <3> QED
      BY <1>0, <2>1, <3>1, <3>2, AttemptEnds, FinishConcludes
  <2> QED
    BY <2>2, <2>3
<1> QED
  BY <1>1, <1>2, <1>3, <1>4, <1>5

\* Reports and cancellations.
LEMMA EndingStep ==
  ASSUME DispatchInv, NEW c \in Calls,
         Reported(c) \/ CancelReported(c) \/ CancelAttempt(c) \/ CancelElsewhere(c)
  PROVE  DispatchInv' /\ MappedStep
<1> USE DEF DispatchInv
<1>0. /\ pc[c] \in {"reporting", "cancelling"} => outcome[c] # "none"
      /\ pc[c] \in {"queued", "running"} => outcome[c] = "none"
  BY DEF ReturnsResult, Ended
<1>1. CASE Reported(c)
  BY <1>0, <1>1, MoveKeeps DEF Reported, work, TypeOK, Ended, Inside
<1>2. CASE CancelReported(c)
  BY <1>0, <1>2, MoveKeeps DEF CancelReported, work, TypeOK, Ended, Inside
<1>3. CASE CancelElsewhere(c)
  BY <1>3, MoveKeeps DEF CancelElsewhere, work, TypeOK, Ended, Inside
<1>4. CASE CancelAttempt(c)
  <2>1. /\ "cancelled" \in Verdicts /\ Finish(c, "cancelled") /\ Goto(c, "cancelling")
        /\ UNCHANGED <<policy, gate, attempt, ran, lastError>>
    BY <1>4 DEF Verdicts, CancelAttempt
  <2>2. MappedStep
    BY <1>0, <1>4, <2>1, FinishConcludes DEF CancelAttempt
  <2>3. CASE pc[c] = "running"
    BY <1>4, <2>1, <2>2, <2>3, AttemptEnds DEF CancelAttempt, Release, TypeOK
  <2>4. CASE pc[c] = "queued"
    BY <1>4, <2>1, <2>2, <2>4, FinishKeeps DEF CancelAttempt, work
  <2> QED
    BY <1>4, <2>3, <2>4 DEF CancelAttempt
<1> QED
  BY <1>1, <1>2, <1>3, <1>4

\* New batches, and what the operator does to the scopes.
LEMMA OperatorStep ==
  ASSUME DispatchInv,
         \/ \E b \in Batches, s \in Scopes \union {NoScope}, dryRun \in BOOLEAN :
              \E width \in 1..Cardinality(Calls) : DispatchMany(b, s, dryRun, width)
         \/ \E s \in Scopes \union {NoScope} : SetScope(s)
         \/ \E s \in Scopes : Expire(s)
  PROVE  DispatchInv' /\ MappedStep
<1> USE DEF DispatchInv
<1>1. ASSUME NEW b \in Batches, NEW s \in Scopes \union {NoScope}, NEW dryRun \in BOOLEAN,
             NEW width \in 1..Cardinality(Calls), DispatchMany(b, s, dryRun, width)
      PROVE  DispatchInv' /\ MappedStep
  <2>1. /\ pc' = [c \in Calls |-> IF BatchOf[c] = b THEN "gate" ELSE pc[c]]
        /\ UNCHANGED <<scope, expired, gate, work, trail>>
        /\ \A c \in Calls : BatchOf[c] = b => pc[c] = "new"
    BY <1>1 DEF DispatchMany
  <2>2. SlotsExact'
    <3>1. Running' = Running
      BY <2>1 DEF Running
    <3> QED
      BY <2>1, <3>1 DEF SlotsExact, work
  <2>3. TypeOK'
    <3>1. width \in Nat
      BY FS_CardinalityType, DispatcherAssumption
    <3> QED
      BY <1>1, <2>1, <3>1 DEF DispatchMany, TypeOK, gate, work, trail
  <2>4. ReturnsResult'
    BY <2>1 DEF ReturnsResult, trail, Ended
  <2>5. StagesAgree'
    BY <2>1 DEF StagesAgree, gate, work
  <2>6. UNCHANGED Mapped
    BY <2>1 DEF Mapped, gate, work, trail
  <2> QED
    BY <2>2, <2>3, <2>4, <2>5, <2>6 DEF MappedStep
<1>2. ASSUME \/ \E s \in Scopes \union {NoScope} : SetScope(s)
             \/ \E s \in Scopes : Expire(s)
      PROVE  DispatchInv' /\ MappedStep
  <2>1. UNCHANGED <<pc, gate, work, trail>> /\ TypeOK'
    BY <1>2 DEF SetScope, Expire, TypeOK, gate, work, trail
  <2>2. SlotsExact'
    <3>1. Running' = Running
      BY <2>1 DEF Running
    <3> QED
      BY <2>1, <3>1 DEF SlotsExact, work
  <2>3. ReturnsResult' /\ StagesAgree' /\ UNCHANGED Mapped
    BY <2>1 DEF ReturnsResult, StagesAgree, Mapped, gate, work, trail
  <2> QED
    BY <2>1, <2>2, <2>3 DEF MappedStep
<1> QED
  BY <1>1, <1>2

LEMMA DispatchStep == DispatchInv /\ [Next]_vars => DispatchInv' /\ MappedStep
<1> SUFFICES ASSUME DispatchInv, [Next]_vars PROVE DispatchInv' /\ MappedStep
  OBVIOUS
<1>1. ASSUME NEW c \in Calls, CallStep(c) \/ CancelAttempt(c) \/ CancelElsewhere(c)
      PROVE  DispatchInv' /\ MappedStep
  BY <1>1, StagesStep, AuthorizeStep, AttemptStep, EndingStep DEF CallStep
<1>2. CASE UNCHANGED vars
  <2>1. Running' = Running
    BY <1>2 DEF vars, Running
  <2>2. TypeOK'
    BY <1>2 DEF DispatchInv, vars, policy, gate, work, trail, TypeOK
  <2>3. SlotsExact'
    BY <1>2, <2>1 DEF DispatchInv, vars, work, SlotsExact
  <2>4. ReturnsResult' /\ StagesAgree' /\ UNCHANGED Mapped
    BY <1>2 DEF DispatchInv, vars, policy, gate, work, trail, ReturnsResult, StagesAgree, Mapped
  <2> QED
    BY <2>2, <2>3, <2>4 DEF DispatchInv, MappedStep
<1> QED
  BY <1>1, <1>2, OperatorStep DEF Next

LEMMA DispatchInvariant == Spec => []DispatchInv
BY DispatchInit, DispatchStep, PTL DEF Spec

-----------------------------------------------------------------------------
\* The audit trail never outgrows its size, the attempts are counted in
\* numbers, and the semaphore stays within its bounds.
THEOREM DispatchTypes == Spec => []TypeOK
<1>1. DispatchInv => TypeOK
  BY DEF DispatchInv
<1> QED
  BY <1>1, DispatchInvariant, PTL

\* The slots of the semaphore are exactly those not held by a running tool: no
\* path through retries, denials and cancellations loses or duplicates one.
THEOREM SlotsAreExact == Spec => []SlotsExact
<1>1. DispatchInv => SlotsExact
  BY DEF DispatchInv
<1> QED
  BY <1>1, DispatchInvariant, PTL

\* Every call that returned has its result, and no other has one.
THEOREM ResultsReturned == Spec => []ReturnsResult
<1>1. DispatchInv => ReturnsResult
  BY DEF DispatchInv
<1> QED
  BY <1>1, DispatchInvariant, PTL

\* The pipeline implements ToolGate: a tool executes only between the grant
\* and the verdict of its call, within the budget.
THEOREM PipelineImplementsToolGate == Spec => ImplementsToolGate
<1>1. MappedStep => [Gatekeeper!Next]_Gatekeeper!vars
  BY DEF MappedStep, Mapped, Gatekeeper!vars
<1> QED
  BY <1>1, DispatchInit, DispatchStep, DispatchInvariant, PTL
     DEF Spec, ImplementsToolGate, Gatekeeper!Spec
-----------------------------------------------------------------------------
(* The audit trail and the counters.                                       *)

\* A step leaves the trail alone, or records the one result of a call that had
\* none: every path to finish() is taken at most once by a call.
LEMMA TrailStep ==
  ASSUME DispatchInv, [Next]_vars
  PROVE  \/ UNCHANGED trail
         \/ \E c \in Calls, status \in Verdicts : outcome[c] = "none" /\ Finish(c, status)
<1> DEFINE Records(c) == \E status \in Verdicts : outcome[c] = "none" /\ Finish(c, status)
<1>1. ASSUME NEW c \in Calls, CallStep(c) \/ CancelAttempt(c) \/ CancelElsewhere(c)
      PROVE  UNCHANGED trail \/ Records(c)
  <2>1. pc[c] \in {"gate", "denying", "limited", "queued", "running"} => outcome[c] = "none"
    BY DEF DispatchInv, ReturnsResult, Ended
  <2>2. {"not_found", "invalid", "denied", "rate_limited", "success", "timeout", "error",
         "cancelled"} = Verdicts
    BY DEF Verdicts
  <2>3. ASSUME NEW status \in {"not_found", "invalid"}, Reject(c, status)
        PROVE  Records(c)
    BY <2>1, <2>2, <2>3 DEF Reject, Enters
  <2>4. CASE RefuseUnscoped(c) \/ Denied(c) \/ TokenRefused(c) \/ ToolReturns(c) \/ ToolRefuses(c)
             \/ CancelAttempt(c)
    BY <2>1, <2>2, <2>4 DEF RefuseUnscoped, Enters, Denied, TokenRefused, ToolReturns, ToolRefuses,
                            CancelAttempt
  <2>5. CASE Authorize(c)
    BY <2>1, <2>2, <2>5 DEF Authorize, Enters
  <2>6. ASSUME NEW err \in {"timeout", "error"}, ToolFails(c, err)
        PROVE  UNCHANGED trail \/ Records(c)
    BY <2>1, <2>2, <2>6 DEF ToolFails
  <2>7. CASE Refuse(c) \/ TokenGranted(c) \/ NextAttempt(c) \/ Acquire(c) \/ Reported(c)
             \/ CancelReported(c) \/ CancelElsewhere(c)
    BY <2>7 DEF Refuse, TokenGranted, NextAttempt, Acquire, Reported, CancelReported, CancelElsewhere
  <2> QED
    BY <1>1, <2>3, <2>4, <2>5, <2>6, <2>7 DEF CallStep
<1>2. CASE UNCHANGED vars
  BY <1>2 DEF vars
<1>3. ASSUME NEW b \in Batches, NEW s \in Scopes \union {NoScope}, NEW dryRun \in BOOLEAN,
             NEW width \in 1..Cardinality(Calls), DispatchMany(b, s, dryRun, width)
      PROVE  UNCHANGED trail
  BY <1>3 DEF DispatchMany
<1>4. CASE \/ \E s \in Scopes \union {NoScope} : SetScope(s)
           \/ \E s \in Scopes : Expire(s)
  BY <1>4 DEF SetScope, Expire
<1> QED
  BY <1>1, <1>2, <1>3, <1>4 DEF Next

\* One more record keeps the trail exact: the call is new among the endings, the
\* trail is the end of the longer history, and one counter moves.
LEMMA FinishKeepsTrail ==
  ASSUME TypeOK, AuditExact, NEW c \in Calls, NEW status \in Verdicts,
         outcome[c] = "none", Finish(c, status)
  PROVE  AuditExact'
<1> DEFINE n == IF Len(audit) < AuditSize THEN 0 ELSE Len(audit) + 1 - AuditSize
           len == Len(endings)
<1>1. /\ audit \in Seq(Calls) /\ Len(audit) \in Nat /\ Len(audit) <= AuditSize /\ AuditSize \in Nat
      /\ endings \in Seq(Calls) /\ len \in Nat
  BY DispatcherAssumption DEF TypeOK
<1>2. Recorded' = Recorded \union {c} /\ c \notin Recorded
  BY DEF Finish, TypeOK, Recorded, Verdicts
<1>3. /\ Len(endings') = len + 1 /\ endings'[len + 1] = c
      /\ \A i \in 1..len : endings'[i] = endings[i]
  BY <1>1 DEF Finish
<1>4. /\ n \in Nat /\ Len(audit') = Len(audit) + 1 - n
      /\ \A i \in 1..Len(audit') : audit'[i] = Append(audit, c)[i + n]
  BY <1>1, AppendBoundedKeeps DEF Finish
<1>5. /\ \A i \in 1..Len(audit) : Append(audit, c)[i] = audit[i]
      /\ Append(audit, c)[Len(audit) + 1] = c
  BY <1>1
<1>6. \A i \in 1..len : endings[i] \in Recorded /\ endings[i] # c
  BY <1>2 DEF AuditExact
<1>7. \A i, k \in 1..Len(endings') : endings'[i] = endings'[k] => i = k
  <2> SUFFICES ASSUME NEW i \in 1..(len + 1), NEW k \in 1..(len + 1), endings'[i] = endings'[k]
               PROVE  i = k
    BY <1>3
  <2>1. (i \in 1..len \/ i = len + 1) /\ (k \in 1..len \/ k = len + 1)
    BY <1>1
  <2>2. CASE i \in 1..len /\ k \in 1..len
    BY <1>3, <2>2 DEF AuditExact
  <2>3. CASE i = len + 1 /\ k \in 1..len
    BY <1>3, <1>6, <2>3
  <2>4. CASE i \in 1..len /\ k = len + 1
    BY <1>3, <1>6, <2>4
  <2> QED
    BY <2>1, <2>2, <2>3, <2>4
<1>8. {endings'[i] : i \in 1..Len(endings')} = Recorded'
  <2>1. {endings[i] : i \in 1..len} = Recorded
    BY DEF AuditExact
  <2>2. 1..Len(endings') = (1..len) \union {len + 1}
    BY <1>1, <1>3
  <2>3. {endings'[i] : i \in 1..Len(endings')} = {endings[i] : i \in 1..len} \union {c}
    BY <1>3, <2>2
  <2> QED
    BY <1>2, <2>1, <2>3
<1>9. Len(audit) = IF len < AuditSize THEN len ELSE AuditSize
  BY DEF AuditExact
<1>10. Len(audit') = IF Len(endings') < AuditSize THEN Len(endings') ELSE AuditSize
  <2>1. Len(audit') = Len(audit) + 1 - n
    BY <1>4
  <2>2. Len(audit) + 1 - n = IF len + 1 < AuditSize THEN len + 1 ELSE AuditSize
    <3> HIDE DEF len
    <3> QED
      BY <1>1, <1>9
  <2> QED
    BY <1>3, <2>1, <2>2
<1>11. \A i \in 1..Len(audit') : audit'[i] = endings'[Len(endings') - Len(audit') + i]
  <2> SUFFICES ASSUME NEW i \in 1..Len(audit')
               PROVE  audit'[i] = endings'[Len(endings') - Len(audit') + i]
    OBVIOUS
  <2>1. /\ i \in Int /\ (i + n \in 1..Len(audit) \/ i + n = Len(audit) + 1)
        /\ Len(endings') - Len(audit') + i = len - Len(audit) + (i + n)
    <3>1. Len(audit') = Len(audit) + 1 - n /\ Len(endings') = len + 1 /\ n \in Nat
      BY <1>3, <1>4
    <3>2. i \in 1..(Len(audit) + 1 - n)
      BY <3>1
    <3> HIDE DEF n, len
    <3> QED
      BY <1>1, <3>1, <3>2
  <2>2. audit'[i] = Append(audit, c)[i + n]
    BY <1>4
  <2> HIDE DEF n
  <2>3. CASE i + n \in 1..Len(audit)
    <3>1. audit[i + n] = endings[len - Len(audit) + (i + n)]
      BY <2>3 DEF AuditExact
    <3>2. len - Len(audit) + (i + n) \in 1..len
      BY <1>1, <1>9, <2>3
    <3>3. endings'[len - Len(audit) + (i + n)] = endings[len - Len(audit) + (i + n)]
      BY <1>3, <3>2
    <3> QED
      BY <1>5, <2>1, <2>2, <2>3, <3>1, <3>3
  <2>4. CASE i + n = Len(audit) + 1
    <3>1. len - Len(audit) + (i + n) = len + 1
      BY <1>1, <2>4
    <3> QED
      BY <1>3, <1>5, <2>1, <2>2, <2>4, <3>1
  <2> QED
    BY <2>1, <2>3, <2>4
<1>12. ASSUME NEW v \in Verdicts
       PROVE  counters'[v] = Cardinality({d \in Calls : outcome'[d] = v})
  <2> DEFINE Had == {d \in Calls : outcome[d] = v}
             Has == {d \in Calls : outcome'[d] = v}
  <2>1. v # "none" /\ counters[v] = Cardinality(Had)
    BY DEF AuditExact, Verdicts
  <2>2. IsFiniteSet(Had)
    BY FS_Subset, DispatcherAssumption
  <2>3. CASE v = status
    <3>1. Has = Had \union {c} /\ c \notin Had
      BY <2>1, <2>3 DEF Finish, TypeOK
    <3>2. Cardinality(Has) = Cardinality(Had) + 1
      BY <2>2, <3>1, FS_AddElement
    <3>3. counters'[v] = counters[v] + 1
      BY <2>3 DEF Finish, TypeOK
    <3> QED
      BY <2>1, <3>2, <3>3
  <2>4. CASE v # status
    <3>1. Has = Had
      BY <2>1, <2>4 DEF Finish, TypeOK
    <3>2. counters'[v] = counters[v]
      BY <2>4 DEF Finish, TypeOK
    <3> QED
      BY <2>1, <3>1, <3>2
  <2> QED
    BY <2>3, <2>4
<1> QED
  BY <1>7, <1>8, <1>10, <1>11, <1>12 DEF AuditExact

LEMMA TrailUntouched ==
  ASSUME AuditExact, UNCHANGED trail
  PROVE  AuditExact'
<1>1. Recorded' = Recorded
  BY DEF trail, Recorded
<1> QED
  BY <1>1 DEF trail, AuditExact

LEMMA TrailStarts == Init => AuditExact
<1> SUFFICES ASSUME Init PROVE AuditExact
  OBVIOUS
<1>1. Recorded = {} /\ \A v \in Verdicts : {c \in Calls : outcome[c] = v} = {}
  BY DEF Init, Recorded, Verdicts
<1>2. Cardinality({}) = 0
  BY FS_EmptySet
<1>3. Len(audit) = 0 /\ Len(endings) = 0 /\ \A v \in Verdicts : counters[v] = 0
  BY DEF Init
<1>4. 1..Len(endings) = {} /\ 1..Len(audit) = {}
  BY <1>3
<1>5. Len(audit) = IF Len(endings) < AuditSize THEN Len(endings) ELSE AuditSize
  BY <1>3, DispatcherAssumption
<1>6. \A v \in Verdicts : counters[v] = Cardinality({c \in Calls : outcome[c] = v})
  BY <1>1, <1>2, <1>3
<1> QED
  BY <1>1, <1>4, <1>5, <1>6 DEF AuditExact

\* Every result is recorded once, whatever retries, denials and cancellations
\* lie between two awaits; the trail is the last AuditSize results in the order
\* in which they came, and each counter is the number of calls that ended with
\* its status.
THEOREM AuditIsExact == Spec => []AuditExact
<1>1. DispatchInv /\ AuditExact /\ [Next]_vars => AuditExact'
  BY TrailStep, FinishKeepsTrail, TrailUntouched DEF DispatchInv
<1> QED
  BY <1>1, TrailStarts, DispatchInvariant, PTL DEF Spec
=============================================================================
