----------------------------- MODULE AgentRunProofs -----------------------------
(***************************************************************************)
(* Theorems about AgentRun, for every set of steps, every dependency       *)
(* relation, any number of refinement rounds and of runs of the same plan. *)
(***************************************************************************)
EXTENDS AgentRun, TLAPS

-----------------------------------------------------------------------------
(* Plans.                                                                  *)

LEMMA EmptyPlanValid == ASSUME NEW needs PROVE Valid({}, needs)
BY DEF Valid

\* In a valid plan some step of every nonempty set waits for none of the set.
LEMMA FirstOf ==
  ASSUME NEW plan, NEW needs, Valid(plan, needs), NEW ring \in SUBSET plan, ring # {}
  PROVE  \E s \in ring : needs[s] \subseteq plan \ ring
<1>1. PICK s \in ring : needs[s] \intersect ring = {}
  BY DEF Valid
<1>2. needs[s] \subseteq plan
  BY DEF Valid
<1> QED
  BY <1>1, <1>2

\* When nothing is ready, a pending step proves that another one was lost or
\* is running: the graph has no ring in which all wait for each other.
LEMMA PendingBelowUnfinished ==
  ASSUME TypeOK, PlanStaysValid, Ready(status) = {},
         NEW s \in planned, status[s] = "pending"
  PROVE  \E d \in planned : status[d] \in {"running", "failed", "skipped", "cancelled"}
<1> DEFINE waiting == {d \in planned : status[d] = "pending"}
<1>1. PICK first \in waiting : deps[first] \subseteq planned \ waiting
  <2>1. waiting \in SUBSET planned /\ waiting # {}
    OBVIOUS
  <2> HIDE DEF waiting
  <2> QED
    BY <2>1, FirstOf DEF PlanStaysValid
<1>2. PICK d \in deps[first] : status[d] # "succeeded"
  BY <1>1 DEF Ready
<1>3. d \in planned /\ status[d] # "pending"
  BY <1>1, <1>2
<1> QED
  BY <1>2, <1>3 DEF TypeOK

-----------------------------------------------------------------------------
(* The inductive invariant and the refinement.                             *)

ExecutionStep == [Execution!Next]_(Execution!vars)

LEMMA AgentInit == Init => AgentInv /\ Execution!Init
<1> SUFFICES ASSUME Init PROVE AgentInv /\ Execution!Init
  OBVIOUS
<1>1. TypeOK
  <2>1. rounds \in 0..MaxRounds /\ runs \in 0..MaxRuns
    BY AgentAssumption DEF Init
  <2>2. idle \in BOOLEAN
    BY Zenon DEF Init
  <2>3. results \in [Steps -> 0..1] /\ wave \in SUBSET planned
    BY DEF Init
  <2> QED
    BY <2>1, <2>2, <2>3 DEF Init, TypeOK
<1>2. PlanStaysValid
  BY EmptyPlanValid DEF Init, PlanStaysValid
<1>3. DependenciesFirst /\ ResultsMatch /\ StagesAgree /\ VerdictHonest
  BY DEF Init, DependenciesFirst, ResultsMatch, StagesAgree, VerdictHonest, Ready
<1>4. Execution!Init
  BY DEF Init, Execution!Init
<1> QED
  BY <1>1, <1>2, <1>3, <1>4 DEF AgentInv

\* A step of the run that leaves the plan and its steps alone.
LEMMA Elsewhere ==
  ASSUME AgentInv, UNCHANGED <<shape, planned, status, results>>, TypeOK',
         pc' = "dispatching" => pc = "dispatching" /\ wave' = wave,
         pc' = "judging" => pc = "judging",
         pc' = "refining" => pc = "refining" /\ idle' = idle,
         pc' \notin {"persisting", "finishing", "done", "raised"} => verdict' = "running",
         \/ verdict' \in {"running", "failed"}
         \/ verdict' = verdict /\ pc # "raised"
         \/ verdict' = verdict /\ pc' = "raised"
         \/ verdict' = "cancelled" /\ pc' = "raised"
  PROVE  AgentInv' /\ ExecutionStep
<1> USE DEF AgentInv
<1>1. UNCHANGED <<deps, optional, failFast, planned, status, results>>
  BY DEF shape
<1>2. PlanStaysValid' /\ DependenciesFirst' /\ ResultsMatch'
  BY <1>1 DEF PlanStaysValid, DependenciesFirst, ResultsMatch
<1>3. StagesAgree'
  BY <1>1 DEF StagesAgree, Ready
<1>4. VerdictHonest'
  BY <1>1 DEF VerdictHonest
<1>5. UNCHANGED Execution!vars
  BY <1>1 DEF Execution!vars
<1> QED
  BY <1>2, <1>3, <1>4, <1>5 DEF ExecutionStep

LEMMA BeginStep ==
  ASSUME AgentInv, Begin PROVE AgentInv' /\ ExecutionStep
<1> USE DEF AgentInv
<1>1. UNCHANGED <<deps, optional, failFast, planned, status>> /\ verdict' = "running"
      /\ pc' = "starting" /\ results' = [s \in Steps |-> 0]
  BY DEF Begin, shape
<1>2. TypeOK'
  BY AgentAssumption DEF Begin, TypeOK, shape, Timed
<1>3. PlanStaysValid' /\ DependenciesFirst' /\ ResultsMatch' /\ VerdictHonest' /\ StagesAgree'
  BY <1>1 DEF PlanStaysValid, DependenciesFirst, ResultsMatch, VerdictHonest, StagesAgree
<1>4. UNCHANGED Execution!vars
  BY <1>1 DEF Execution!vars
<1> QED
  BY <1>2, <1>3, <1>4 DEF ExecutionStep

\* Every way of growing the plan.
LEMMA PlanGrows ==
  ASSUME AgentInv, NEW plan \in SUBSET Steps, Valid(plan, deps), planned \subseteq plan,
         planned' = plan, pc \in {"planning", "refining"}, pc' \in {"announcing", "loop"},
         UNCHANGED <<shape, status, wave, rounds, idle, outcome>>
  PROVE  AgentInv' /\ ExecutionStep
<1> USE DEF AgentInv
<1>1. UNCHANGED <<deps, optional, failFast, status, results, verdict>>
      /\ verdict = "running"
  BY DEF shape, outcome, StagesAgree
<1>2. TypeOK'
  BY DEF TypeOK, shape, outcome, Timed
<1>3. PlanStaysValid'
  BY <1>1 DEF PlanStaysValid
<1>4. DependenciesFirst'
  BY <1>1 DEF DependenciesFirst, StagesAgree
<1>5. ResultsMatch' /\ StagesAgree' /\ VerdictHonest'
  BY <1>1 DEF ResultsMatch, StagesAgree, VerdictHonest
<1>6. Execution!Extend(plan)
  <2>1. planned \union plan = plan
    OBVIOUS
  <2>2. Execution!Valid(planned \union plan, deps)
    BY <2>1 DEF Execution!Valid, Valid
  <2> QED
    BY <1>1, <2>1, <2>2 DEF Execution!Extend
<1> QED
  BY <1>2, <1>3, <1>4, <1>5, <1>6 DEF ExecutionStep, Execution!Next

LEMMA RetiredTyped ==
  ASSUME AgentInv
  PROVE  /\ Retired \in [Steps -> {"pending", "running", "succeeded", "failed", "skipped", "cancelled"}]
         /\ \A s \in Steps : Retired[s] = IF s \in Blocked THEN "skipped" ELSE status[s]
         /\ \A s \in Blocked : /\ s \in planned /\ status[s] = "pending" /\ results[s] = 0
                               /\ Execution!Hopeless(s)
         /\ \A s \in Ready(Retired) : /\ s \in planned /\ s \notin Blocked /\ status[s] = "pending"
                                      /\ results[s] = 0 /\ Execution!Runnable(s)
<1> USE DEF AgentInv
<1>1. Retired \in [Steps -> {"pending", "running", "succeeded", "failed", "skipped", "cancelled"}]
      /\ \A s \in Steps : Retired[s] = IF s \in Blocked THEN "skipped" ELSE status[s]
  BY DEF Retired, TypeOK
<1>2. \A s \in planned : status[s] = "pending" => results[s] = 0
  BY DEF TypeOK, ResultsMatch
<1>3. ASSUME NEW s \in Blocked
      PROVE  s \in planned /\ status[s] = "pending" /\ Execution!Hopeless(s)
  BY DEF Blocked, Execution!Hopeless, Execution!Lost
<1>4. ASSUME NEW s \in Ready(Retired)
      PROVE  s \in planned /\ s \notin Blocked /\ status[s] = "pending" /\ Execution!Runnable(s)
  <2>1. s \in planned /\ s \in Steps /\ Retired[s] = "pending"
        /\ \A d \in deps[s] : Retired[d] = "succeeded"
    BY DEF Ready, TypeOK
  <2>2. s \notin Blocked /\ status[s] = "pending"
    BY <1>1, <2>1
  <2>3. ASSUME NEW d \in deps[s] PROVE status[d] = "succeeded"
    <3>1. d \in Steps
      BY <2>1 DEF PlanStaysValid, Valid, TypeOK
    <3> QED
      BY <1>1, <2>1, <3>1
  <2> QED
    BY <2>1, <2>2, <2>3 DEF Execution!Runnable
<1> QED
  BY <1>1, <1>2, <1>3, <1>4

\* Dispatch and Stuck change the steps alike: blocked ones are retired, the
\* ready ones, if any, started.
LEMMA LoopHead ==
  ASSUME AgentInv, NEW started, started \subseteq Ready(Retired),
         status' = [s \in Steps |-> IF s \in started THEN "running" ELSE Retired[s]],
         UNCHANGED <<shape, planned, results>>
  PROVE  /\ status' \in [Steps -> {"pending", "running", "succeeded", "failed", "skipped", "cancelled"}]
         /\ PlanStaysValid' /\ DependenciesFirst' /\ ResultsMatch'
         /\ \A s \in Steps \ planned : status'[s] = "pending"
         /\ \A s \in Steps : status'[s] = "cancelled" => failFast
         /\ ExecutionStep
<1> USE DEF AgentInv
<1>1. UNCHANGED <<deps, optional, failFast, planned, results>>
  BY DEF shape
<1>2. \A s \in Steps : status'[s] = IF s \in started THEN "running"
                                    ELSE IF s \in Blocked THEN "skipped" ELSE status[s]
  BY RetiredTyped
<1>3. /\ \A s \in started : s \in planned /\ s \notin Blocked /\ status[s] = "pending"
                            /\ results[s] = 0 /\ Execution!Runnable(s)
      /\ \A s \in Blocked : s \in planned /\ status[s] = "pending" /\ results[s] = 0
                            /\ Execution!Hopeless(s)
  BY RetiredTyped
<1>4. status' \in [Steps -> {"pending", "running", "succeeded", "failed", "skipped", "cancelled"}]
  BY RetiredTyped
<1>5. PlanStaysValid'
  BY <1>1 DEF PlanStaysValid
<1>6. DependenciesFirst'
  <2> SUFFICES ASSUME NEW s \in planned, status'[s] \in {"running", "succeeded", "failed"},
                      NEW d \in deps[s]
               PROVE  status'[d] = "succeeded"
    BY <1>1 DEF DependenciesFirst
  <2>1. s \in Steps /\ d \in Steps
    BY DEF TypeOK, PlanStaysValid, Valid
  <2>2. status[d] = "succeeded"
    <3>1. CASE s \in started
      BY <1>3, <3>1 DEF Execution!Runnable
    <3>2. CASE s \notin started
      BY <1>2, <2>1, <3>2 DEF DependenciesFirst
    <3> QED
      BY <3>1, <3>2
  <2> QED
    BY <1>2, <1>3, <2>1, <2>2
<1>7. ResultsMatch'
  BY <1>1, <1>2, <1>3 DEF ResultsMatch
<1>8. /\ \A s \in Steps \ planned : status'[s] = "pending"
      /\ \A s \in Steps : status'[s] = "cancelled" => failFast
  BY <1>2, <1>3 DEF StagesAgree
<1>9. ExecutionStep
  <2>1. started \in SUBSET planned /\ Blocked \in SUBSET planned
    BY <1>3
  <2>2. status' = [s \in Steps |-> IF s \in Blocked THEN "skipped"
                                   ELSE IF s \in started THEN "running" ELSE status[s]]
    BY <1>2, <1>3
  <2>3. Execution!Proceed(Blocked, started)
    BY <1>1, <1>3, <2>2 DEF Execution!Proceed
  <2> QED
    BY <2>1, <2>3 DEF ExecutionStep, Execution!Next
<1> QED
  BY <1>4, <1>5, <1>6, <1>7, <1>8, <1>9

LEMMA DispatchStep ==
  ASSUME AgentInv, Dispatch PROVE AgentInv' /\ ExecutionStep
<1> USE DEF AgentInv
<1> DEFINE started == Ready(Retired)
<1>1. /\ status' = [s \in Steps |-> IF s \in started THEN "running" ELSE Retired[s]]
      /\ UNCHANGED <<shape, planned, rounds, idle, outcome>>
      /\ wave' = started /\ pc = "loop" /\ pc' = "dispatching"
  BY DEF Dispatch
<1>2. UNCHANGED <<results, verdict, runs>> /\ verdict = "running"
  BY <1>1 DEF outcome, StagesAgree
<1>3. started \in SUBSET planned
  BY RetiredTyped
<1>4. /\ status' \in [Steps -> {"pending", "running", "succeeded", "failed", "skipped", "cancelled"}]
      /\ PlanStaysValid' /\ DependenciesFirst' /\ ResultsMatch'
      /\ \A s \in Steps \ planned : status'[s] = "pending"
      /\ \A s \in Steps : status'[s] = "cancelled" => failFast
      /\ ExecutionStep
  BY <1>1, <1>2, LoopHead
<1>5. TypeOK'
  BY <1>1, <1>2, <1>3, <1>4 DEF TypeOK, shape, Timed
<1>6. StagesAgree'
  <2>1. \A s \in started : status'[s] = "running"
    BY <1>1, <1>3 DEF TypeOK
  <2> QED
    BY <1>1, <1>2, <1>4, <2>1 DEF StagesAgree, shape
<1>7. VerdictHonest'
  BY <1>2 DEF VerdictHonest
<1> QED
  BY <1>4, <1>5, <1>6, <1>7

LEMMA StuckStep ==
  ASSUME AgentInv, Stuck PROVE AgentInv' /\ ExecutionStep
<1> USE DEF AgentInv
<1>1. /\ status' = Retired /\ Ready(Retired) = {} /\ pc = "loop" /\ pc' \in {"refining", "judging"}
      /\ UNCHANGED <<shape, planned, wave, outcome>>
      /\ rounds' \in 0..MaxRounds /\ idle' \in BOOLEAN
  <2>1. rounds' \in 0..MaxRounds
    BY AgentAssumption DEF Stuck, TypeOK
  <2>2. idle' \in BOOLEAN
    <3>1. idle' = TRUE \/ idle' = idle
      BY DEF Stuck
    <3> QED
      BY Zenon, <3>1 DEF TypeOK
  <2> QED
    BY <2>1, <2>2 DEF Stuck
<1>2. UNCHANGED <<results, verdict, runs>> /\ verdict = "running"
  BY <1>1 DEF outcome, StagesAgree
<1>3. status' = [s \in Steps |-> IF s \in {} THEN "running" ELSE Retired[s]]
  BY <1>1, RetiredTyped
<1>4. /\ status' \in [Steps -> {"pending", "running", "succeeded", "failed", "skipped", "cancelled"}]
      /\ PlanStaysValid' /\ DependenciesFirst' /\ ResultsMatch'
      /\ \A s \in Steps \ planned : status'[s] = "pending"
      /\ \A s \in Steps : status'[s] = "cancelled" => failFast
      /\ ExecutionStep
  BY <1>1, <1>2, <1>3, LoopHead
<1>5. TypeOK'
  BY <1>1, <1>2, <1>4 DEF TypeOK, shape, Timed
<1>6. Ready(status)' = {}
  BY <1>1 DEF Ready, shape
<1>7. StagesAgree'
  BY <1>1, <1>2, <1>4, <1>6 DEF StagesAgree, shape
<1>8. VerdictHonest'
  BY <1>2 DEF VerdictHonest
<1> QED
  BY <1>4, <1>5, <1>7, <1>8

LEMMA ResultsStep ==
  ASSUME AgentInv, NEW ok \in SUBSET wave, Results(ok) PROVE AgentInv' /\ ExecutionStep
<1> USE DEF AgentInv
<1> DEFINE dropped == {s \in planned : Aborts(ok) /\ status[s] = "pending"}
<1>1. /\ UNCHANGED <<deps, optional, failFast, planned, wave, verdict, runs>> /\ verdict = "running"
      /\ pc = "dispatching" /\ pc' \in {"judging", "refining", "loop"}
      /\ rounds' \in 0..MaxRounds /\ idle' \in BOOLEAN
  <2>1. rounds' \in 0..MaxRounds
    BY AgentAssumption DEF Results, TypeOK
  <2>2. idle' \in BOOLEAN
    <3>1. idle' = FALSE \/ idle' = idle
      BY DEF Results
    <3> QED
      BY Zenon, <3>1 DEF TypeOK
  <2>3. pc = "dispatching" /\ verdict = "running"
    BY DEF Results, StagesAgree
  <2> QED
    BY <2>1, <2>2, <2>3 DEF Results, shape
<1>2. wave \subseteq planned /\ planned \subseteq Steps /\ \A s \in wave : status[s] = "running"
  BY <1>1 DEF TypeOK, StagesAgree
<1>3. /\ status' \in [Steps -> {"pending", "running", "succeeded", "failed", "skipped", "cancelled"}]
      /\ \A s \in Steps : status'[s] = IF s \in ok THEN "succeeded" ELSE IF s \in wave THEN "failed"
                                       ELSE IF s \in dropped THEN "cancelled" ELSE status[s]
  BY <1>2 DEF Results, TypeOK
<1>4. results' \in [Steps -> 0..1] /\ \A s \in Steps : s \notin wave => results'[s] = results[s]
  <2>1. \A s \in wave : results[s] = 0
    BY <1>2 DEF TypeOK, ResultsMatch
  <2> QED
    BY <1>2, <2>1 DEF Results, TypeOK
<1>5. TypeOK'
  BY <1>1, <1>2, <1>3, <1>4 DEF TypeOK, Timed
<1>6. PlanStaysValid'
  BY <1>1 DEF PlanStaysValid
<1>7. DependenciesFirst'
  <2> SUFFICES ASSUME NEW s \in planned, status'[s] \in {"running", "succeeded", "failed"},
                      NEW d \in deps[s]
               PROVE  status'[d] = "succeeded"
    BY <1>1 DEF DependenciesFirst
  <2>1. s \in Steps /\ d \in Steps
    BY <1>2 DEF TypeOK, PlanStaysValid, Valid
  <2>2. status[s] \in {"running", "succeeded", "failed"}
    BY <1>2, <1>3, <2>1
  <2>3. status[d] = "succeeded"
    BY <2>2 DEF DependenciesFirst
  <2> QED
    BY <1>2, <1>3, <2>1, <2>3
<1>8. ResultsMatch'
  BY <1>2, <1>3, <1>4 DEF ResultsMatch
<1>9. StagesAgree'
  <2>1. /\ \A s \in Steps \ planned : status'[s] = "pending"
        /\ \A s \in Steps : status'[s] = "cancelled" => failFast
    BY <1>2, <1>3 DEF StagesAgree, Aborts
  <2>2. pc' = "judging" => Ready(status)' = {}
    <3> SUFFICES ASSUME pc' = "judging", NEW s \in planned PROVE status'[s] # "pending"
      BY <1>1 DEF Ready
    <3>1. Aborts(ok)
      BY DEF Results
    <3> QED
      BY <1>2, <1>3, <3>1
  <2>3. pc' = "refining" => idle' = FALSE
    BY DEF Results
  <2> QED
    BY <1>1, <2>1, <2>2, <2>3 DEF StagesAgree
<1>10. VerdictHonest'
  BY <1>1 DEF VerdictHonest
<1>11. ExecutionStep
  <2>1. status' = [s \in Steps |-> IF s \in ok THEN "succeeded" ELSE IF s \in wave THEN "failed"
                                   ELSE IF s \in dropped THEN "cancelled" ELSE status[s]]
    BY <1>3
  <2>2. dropped # {} => \E s \in wave \ ok : s \notin optional
    BY DEF Aborts
  <2>3. Execution!Conclude(wave, ok, dropped)
    BY <1>1, <1>2, <2>1, <2>2 DEF Execution!Conclude
  <2>4. wave \in SUBSET planned /\ ok \in SUBSET planned /\ dropped \in SUBSET planned
    BY <1>2
  <2> QED
    BY <2>3, <2>4 DEF ExecutionStep, Execution!Next
<1> QED
  BY <1>5, <1>6, <1>7, <1>8, <1>9, <1>10, <1>11

LEMMA RefinedStep ==
  ASSUME AgentInv, NEW extra \in SUBSET Steps, Refined(extra) PROVE AgentInv' /\ ExecutionStep
<1> USE DEF AgentInv
<1>1. pc = "refining" /\ UNCHANGED <<shape, status, wave, rounds, idle, outcome>>
  BY DEF Refined
<1>2. CASE ~(extra \subseteq planned) /\ Valid(planned \union extra, deps)
  <2>1. planned' = planned \union extra /\ pc' = "loop"
    BY <1>2 DEF Refined
  <2>2. planned \union extra \in SUBSET Steps
    BY DEF TypeOK
  <2> QED
    BY <1>1, <1>2, <2>1, <2>2, PlanGrows
<1>3. CASE ~(~(extra \subseteq planned) /\ Valid(planned \union extra, deps))
  <2>1. planned' = planned /\ pc' \in {"loop", "judging"} /\ (pc' = "judging" => idle)
    BY <1>3 DEF Refined
  <2>2. UNCHANGED <<deps, optional, failFast, planned, status, wave, rounds, idle,
                    results, verdict, runs>> /\ verdict = "running"
    BY <1>1, <2>1 DEF shape, outcome, StagesAgree
  <2>3. TypeOK'
    BY <2>1, <2>2 DEF TypeOK, Timed
  <2>4. PlanStaysValid' /\ DependenciesFirst' /\ ResultsMatch' /\ VerdictHonest'
    BY <2>2 DEF PlanStaysValid, DependenciesFirst, ResultsMatch, VerdictHonest
  <2>5. StagesAgree'
    BY <1>1, <2>1, <2>2 DEF StagesAgree, Ready
  <2>6. UNCHANGED Execution!vars
    BY <2>2 DEF Execution!vars
  <2> QED
    BY <2>3, <2>4, <2>5, <2>6 DEF ExecutionStep
<1> QED
  BY <1>2, <1>3

LEMMA JudgeStep ==
  ASSUME AgentInv, Judge PROVE AgentInv' /\ ExecutionStep
<1> USE DEF AgentInv
<1>1. /\ UNCHANGED <<deps, optional, failFast, planned, status, wave, rounds, idle, results, runs>>
      /\ verdict' = Verdict /\ pc = "judging" /\ pc' \in {"persisting", "finishing"}
  BY DEF Judge, shape
<1>2. TypeOK'
  BY <1>1 DEF TypeOK, Timed, Verdict
<1>3. PlanStaysValid' /\ DependenciesFirst' /\ ResultsMatch' /\ StagesAgree'
  BY <1>1 DEF PlanStaysValid, DependenciesFirst, ResultsMatch, StagesAgree
<1>4. VerdictHonest'
  <2>1. ASSUME Verdict = "cancelled" PROVE failFast /\ \E s \in planned : status[s] = "cancelled"
    BY <2>1 DEF Verdict, StagesAgree, TypeOK
  <2>2. ASSUME Verdict = "succeeded"
        PROVE  /\ \A s \in planned \ optional : status[s] \in {"succeeded", "pending", "running"}
               /\ \A s \in planned : status[s] # "cancelled"
    BY <2>2 DEF Verdict, TypeOK
  <2>3. ASSUME Verdict = "succeeded", NEW s \in planned \ optional, status[s] # "succeeded"
        PROVE  \E d \in planned : \/ status[d] = "running"
                                  \/ d \in optional /\ status[d] \in {"failed", "skipped"}
    <3>1. CASE status[s] = "running"
      BY <3>1
    <3>2. CASE status[s] = "pending"
      <4>1. Ready(status) = {}
        BY <1>1 DEF StagesAgree
      <4>2. PICK d \in planned : status[d] \in {"running", "failed", "skipped", "cancelled"}
        BY <3>2, <4>1, PendingBelowUnfinished
      <4> QED
        BY <2>2, <2>3, <4>2
    <3> QED
      BY <2>2, <2>3, <3>1, <3>2
  <2> QED
    BY <1>1, <2>1, <2>2, <2>3 DEF VerdictHonest
<1>5. UNCHANGED Execution!vars
  BY <1>1 DEF Execution!vars
<1> QED
  BY <1>2, <1>3, <1>4, <1>5 DEF ExecutionStep

LEMMA PlainStep ==
  ASSUME AgentInv,
         \/ Started \/ Recalled \/ PlanningFails \/ Announced \/ Persisted \/ Finished
         \/ TimesOut \/ Cancel
  PROVE  AgentInv' /\ ExecutionStep
<1> USE DEF AgentInv, Timed
<1>0. /\ UNCHANGED <<shape, planned, status, wave, rounds, idle, results, runs>>
      /\ pc' \in {"recalling", "planning", "loop", "finishing", "done", "raised"}
  BY DEF Started, Recalled, PlanningFails, Announced, Persisted, Finished, TimesOut, Cancel, outcome
<1>1. CASE Started \/ Recalled \/ Announced
  <2>1. verdict' = verdict /\ verdict = "running" /\ pc' \in {"recalling", "planning", "loop"}
    BY <1>1 DEF Started, Recalled, Announced, outcome, StagesAgree
  <2>2. TypeOK'
    BY <1>0, <2>1 DEF TypeOK, shape
  <2> QED
    BY <1>0, <2>1, <2>2, Elsewhere
<1>2. CASE PlanningFails \/ TimesOut
  <2>1. verdict' = "failed" /\ pc' = "finishing"
    BY <1>2 DEF PlanningFails, TimesOut
  <2>2. TypeOK'
    BY <1>0, <2>1 DEF TypeOK, shape
  <2> QED
    BY <1>0, <2>1, <2>2, Elsewhere
<1>3. CASE Persisted \/ Finished
  <2>1. verdict' = verdict /\ pc # "raised" /\ pc' \in {"finishing", "done"}
    BY <1>3 DEF Persisted, Finished, outcome
  <2>2. TypeOK'
    BY <1>0, <2>1 DEF TypeOK, shape
  <2> QED
    BY <1>0, <2>1, <2>2, Elsewhere
<1>4. CASE Cancel
  <2>1. pc' = "raised" /\ verdict' \in {"cancelled", verdict}
    BY <1>4 DEF Cancel
  <2>2. TypeOK'
    BY <1>0, <2>1 DEF TypeOK, shape
  <2> QED
    BY <1>0, <2>1, <2>2, Elsewhere
<1> QED
  BY <1>1, <1>2, <1>3, <1>4

LEMMA AgentStep == AgentInv /\ [Next]_vars => AgentInv' /\ ExecutionStep
<1> SUFFICES ASSUME AgentInv, [Next]_vars PROVE AgentInv' /\ ExecutionStep
  OBVIOUS
<1>1. ASSUME NEW plan \in SUBSET Steps, PlanMade(plan) PROVE AgentInv' /\ ExecutionStep
  <2>1. planned \subseteq plan
    BY <1>1 DEF PlanMade
  <2> QED
    BY <1>1, <2>1, PlanGrows DEF PlanMade
<1>2. CASE UNCHANGED vars
  <2>1. UNCHANGED <<deps, optional, failFast, planned, status, pc, wave, rounds, idle,
                    results, verdict, runs>>
    BY <1>2 DEF vars, shape, outcome
  <2>2. TypeOK' /\ PlanStaysValid' /\ DependenciesFirst' /\ ResultsMatch'
    BY <2>1 DEF AgentInv, TypeOK, PlanStaysValid, DependenciesFirst, ResultsMatch
  <2>3. StagesAgree' /\ VerdictHonest'
    BY <2>1 DEF AgentInv, StagesAgree, VerdictHonest, Ready
  <2>4. UNCHANGED Execution!vars
    BY <2>1 DEF Execution!vars
  <2> QED
    BY <2>2, <2>3, <2>4 DEF AgentInv, ExecutionStep
<1> QED
  BY <1>1, <1>2, BeginStep, DispatchStep, StuckStep, ResultsStep, RefinedStep, JudgeStep, PlainStep
     DEF Next, OwnStep, SinkStep

LEMMA AgentInvariant == Spec => []AgentInv
BY AgentInit, AgentStep, PTL DEF Spec

-----------------------------------------------------------------------------
\* No run of a plan ever starts a step whose dependencies have not succeeded,
\* and no later wave, refinement or run takes a success back.
THEOREM DependenciesAlwaysFirst == Spec => []DependenciesFirst
<1>1. AgentInv => DependenciesFirst
  BY DEF AgentInv
<1> QED
  BY <1>1, AgentInvariant, PTL

\* The refiner never leaves the plan with a ring or a missing step.
THEOREM PlanAlwaysValid == Spec => []PlanStaysValid
<1>1. AgentInv => PlanStaysValid
  BY DEF AgentInv
<1> QED
  BY <1>1, AgentInvariant, PTL

\* A reported success means what it says for every dependency graph: the proof
\* takes a minimal pending step, which exists because the graph has no ring.
THEOREM VerdictAlwaysHonest == Spec => []VerdictHonest
<1>1. AgentInv => VerdictHonest
  BY DEF AgentInv
<1> QED
  BY <1>1, AgentInvariant, PTL

\* Each step of the plan has at most one result in a run, and only a step that
\* ended has one.
THEOREM ResultsAlwaysMatch == Spec => [](TypeOK /\ ResultsMatch)
<1>1. AgentInv => TypeOK /\ ResultsMatch
  BY DEF AgentInv
<1> QED
  BY <1>1, AgentInvariant, PTL

\* Waves, refinements, aborts and repeated runs implement the execution of one
\* plan, step by step.
THEOREM RunImplementsPlanExecution == Spec => ImplementsPlanExecution
<1>1. ExecutionStep => [Execution!Next]_(Execution!vars)
  BY DEF ExecutionStep
<1> QED
  BY <1>1, AgentInit, AgentStep, AgentInvariant, PTL DEF Spec, ImplementsPlanExecution, Execution!Spec
=============================================================================
