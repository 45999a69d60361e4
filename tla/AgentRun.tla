-------------------------------- MODULE AgentRun --------------------------------
(***************************************************************************)
(* One agent and one plan: core/agent.py run(), with the plan of           *)
(* core/planner.py.  A run recalls, plans, executes the plan wave by wave, *)
(* asks the refiner for more steps, judges and remembers; a later run may  *)
(* be given the same plan again.                                           *)
(*                                                                         *)
(* pc names the point where the run waits.  Cancellation and the run's     *)
(* timeout meet it at such a point; "loop" and "judging" are inside a      *)
(* segment without one.  The dispatcher returns one result for each        *)
(* invocation of a wave (module Dispatcher).                               *)
(***************************************************************************)
EXTENDS Integers, FiniteSets, Plans

CONSTANTS
  Steps,      \* the steps of the plan and those the refiner may add
  Shapes,     \* the dependency relations considered: step -> set of steps
  MaxRounds,  \* max_refinement_rounds, 0 without a refiner
  Persists,   \* persist_results and not dry_run
  MaxRuns     \* bound: calls of run()

ASSUME AgentAssumption ==
  /\ IsFiniteSet(Steps)
  /\ Shapes \subseteq [Steps -> SUBSET Steps]
  /\ MaxRounds \in Nat /\ MaxRuns \in Nat
  /\ Persists \in BOOLEAN

VARIABLES
  deps, optional,  \* depends_on and optional of every step
  failFast,        \* config.fail_fast
  planned,         \* plan.steps
  status,          \* step -> its TaskStatus
  pc,
  wave,            \* the steps handed to dispatch_many
  rounds,
  idle,            \* the refiner was asked because nothing was runnable
  results,         \* step -> how many of outcome.results are its own
  verdict,         \* outcome.status
  runs             \* run() calls so far

shape   == <<deps, optional, failFast>>
outcome == <<results, verdict, runs>>
vars    == <<shape, planned, status, pc, wave, rounds, idle, outcome>>

\* Where the run's timeout can meet it.
Timed == {"recalling", "planning", "announcing", "dispatching", "refining", "persisting"}

TypeOK ==
  /\ deps \in Shapes /\ optional \in SUBSET Steps /\ failFast \in BOOLEAN
  /\ planned \in SUBSET Steps
  /\ status \in [Steps -> {"pending", "running", "succeeded", "failed", "skipped", "cancelled"}]
  /\ pc \in Timed \union {"idle", "starting", "loop", "judging", "finishing", "done", "raised"}
  /\ wave \in SUBSET planned
  /\ rounds \in 0..MaxRounds /\ idle \in BOOLEAN
  /\ results \in [Steps -> 0..1]
  /\ verdict \in {"running", "succeeded", "failed", "cancelled"}
  /\ runs \in 0..MaxRuns

Init ==
  /\ deps \in Shapes /\ optional \in SUBSET Steps /\ failFast \in BOOLEAN
  /\ planned = {} /\ status = [s \in Steps |-> "pending"]
  /\ pc = "idle" /\ wave = {} /\ rounds = 0 /\ idle = FALSE
  /\ results = [s \in Steps |-> 0] /\ verdict = "running" /\ runs = 0

-----------------------------------------------------------------------------
(* The plan; a step of an unregistered tool is refused by validate() like   *)
(* one that depends on itself, which stands for it here.                   *)

\* Plan.blocked_steps: looks at the dependencies themselves, once.
Blocked == {s \in planned : status[s] = "pending"
              /\ \E d \in deps[s] : status[d] \in {"failed", "skipped", "cancelled"}}

Retired == [s \in Steps |-> IF s \in Blocked THEN "skipped" ELSE status[s]]

\* Plan.ready_steps.
Ready(st) ==
  {s \in planned : st[s] = "pending" /\ \A d \in deps[s] : st[d] = "succeeded"}

-----------------------------------------------------------------------------
(* The run up to its loop.                                                 *)

\* run(), for the first time or with the plan of an earlier run.
Begin ==
  /\ pc \in {"idle", "done", "raised"} /\ runs < MaxRuns
  /\ runs' = runs + 1
  /\ pc' = "starting" /\ rounds' = 0 /\ wave' = {}
  /\ results' = [s \in Steps |-> 0] /\ verdict' = "running"
  /\ UNCHANGED <<shape, planned, status, idle>>

\* The sink took "agent.run.start".
Started ==
  /\ pc = "starting" /\ pc' = "recalling"
  /\ UNCHANGED <<shape, planned, status, wave, rounds, idle, outcome>>

\* Memory answered, or failed, which is logged.
Recalled ==
  /\ pc = "recalling" /\ pc' = "planning"
  /\ UNCHANGED <<shape, planned, status, wave, rounds, idle, outcome>>

\* The planner made a plan, or the supplied one is valid still.
PlanMade(plan) ==
  /\ pc = "planning" /\ (planned = {} \/ plan = planned)
  /\ Valid(plan, deps)
  /\ planned' = plan /\ pc' = "announcing"
  /\ UNCHANGED <<shape, status, wave, rounds, idle, outcome>>

PlanningFails ==
  /\ pc = "planning"
  /\ verdict' = "failed" /\ pc' = "finishing"
  /\ UNCHANGED <<shape, planned, status, wave, rounds, idle, results, runs>>

\* The sink took "agent.plan.ready".
Announced ==
  /\ pc = "announcing" /\ pc' = "loop"
  /\ UNCHANGED <<shape, planned, status, wave, rounds, idle, outcome>>

-----------------------------------------------------------------------------
(* The loop of _execute_plan.                                              *)

Dispatch ==
  /\ pc = "loop" /\ Ready(Retired) # {}
  /\ wave' = Ready(Retired)
  /\ status' = [s \in Steps |-> IF s \in Ready(Retired) THEN "running" ELSE Retired[s]]
  /\ pc' = "dispatching"
  /\ UNCHANGED <<shape, planned, rounds, idle, outcome>>

Complete(st) == \A s \in planned : st[s] \notin {"pending", "running"}

\* Nothing is runnable: ask the refiner, or leave the loop.
Stuck ==
  /\ pc = "loop" /\ Ready(Retired) = {}
  /\ status' = Retired
  /\ IF rounds < MaxRounds /\ ~Complete(Retired)
       THEN pc' = "refining" /\ rounds' = rounds + 1 /\ idle' = TRUE
       ELSE pc' = "judging" /\ UNCHANGED <<rounds, idle>>
  /\ UNCHANGED <<shape, planned, wave, outcome>>

Aborts(ok) == failFast /\ wave \ (ok \union optional) # {}

\* Mutated form: the abort cancels every step that has not succeeded.
ResultsCancelAll(ok) ==
  /\ pc = "dispatching"
  /\ results' = [s \in Steps |-> IF s \in wave THEN results[s] + 1 ELSE results[s]]
  /\ status' = [s \in Steps |-> IF s \in ok THEN "succeeded"
                                ELSE IF Aborts(ok) /\ s \in planned /\ status[s] # "succeeded"
                                     THEN "cancelled"
                                ELSE IF s \in wave THEN "failed" ELSE status[s]]
  /\ IF Aborts(ok) THEN pc' = "judging" /\ UNCHANGED <<rounds, idle>>
     ELSE IF rounds < MaxRounds
       THEN pc' = "refining" /\ rounds' = rounds + 1 /\ idle' = FALSE
       ELSE pc' = "loop" /\ UNCHANGED <<rounds, idle>>
  /\ UNCHANGED <<shape, planned, wave, verdict, runs>>

\* dispatch_many returned: the whole wave is recorded before fail_fast aborts
\* the rest; otherwise the refiner sees the results.
Results(ok) ==
  /\ pc = "dispatching"
  /\ results' = [s \in Steps |-> IF s \in wave THEN results[s] + 1 ELSE results[s]]
  /\ status' = [s \in Steps |-> IF s \in ok THEN "succeeded"
                                ELSE IF s \in wave THEN "failed"
                                ELSE IF Aborts(ok) /\ s \in planned /\ status[s] = "pending"
                                     THEN "cancelled" ELSE status[s]]
  /\ IF Aborts(ok) THEN pc' = "judging" /\ UNCHANGED <<rounds, idle>>
     ELSE IF rounds < MaxRounds
       THEN pc' = "refining" /\ rounds' = rounds + 1 /\ idle' = FALSE
       ELSE pc' = "loop" /\ UNCHANGED <<rounds, idle>>
  /\ UNCHANGED <<shape, planned, wave, verdict, runs>>

\* _refine: steps already in the plan are ignored; an extension that is not
\* valid is rolled back; a refiner that raises adds nothing.  Without new steps
\* a round asked for because nothing was runnable ends the loop.
Refined(extra) ==
  /\ pc = "refining"
  /\ LET grows == ~(extra \subseteq planned) /\ Valid(planned \union extra, deps) IN
       /\ planned' = IF grows THEN planned \union extra ELSE planned
       /\ pc' = IF idle /\ ~grows THEN "judging" ELSE "loop"
  /\ UNCHANGED <<shape, status, wave, rounds, idle, outcome>>

-----------------------------------------------------------------------------
(* The end of the run.                                                     *)

\* Mutated form: skipped steps are not a failure.
VerdictIgnoresSkipped ==
  IF \E s \in planned : status[s] = "cancelled" THEN "cancelled"
  ELSE IF \E s \in planned \ optional : status[s] = "failed" THEN "failed"
  ELSE "succeeded"

\* _verdict.
Verdict ==
  IF \E s \in planned : status[s] = "cancelled" THEN "cancelled"
  ELSE IF \E s \in planned \ optional : status[s] \in {"failed", "skipped"} THEN "failed"
  ELSE "succeeded"

Successes == {s \in Steps : results[s] > 0 /\ status[s] = "succeeded"}

Judge ==
  /\ pc = "judging"
  /\ verdict' = Verdict
  /\ pc' = IF Persists /\ Successes # {} THEN "persisting" ELSE "finishing"
  /\ UNCHANGED <<shape, planned, status, wave, rounds, idle, results, runs>>

\* Memory took the summaries, or failed, which is logged.
Persisted ==
  /\ pc = "persisting" /\ pc' = "finishing"
  /\ UNCHANGED <<shape, planned, status, wave, rounds, idle, outcome>>

\* The sink took "agent.run.finish": run() returns its outcome.
Finished ==
  /\ pc = "finishing" /\ pc' = "done"
  /\ UNCHANGED <<shape, planned, status, wave, rounds, idle, outcome>>

\* Mutated form: only the dispatch of a wave is under the timeout.
TimesOutInDispatch ==
  /\ pc = "dispatching"
  /\ verdict' = "failed" /\ pc' = "finishing"
  /\ UNCHANGED <<shape, planned, status, wave, rounds, idle, results, runs>>

\* run_timeout_seconds: the wave is cancelled and its results are lost.
TimesOut ==
  /\ pc \in Timed
  /\ verdict' = "failed" /\ pc' = "finishing"
  /\ UNCHANGED <<shape, planned, status, wave, rounds, idle, results, runs>>

Cancel ==
  /\ pc \in Timed \union {"starting", "finishing"}
  /\ verdict' = IF pc \in Timed THEN "cancelled" ELSE verdict
  /\ pc' = "raised"
  /\ UNCHANGED <<shape, planned, status, wave, rounds, idle, results, runs>>

-----------------------------------------------------------------------------
OwnStep  == Announced \/ Dispatch \/ Stuck \/ Judge
SinkStep == Started \/ Finished

Next ==
  \/ Begin \/ OwnStep \/ SinkStep \/ Recalled \/ PlanningFails \/ Persisted
  \/ \E plan \in SUBSET Steps : PlanMade(plan)
  \/ \E ok \in SUBSET wave : Results(ok)
  \/ \E extra \in SUBSET Steps : Refined(extra)
  \/ TimesOut \/ Cancel

Spec == Init /\ [][Next]_vars

\* The event loop runs the agent, the sink returns, and the timeout fires.
\* Nothing is assumed of memory, planner, dispatcher and refiner.
FairSpec == Spec /\ WF_vars(OwnStep) /\ WF_vars(SinkStep) /\ WF_vars(TimesOut)

-----------------------------------------------------------------------------
\* Over all waves, refinements and repeated runs, a step that was ever started
\* had all its dependencies succeed, and they stay succeeded.
DependenciesFirst ==
  \A s \in planned : status[s] \in {"running", "succeeded", "failed"} =>
    \A d \in deps[s] : status[d] = "succeeded"

\* What a refiner returns never leaves the plan cyclic or dangling.
PlanStaysValid == Valid(planned, deps)

\* A run that reports success lost no required step, and completed them all
\* unless an optional step was lost or an aborted run left one running; a run
\* that reports cancellation was cancelled or aborted by fail_fast.
VerdictHonest ==
  /\ verdict = "succeeded" =>
       /\ \A s \in planned \ optional : status[s] \in {"succeeded", "pending", "running"}
       /\ \/ \A s \in planned \ optional : status[s] = "succeeded"
          \/ \E s \in planned : \/ status[s] = "running"
                                \/ s \in optional /\ status[s] \in {"failed", "skipped"}
  /\ verdict = "cancelled" /\ pc # "raised" =>
       failFast /\ \E s \in planned : status[s] = "cancelled"

\* The result list agrees with the steps: one result for each step that ended
\* in this run, none for a step still waiting, running, skipped or dropped.
ResultsMatch == \A s \in Steps : results[s] > 0 => status[s] \in {"succeeded", "failed"}

\* What holds besides at each point of the run.
StagesAgree ==
  /\ \A s \in Steps \ planned : status[s] = "pending"
  /\ \A s \in Steps : status[s] = "cancelled" => failFast
  /\ pc = "dispatching" => \A s \in wave : status[s] = "running"
  /\ pc = "judging" \/ (pc = "refining" /\ idle) => Ready(status) = {}
  /\ pc \notin {"persisting", "finishing", "done", "raised"} => verdict = "running"

\* Inductive; it carries the refinement of PlanExecution.
AgentInv == /\ TypeOK /\ PlanStaysValid /\ DependenciesFirst /\ ResultsMatch
            /\ StagesAgree /\ VerdictHonest

\* The waves of all the runs together implement the execution of one plan.
Execution == INSTANCE PlanExecution WITH needs <- deps, plan <- planned, state <- status
ImplementsPlanExecution == Execution!Spec

\* Every run ends, even if memory, planner, a tool or the refiner never answers.
RunEnds == pc = "starting" ~> pc \in {"done", "raised"}

\* "Steps whose dependencies failed can never run; retire them": no step is
\* left pending below one that did not succeed when a run returns a verdict of
\* its own.
NothingLeftBelow ==
  pc = "done" /\ verdict = "succeeded" =>
    \A s \in planned : status[s] = "pending" =>
      \A d \in deps[s] : status[d] \notin {"failed", "skipped", "cancelled"}
=============================================================================
